------------------------------- MODULE CliLogin -------------------------------
(***************************************************************************)
(* "warden login" and "warden config set" on one machine (cmd/cli/login.go, *)
(* config.go) and the approval page of the server (cli_auth.html).  A login *)
(* listens on a local port, opens the page in a browser and waits for the   *)
(* token that the page sends to the port; the token is then merged into the *)
(* configuration file.  Commands run in several terminals at once and the   *)
(* file is read, changed and written back without a lock.  Of the file's    *)
(* three lines the URL is left out: no property is about it.                *)
(***************************************************************************)
EXTENDS Naturals, Sequences

CONSTANTS
    Terminals,  \* one command at a time runs in each
    Ports,      \* local ports the listeners get
    Owners,     \* users a browser can be signed in as
    MaxLogins,  \* bound: logins started
    MaxTokens   \* bound: tokens minted

ASSUME CliLoginAssumption ==
    /\ MaxLogins \in Nat /\ MaxTokens \in Nat
    /\ Owners \cap {"os", "other"} = {}
    /\ "none" \notin Ports

\* The server mints no token for a user without a name (user_tokens.go).
ASSUME NamedAssumption == "" \notin Owners

VARIABLES
    file,      \* config.yaml
    cmd,       \* the command of each terminal
    overlaid,  \* history: a command wrote into a file another one had just written
    logins,    \* history: logins started; numbers their random states
    pages,     \* approval pages open in the browser, as the URLs they were opened with
    sent,      \* redirections from such a page to a local port, under way
    tokens     \* user_tokens of the server, with the login each was minted for

vars == <<file, overlaid, cmd, logins, pages, sent, tokens>>

LoginIds == 1 .. MaxLogins
TokenIds == 1 .. MaxTokens

\* "os" is no user, "other" one that no login put there: given to "config set", or cut
\* off.  0 is a token that no login put there, or none at all.
Config == [user : Owners \cup {"os", "other"}, token : {0} \cup TokenIds]
DefaultConfig == [user |-> "os", token |-> 0]

\* An empty file reads like a missing one; a torn one cannot be parsed.
File == [is : {"empty", "whole", "torn"}, cfg : Config]
Empty == [is |-> "empty", cfg |-> DefaultConfig]
Torn == [is |-> "torn", cfg |-> DefaultConfig]
Whole(cfg) == [is |-> "whole", cfg |-> cfg]

Page == [port : Ports, state : LoginIds]
Redirect == [port : Ports, state : LoginIds, token : TokenIds]

\* result is the channel of a login: empty, a token, or an error.
Stages == {"idle", "waiting", "got", "save", "truncated"}
Command ==
    [pc : Stages, port : Ports \cup {"none"}, state : {0} \cup LoginIds,
     result : {"empty", "error", "token"}, token : {0} \cup TokenIds, cfg : Config]
Idle == [pc |-> "idle", port |-> "none", state |-> 0, result |-> "empty", token |-> 0, cfg |-> DefaultConfig]

Init ==
    /\ file = Empty
    /\ overlaid = FALSE
    /\ cmd = [c \in Terminals |-> Idle]
    /\ logins = 0
    /\ pages = {}
    /\ sent = {}
    /\ tokens = <<>>

Set(c, r) == cmd' = [cmd EXCEPT ![c] = r]

\* The listener is closed when runLogin returns, not when it has its token.
Listening(port) == \E c \in Terminals : cmd[c].port = port

-----------------------------------------------------------------------------
(* runLogin *)

\* Listen on a free port, draw a state, open the page.  The file is not read
\* when --api or WARDEN_API_URL gives the URL.
StartLogin(c, port) ==
    /\ cmd[c].pc = "idle"
    /\ logins < MaxLogins
    /\ ~ Listening(port)
    /\ logins' = logins + 1
    /\ Set(c, [Idle EXCEPT !.pc = "waiting", !.port = port, !.state = logins + 1])
    /\ pages' = pages \cup {[port |-> port, state |-> logins + 1]}
    /\ UNCHANGED <<file, overlaid, sent, tokens>>

\* Somebody signed in as u presses "Approve CLI Access", perhaps long after the
\* command ended, perhaps again.
Approve(page, u) ==
    /\ Len(tokens) < MaxTokens
    /\ tokens' = Append(tokens, [owner |-> u, for |-> page.state])
    /\ sent' = sent \cup {[port |-> page.port, state |-> page.state,
                           token |-> Len(tokens) + 1]}
    /\ UNCHANGED <<file, overlaid, cmd, logins, pages>>

ClosePage(page) ==
    /\ pages' = pages \ {page}
    /\ UNCHANGED <<file, overlaid, cmd, logins, sent, tokens>>

\* Faulty variant: the state is not compared.
AnyState(c, r) == TRUE

\* q.Get("state") == state
StateMatches(c, r) == r.state = cmd[c].state

\* A result for the channel of c, which holds one: a second one blocks for good, and one
\* that comes after the select has taken its own is never read.
Deliver(c, result, token) ==
    IF cmd[c].pc = "waiting" /\ cmd[c].result = "empty"
    THEN Set(c, [cmd[c] EXCEPT !.result = result, !.token = token])
    ELSE UNCHANGED cmd

\* /callback of the login that listens on the port now, waiting or storing its token.
Callback(c, r) ==
    /\ cmd[c].port = r.port
    /\ sent' = sent \ {r}
    /\ IF StateMatches(c, r) THEN Deliver(c, "token", r.token) ELSE Deliver(c, "error", 0)
    /\ UNCHANGED <<file, overlaid, logins, pages, tokens>>

\* A request to /callback that no approval page sent: without the state, or with it but
\* without a token.
StrayCallback(c) ==
    /\ cmd[c].port # "none"
    /\ Deliver(c, "error", 0)
    /\ UNCHANGED <<file, overlaid, logins, pages, sent, tokens>>

\* Nobody listens there any more: the browser shows an error.
Unreachable(r) ==
    /\ ~ Listening(r.port)
    /\ sent' = sent \ {r}
    /\ UNCHANGED <<file, overlaid, cmd, logins, pages, tokens>>

\* The select takes what is in the channel; an error ends the login ...
Receive(c) ==
    /\ cmd[c].pc = "waiting"
    /\ \/ cmd[c].result = "token" /\ Set(c, [cmd[c] EXCEPT !.pc = "got"])
       \/ cmd[c].result = "error" /\ Set(c, Idle)
    /\ UNCHANGED <<file, overlaid, logins, pages, sent, tokens>>

\* Faulty variant: the timer is armed by the first callback.
TimeoutAfterCallback(c) ==
    /\ cmd[c].pc = "waiting"
    /\ cmd[c].result # "empty"
    /\ Set(c, Idle)
    /\ UNCHANGED <<file, overlaid, logins, pages, sent, tokens>>

\* Faulty variant: the listener is not closed.
TimeoutListening(c) ==
    /\ cmd[c].pc = "waiting"
    /\ Set(c, [Idle EXCEPT !.port = cmd[c].port])
    /\ UNCHANGED <<file, overlaid, logins, pages, sent, tokens>>

\* ... or the two minutes are over, also when there is something in it.
Timeout(c) ==
    /\ cmd[c].pc = "waiting"
    /\ Set(c, Idle)
    /\ UNCHANGED <<file, overlaid, logins, pages, sent, tokens>>

-----------------------------------------------------------------------------
(* saveToken and runConfigSet: loadConfig, the change, saveConfig. *)

\* Faulty variant: the token is stored without its user.
MergeTokenOnly(cfg, token) == [cfg EXCEPT !.token = token]

\* saveToken's change: the token, and its user if there is one.
MergeToken(cfg, token) ==
    [cfg EXCEPT !.token = token,
                !.user = IF tokens[token].owner = "" THEN @ ELSE tokens[token].owner]

LoadForToken(c) ==
    /\ cmd[c].pc = "got"
    /\ \/ /\ file.is # "torn"
          /\ Set(c, [cmd[c] EXCEPT !.pc = "save",
                                   !.cfg = MergeToken(file.cfg, cmd[c].token)])
       \/ file.is = "torn" /\ Set(c, Idle)
    /\ UNCHANGED <<file, overlaid, logins, pages, sent, tokens>>

\* What "config set" makes of a configuration: another URL, another user or another
\* token, whatever is typed in.
Edits(cfg) == {cfg, [cfg EXCEPT !.user = "other"], [cfg EXCEPT !.token = 0]}

LoadForSet(c, cfg) ==
    /\ cmd[c].pc = "idle"
    /\ file.is # "torn"
    /\ Set(c, [Idle EXCEPT !.pc = "save", !.cfg = cfg])
    /\ UNCHANGED <<file, overlaid, logins, pages, sent, tokens>>

\* os.WriteFile truncates the file ...
Truncate(c) ==
    /\ cmd[c].pc = "save"
    /\ file' = Empty
    /\ Set(c, [cmd[c] EXCEPT !.pc = "truncated"])
    /\ UNCHANGED <<overlaid, logins, pages, sent, tokens>>

\* What cfg leaves of a longer text it is written over: nothing that matters, a
\* fragment that cannot be parsed, or the other's token line after its own lines.
Overlays(cfg) ==
    {Whole(cfg), Torn} \cup
    {Whole([cfg EXCEPT !.token = t]) : t \in IF cfg.token = 0 THEN {file.cfg.token} ELSE {}}

\* ... and then writes from its beginning, whatever is in it by then.
Write(c) ==
    /\ cmd[c].pc = "truncated"
    /\ file' \in IF file.is = "empty" THEN {Whole(cmd[c].cfg)} ELSE Overlays(cmd[c].cfg)
    /\ overlaid' = (overlaid \/ file.is # "empty")
    /\ Set(c, Idle)
    /\ UNCHANGED <<logins, pages, sent, tokens>>

\* What a write that breaks off, on a full disk say, leaves of cfg in an empty file:
\* nothing, the lines up to a name or a token that may be cut off, or half a line.
Beginnings(cfg) ==
    {Empty, Torn, Whole(DefaultConfig)} \cup
    {Whole([user |-> u, token |-> 0]) : u \in {cfg.user, "other"}}

\* Over what another command has just written, any mixture of both.
Mixtures(cfg) ==
    {Torn} \cup {Whole([user |-> u, token |-> t]) : u \in {cfg.user, file.cfg.user, "other"},
                                                    t \in {cfg.token, file.cfg.token, 0}}

\* WriteFile reports the error and the command ends with it.
WriteFails(c) ==
    /\ cmd[c].pc = "truncated"
    /\ file' \in IF file.is = "empty" THEN Beginnings(cmd[c].cfg) ELSE Mixtures(cmd[c].cfg)
    /\ overlaid' = (overlaid \/ file.is # "empty")
    /\ Set(c, Idle)
    /\ UNCHANGED <<logins, pages, sent, tokens>>

\* Ctrl-C, anywhere.
Interrupt(c) ==
    /\ cmd[c].pc # "idle"
    /\ Set(c, Idle)
    /\ UNCHANGED <<file, overlaid, logins, pages, sent, tokens>>

\* The user repairs a file that cannot be read by deleting it.
Repair ==
    /\ file.is = "torn"
    /\ file' = Empty
    /\ UNCHANGED <<overlaid, cmd, logins, pages, sent, tokens>>

-----------------------------------------------------------------------------
\* What a command does without anybody's help.
Run(c) == Receive(c) \/ Timeout(c) \/ LoadForToken(c) \/ Truncate(c) \/ Write(c)

Next ==
    \/ \E c \in Terminals :
          \/ \E port \in Ports : StartLogin(c, port)
          \/ \E r \in sent : Callback(c, r)
          \/ StrayCallback(c)
          \/ \E cfg \in Edits(file.cfg) : LoadForSet(c, cfg)
          \/ Run(c) \/ WriteFails(c) \/ Interrupt(c)
    \/ \E page \in pages : ClosePage(page) \/ \E u \in Owners : Approve(page, u)
    \/ \E r \in sent : Unreachable(r)
    \/ Repair

Spec == Init /\ [][Next]_vars

\* A command that has started keeps running, and its timer fires.
FairSpec == Spec /\ \A c \in Terminals : WF_vars(Run(c))

-----------------------------------------------------------------------------
\* Types; a login that waits or has a token keeps its listener, and no command that
\* has ended does (runLogin's deferred Close).
TypeOK ==
    /\ file \in File
    /\ overlaid \in BOOLEAN
    /\ cmd \in [Terminals -> Command]
    /\ \A c \in Terminals : cmd[c].pc = "idle" => cmd[c].port = "none"
    /\ \A c \in Terminals :
          cmd[c].pc = "waiting" \/ cmd[c].token # 0 => cmd[c].port # "none"
    /\ logins \in 0 .. MaxLogins
    /\ pages \subseteq Page
    /\ sent \subseteq Redirect
    /\ tokens \in Seq([owner : Owners, for : LoginIds]) /\ Len(tokens) <= MaxTokens

\* A login stores no token but one that was approved on the page it opened
\* itself, whatever ports are used again and whatever old pages are approved
\* meanwhile (runLogin's state).
OwnTokenOnly ==
    \A c \in Terminals :
        cmd[c].token # 0 => tokens[cmd[c].token].for = cmd[c].state

\* Unless two commands wrote at once, a token that a login put into the file is there
\* with the user it was issued to or one that was set by hand: commands that write back what
\* they read before another's change never mix the token of one login with the user
\* of another (saveToken, runConfigSet).
PairIntact ==
    ~ overlaid /\ file.cfg.token # 0 =>
        file.cfg.user \in {tokens[file.cfg.token].owner, "other"}

\* Every command ends, whether or not anybody approves (runLogin's timeout).
CommandsEnd == \A c \in Terminals : cmd[c].pc # "idle" ~> cmd[c].pc = "idle"
=============================================================================
