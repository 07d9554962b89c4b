-------------------------------- MODULE Wizard --------------------------------
(***************************************************************************)
(* The interactive form of "warden request" (cmd/cli/tui.go, request.go):   *)
(* four steps with text fields and a list of durations, driven by single    *)
(* keys.  Each key is handled by Update and followed by View, which pulls   *)
(* a stray cursor of the field on screen back into its text.  A text is a   *)
(* sequence of runes; a preset or a default is a text of one rune.          *)
(***************************************************************************)
EXTENDS Naturals, Sequences

CONSTANT MaxTyped  \* bound: runes typed

ASSUME WizardAssumption == MaxTyped \in Nat

VARIABLES
    stage,     \* "open", "quitting" (tea.Quit is on its way), "over"
    step,
    text,      \* the text fields with their cursors
    index,     \* selected duration
    val,       \* requestResult, but for canceled
    canceled,
    done,
    request,   \* what submitLease sends
    escaped,   \* history: Esc was pressed in this form
    typed      \* runes typed so far

vars == <<stage, step, text, index, val, canceled, done, request, escaped, typed>>

stepUsername == 0
stepHost == 1
stepDuration == 2
stepReason == 3
stepCount == 4

\* Half of the presets stand for all.
durationPresets == << <<"30m">>, <<"1h">>, <<"2h">>, <<"Custom...">> >>

Typeable == {"a", " "}
Fields == {"user", "host", "custom", "reason"}
Runes == Typeable \cup {"me", "*"}
NoRequest == [user |-> <<>>, target |-> <<>>, duration |-> <<>>, reason |-> <<>>]

Typing == stage # "over"

isCustom(i) == i = Len(durationPresets)
durCustomVisible == step = stepDuration /\ isCustom(index)
editingText == step # stepDuration \/ isCustom(index)

\* The field for the cursor keys.
currentText ==
    CASE step = stepUsername -> "user"
      [] step = stepHost -> "host"
      [] OTHER -> "reason"

\* The field renderStep shows, if any.
Shown(s, i) ==
    CASE s = stepUsername -> {"user"}
      [] s = stepHost -> {"host"}
      [] s = stepDuration -> IF isCustom(i) THEN {"custom"} ELSE {}
      [] OTHER -> {"reason"}

\* renderTextInput
Clamp(t) == IF t.pos > Len(t.cur) THEN [t EXCEPT !.pos = Len(t.cur)] ELSE t

\* Update leaves the fields t, step s and selection i; View is drawn.  When all is done
\* no field is drawn any more.
Draw(t, s, i) ==
    /\ text' = [f \in Fields |-> IF f \in Shown(s, i) /\ ~ done' THEN Clamp(t[f]) ELSE t[f]]
    /\ step' = s
    /\ index' = i

Untouched == UNCHANGED <<stage, val, canceled, done, request, escaped>>

-----------------------------------------------------------------------------
(* newWizard, with or without a default_user; a new command follows the last one. *)

\* config.yaml's default_user
DefaultUsers == {<<>>, <<"me">>}

newTexts(defaultUser) ==
    [user |-> [cur |-> defaultUser, pos |-> Len(defaultUser)],
     host |-> [cur |-> <<"*">>, pos |-> 1],
     custom |-> [cur |-> <<>>, pos |-> 0],
     reason |-> [cur |-> <<>>, pos |-> 0]]

Init ==
    /\ \E d \in DefaultUsers : text = newTexts(d)
    /\ stage = "open" /\ step = stepUsername /\ index = 2 /\ val = NoRequest
    /\ canceled = FALSE /\ done = FALSE /\ request = NoRequest
    /\ escaped = FALSE /\ typed = 0

Again ==
    /\ stage = "over"
    /\ \E d \in DefaultUsers : text' = newTexts(d)
    /\ stage' = "open" /\ step' = stepUsername /\ index' = 2 /\ val' = NoRequest
    /\ canceled' = FALSE /\ done' = FALSE /\ request' = NoRequest
    /\ escaped' = FALSE /\ UNCHANGED typed

-----------------------------------------------------------------------------
(* textInput *)

insert(t, r) ==
    [cur |-> SubSeq(t.cur, 1, t.pos) \o <<r>> \o SubSeq(t.cur, t.pos + 1, Len(t.cur)),
     pos |-> t.pos + 1]

backspace(t) ==
    IF t.pos > 0
    THEN [cur |-> SubSeq(t.cur, 1, t.pos - 1) \o SubSeq(t.cur, t.pos + 1, Len(t.cur)),
          pos |-> t.pos - 1]
    ELSE t

left(t) == IF t.pos > 0 THEN [t EXCEPT !.pos = @ - 1] ELSE t

\* Faulty variant: the cursor is not stopped at the end of the text.
rightUnbounded(t) == [t EXCEPT !.pos = @ + 1]

right(t) == IF t.pos < Len(t.cur) THEN [t EXCEPT !.pos = @ + 1] ELSE t

-----------------------------------------------------------------------------
(* Update: one action per key.  Keys that arrive after tea.Quit was returned and *)
(* before it is delivered are still handled.                                     *)

Esc ==
    /\ Typing
    /\ canceled' = TRUE
    /\ escaped' = TRUE
    /\ stage' = "quitting"
    /\ UNCHANGED <<step, text, index, val, done, request, typed>>

ShiftTab ==
    /\ Typing
    /\ step > stepUsername
    /\ Untouched /\ UNCHANGED typed
    /\ Draw(text, step - 1, index)

\* Faulty variant: the arrows move the selection at every step.
DownAnywhere ==
    /\ Typing
    /\ index < Len(durationPresets)
    /\ Untouched /\ UNCHANGED typed
    /\ Draw(text, step, index + 1)

Up ==
    /\ Typing
    /\ step = stepDuration /\ ~ durCustomVisible
    /\ index > 1
    /\ Untouched /\ UNCHANGED typed
    /\ Draw(text, step, index - 1)

Down ==
    /\ Typing
    /\ step = stepDuration /\ ~ durCustomVisible
    /\ index < Len(durationPresets)
    /\ Untouched /\ UNCHANGED typed
    /\ Draw(text, step, index + 1)

CursorKey ==
    /\ Typing
    /\ editingText
    /\ \E t \in {left(text[currentText]), right(text[currentText])} :
          /\ Untouched /\ UNCHANGED typed
          /\ Draw([text EXCEPT ![currentText] = t], step, index)

Backspace ==
    /\ Typing
    /\ \E f \in Shown(step, index) :
          /\ Untouched /\ UNCHANGED typed
          /\ Draw([text EXCEPT ![f] = backspace(@)], step, index)

\* A rune that is typed or pasted.  A blank comes by pasting only, since a space that
\* is typed is a key of its own, which the form ignores.
Type(r) ==
    /\ Typing
    /\ typed < MaxTyped
    /\ typed' = typed + 1
    /\ \E f \in Shown(step, index) :
          /\ Untouched
          /\ Draw([text EXCEPT ![f] = insert(@, r)], step, index)

-----------------------------------------------------------------------------
(* handleAdvance *)

AdvanceUsername ==
    /\ Typing
    /\ step = stepUsername
    /\ text["user"].cur # <<>>
    /\ val' = [val EXCEPT !.user = text["user"].cur]
    /\ UNCHANGED <<stage, canceled, done, request, escaped, typed>>
    /\ Draw(text, stepHost, index)

\* An emptied host becomes the wildcard.
AdvanceHost ==
    LET host == IF text["host"].cur = <<>> THEN <<"*">> ELSE text["host"].cur
    IN  /\ Typing
        /\ step = stepHost
        /\ val' = [val EXCEPT !.target = host]
        /\ UNCHANGED <<stage, canceled, done, request, escaped, typed>>
        /\ Draw([text EXCEPT !["host"].cur = host], stepDuration, index)

chosenDuration ==
    IF isCustom(index) THEN text["custom"].cur ELSE durationPresets[index]

AdvanceDuration ==
    /\ Typing
    /\ step = stepDuration
    /\ chosenDuration # <<>>
    /\ val' = [val EXCEPT !.duration = chosenDuration]
    /\ UNCHANGED <<stage, canceled, done, request, escaped, typed>>
    /\ Draw(text, stepReason, index)

\* Faulty variant: a completed form is a new result.
FinishFresh ==
    /\ Typing
    /\ step = stepReason
    /\ val' = [val EXCEPT !.reason = text["reason"].cur]
    /\ done' = TRUE
    /\ canceled' = FALSE
    /\ stage' = "quitting"
    /\ UNCHANGED <<request, escaped, typed>>
    /\ Draw(text, step, index)

AdvanceReason ==
    /\ Typing
    /\ step = stepReason
    /\ val' = [val EXCEPT !.reason = text["reason"].cur]
    /\ done' = TRUE
    /\ stage' = "quitting"
    /\ UNCHANGED <<canceled, request, escaped, typed>>
    /\ Draw(text, step, index)

-----------------------------------------------------------------------------
(* runWizard and runRequest, once the program has quit *)

\* Faulty variant: the values are taken as they are.
Untrimmed(t) == t

\* strings.TrimSpace
TrimSpace(t) ==
    LET Inks == {i \in 1 .. Len(t) : t[i] # " "}
    IN  IF Inks = {} THEN <<>>
        ELSE SubSeq(t, CHOOSE i \in Inks : \A j \in Inks : i <= j,
                       CHOOSE i \in Inks : \A j \in Inks : j <= i)

OrElse(t, default) == IF t = <<>> THEN default ELSE t

\* A blank user is an error; a blank target and a blank duration get a default.
Submit ==
    IF canceled \/ TrimSpace(val.user) = <<>> THEN NoRequest
    ELSE [user |-> TrimSpace(val.user),
          target |-> OrElse(TrimSpace(val.target), <<"*">>),
          duration |-> OrElse(TrimSpace(val.duration), <<"1h">>),
          reason |-> TrimSpace(val.reason)]

Quit ==
    /\ stage = "quitting"
    /\ stage' = "over"
    /\ request' = Submit
    /\ UNCHANGED <<step, text, index, val, canceled, done, escaped, typed>>

Next ==
    \/ Esc \/ ShiftTab \/ Up \/ Down \/ CursorKey \/ Backspace
    \/ \E r \in Typeable : Type(r)
    \/ AdvanceUsername \/ AdvanceHost \/ AdvanceDuration \/ AdvanceReason
    \/ Quit \/ Again

\* The quit message is delivered.
Spec == Init /\ [][Next]_vars /\ WF_vars(Quit)

-----------------------------------------------------------------------------
Texts == Seq(Runes)
Presets == {durationPresets[i] : i \in DOMAIN durationPresets}
Fitting == {t \in [cur : Texts, pos : Nat] : t.pos <= Len(t.cur)}

TypeOK ==
    /\ stage \in {"open", "quitting", "over"}
    /\ step \in 0 .. stepCount - 1
    /\ text \in [Fields -> Fitting]
    /\ index \in DOMAIN durationPresets
    /\ val \in [user : Texts, target : Texts, duration : Texts \cup Presets, reason : Texts]
    /\ canceled \in BOOLEAN /\ escaped \in BOOLEAN /\ done \in BOOLEAN
    /\ typed \in 0 .. MaxTyped

\* The values beside the check marks are the ones in the fields, however the user goes
\* back and forth and edits them again (View, valForStep).
CheckedIsCurrent ==
    /\ step > stepUsername => val.user = text["user"].cur
    /\ step > stepHost => val.target = text["host"].cur
    /\ step > stepDuration => val.duration = chosenDuration

\* Once Esc was pressed nothing is sent, whatever keys are still handled before the
\* program quits (handleAdvance, runRequest).
EscIsFinal == escaped => request = NoRequest

\* Nothing is sent without a user, a target and a duration that are more than blanks,
\* although the form takes blanks for an answer (runWizard, runRequest).
NothingBlankIsSent ==
    request # NoRequest =>
        \A t \in {request.user, request.target, request.duration} :
            \E i \in 1 .. Len(t) : t[i] # " "

\* The cursor keys move the cursor of the field on screen (docs/cli-reference.md).
CursorKeysMoveShown ==
    [][stage # "over" =>
          \A f \in Fields : text'[f].pos # text[f].pos /\ text'[f].cur = text[f].cur
                           => f \in Shown(step, index)]_vars
=============================================================================
