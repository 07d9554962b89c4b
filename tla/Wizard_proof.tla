----------------------------- MODULE Wizard_proof -----------------------------
(***************************************************************************)
(* Proofs about Wizard, for any number of typed runes.                      *)
(***************************************************************************)
EXTENDS Wizard, Integers, SequenceTheorems, WellFoundedInduction, TLAPS

-----------------------------------------------------------------------------
(* TrimSpace picks the first and the last rune that is no blank: there is one. *)

Less == OpToRel(<, Nat)

\* A set of natural numbers has a smallest element.
LEMMA Least ==
  ASSUME NEW S \in SUBSET Nat, S # {}
  PROVE  \E x \in S : \A y \in S : x <= y
<1>1. IsWellFoundedOn(Less, Nat)
  BY NatLessThanWellFounded, Zenon DEF Less
<1>2. PICK x \in S : \A y \in S : <<y, x>> \notin Less
  BY <1>1, WFMin
<1>3. \A y \in S : ~ (y < x)
  BY <1>2 DEF Less, OpToRel
<1>4. x \in Nat /\ \A y \in S : y \in Nat
  OBVIOUS
<1>5. \A y \in S : x <= y
  BY <1>3, <1>4
<1>6. QED
  BY <1>5

\* A set of positions has a largest element: seen from behind it is the smallest.
LEMMA Greatest ==
  ASSUME NEW n \in Nat, NEW S \in SUBSET (1 .. n), S # {}
  PROVE  \E x \in S : \A y \in S : y <= x
<1> DEFINE Behind == {k \in Nat : n - k \in S}
<1>1. \A s \in S : n - s \in Nat /\ n - (n - s) = s
  OBVIOUS
<1>2. \A s \in S : n - s \in Behind
  BY <1>1
<1>3. Behind # {}
  BY <1>2
<1>4. PICK k \in Behind : \A j \in Behind : k <= j
  BY <1>3, Least
<1>5. ASSUME NEW y \in S
      PROVE  y <= n - k
  <2>1. k <= n - y
    BY <1>2, <1>4
  <2>2. k \in Nat /\ y \in 1 .. n
    BY <1>4
  <2>3. QED
    BY <2>1, <2>2
<1>6. QED
  BY <1>4, <1>5

\* Two positions of a text.
LEMMA Positions ==
  ASSUME NEW n \in Nat, NEW a \in 1 .. n, NEW b \in 1 .. n, a <= b
  PROVE  /\ a \in Int /\ b \in Int /\ 1 \in 1 .. b - a + 1 /\ a + 1 - 1 = a
         /\ \A i \in a .. b : i \in 1 .. n
         /\ b - a + 1 = IF a <= b THEN b - a + 1 ELSE 0
OBVIOUS

\* A part of a text, rune by rune.
LEMMA PartOf ==
  ASSUME NEW t, NEW a \in Int, NEW b \in Int
  PROVE  /\ Len(SubSeq(t, a, b)) = IF a <= b THEN b - a + 1 ELSE 0
         /\ \A i \in 1 .. b - a + 1 : SubSeq(t, a, b)[i] = t[a + i - 1]
<1> DEFINE S == {t[i] : i \in a .. b}
<1>1. \A i \in a .. b : t[i] \in S
  OBVIOUS
<1> HIDE DEF S
<1>2. QED
  BY <1>1, SubSeqProperties

\* A part of a text that begins with a rune that is no blank.
LEMMA PartInk ==
  ASSUME NEW t, NEW a \in Int, NEW b \in Int, NEW blank, a <= b, t[a] # blank
  PROVE  \E i \in 1 .. Len(SubSeq(t, a, b)) : SubSeq(t, a, b)[i] # blank
<1> DEFINE part == SubSeq(t, a, b)
           n == b - a + 1
<1>1. Len(part) = (IF a <= b THEN n ELSE 0) /\ \A i \in 1 .. n : part[i] = t[a + i - 1]
  BY PartOf
<1>2. n \in Int /\ 1 <= n /\ a + 1 - 1 = a
  OBVIOUS
<1> HIDE DEF part, n
<1>3. Len(part) = n /\ 1 \in 1 .. n
  BY <1>1, <1>2
<1>4. part[1] = t[a]
  BY <1>1, <1>2, <1>3, Zenon
<1>5. \E i \in 1 .. Len(part) : part[i] # blank
  BY <1>3, <1>4, Zenon
<1>6. QED
  BY <1>5, Zenon DEF part

\* What is left of a text after TrimSpace has a rune that is no blank, or is empty.
LEMMA TrimInk ==
  ASSUME NEW S, NEW t \in Seq(S), TrimSpace(t) # <<>>
  PROVE  \E i \in 1 .. Len(TrimSpace(t)) : TrimSpace(t)[i] # " "
<1> DEFINE Inks == {i \in 1 .. Len(t) : t[i] # " "}
           first == CHOOSE i \in Inks : \A j \in Inks : i <= j
           last == CHOOSE i \in Inks : \A j \in Inks : j <= i
<1>1. TrimSpace(t) = IF Inks = {} THEN <<>> ELSE SubSeq(t, first, last)
  BY DEF TrimSpace
<1>2. Inks # {} /\ TrimSpace(t) = SubSeq(t, first, last)
  BY <1>1
<1>3. \A i \in Inks : i \in 1 .. Len(t) /\ t[i] # " "
  OBVIOUS
<1>4. Len(t) \in Nat
  BY LenProperties
<1> HIDE DEF Inks
<1>5. Inks \in SUBSET (1 .. Len(t)) /\ Inks \in SUBSET Nat
  <2>1. \A n \in Nat : 1 .. n \subseteq Nat
    OBVIOUS
  <2>2. QED
    BY <1>3, <1>4, <2>1, Zenon
<1>6. first \in Inks /\ \A j \in Inks : first <= j
  BY <1>2, <1>5, Least
<1>7. last \in Inks
  BY <1>2, <1>4, <1>5, Greatest
<1> HIDE DEF first, last
<1>8. first <= last /\ first \in 1 .. Len(t) /\ last \in 1 .. Len(t) /\ t[first] # " "
  BY <1>3, <1>6, <1>7
<1>9. first \in Int /\ last \in Int
  BY <1>4, <1>8, Positions, Zenon
<1>10. ASSUME NEW blank, t[first] # blank
       PROVE  \E i \in 1 .. Len(SubSeq(t, first, last)) : SubSeq(t, first, last)[i] # blank
  <2>1. first <= last
    BY <1>8
  <2>2. QED
    BY <1>9, <1>10, <2>1, PartInk
<1>11. \E i \in 1 .. Len(SubSeq(t, first, last)) : SubSeq(t, first, last)[i] # " "
  BY <1>8, <1>10, Zenon
<1>12. QED
  BY <1>2, <1>11, Zenon

\* A text of one rune.
LEMMA OneRune ==
  ASSUME NEW r
  PROVE  Len(<<r>>) = 1 /\ <<r>>[1] = r /\ 1 \in 1 .. 1
OBVIOUS

\* A default in the place of an empty text is no blank either.
LEMMA DefaultInk ==
  ASSUME NEW S, NEW t \in Seq(S), NEW r, r # " "
  PROVE  \E i \in 1 .. Len(OrElse(TrimSpace(t), <<r>>)) :
            OrElse(TrimSpace(t), <<r>>)[i] # " "
<1>1. CASE TrimSpace(t) = <<>>
  <2>1. OrElse(TrimSpace(t), <<r>>) = <<r>>
    BY <1>1 DEF OrElse
  <2>2. Len(<<r>>) = 1 /\ <<r>>[1] = r /\ 1 \in 1 .. 1
    BY OneRune, Zenon
  <2>3. \E i \in 1 .. Len(<<r>>) : <<r>>[i] # " "
    BY <2>2
  <2>4. QED
    BY <2>1, <2>3, Zenon
<1>2. CASE TrimSpace(t) # <<>>
  <2>1. OrElse(TrimSpace(t), <<r>>) = TrimSpace(t)
    BY <1>2 DEF OrElse
  <2>2. QED
    BY <1>2, <2>1, TrimInk
<1>3. QED
  BY <1>1, <1>2

-----------------------------------------------------------------------------
(* The text fields. *)

\* What the keys do to a field leaves its cursor inside its text.
LEMMA KeysFit ==
  ASSUME NEW t \in Fitting
  PROVE  /\ left(t) \in Fitting /\ left(t).cur = t.cur
         /\ right(t) \in Fitting /\ right(t).cur = t.cur
<1>1. t \in [cur : Texts, pos : Nat] /\ t.pos <= Len(t.cur) /\ Len(t.cur) \in Nat
  BY DEF Fitting, Texts
<1>2. t.pos > 0 => /\ t.pos - 1 \in Nat /\ t.pos - 1 <= Len(t.cur)
  BY <1>1
<1>3. t.pos < Len(t.cur) => /\ t.pos + 1 \in Nat /\ t.pos + 1 <= Len(t.cur)
  BY <1>1
<1>4. ASSUME NEW p \in Nat, p <= Len(t.cur)
      PROVE  [t EXCEPT !.pos = p] \in Fitting /\ [t EXCEPT !.pos = p].cur = t.cur
  BY <1>1, <1>4 DEF Fitting
<1>5. QED
  BY <1>2, <1>3, <1>4 DEF left, right

\* Typing and deleting a rune, too.
LEMMA EditsFit ==
  ASSUME NEW t \in Fitting
  PROVE  /\ backspace(t) \in Fitting
         /\ \A r \in Typeable : insert(t, r) \in Fitting
<1> DEFINE p == t.pos
           c == t.cur
           n == Len(t.cur)
<1>1. c \in Seq(Runes) /\ p \in Nat /\ n \in Nat /\ p <= n
  BY DEF Fitting, Texts
<1>2. \A i \in 1 .. n : c[i] \in Runes
  BY <1>1, ElementOfSeq
<1>3. ASSUME NEW s \in Seq(Runes), NEW k \in Nat, k <= Len(s)
      PROVE  [cur |-> s, pos |-> k] \in Fitting
  BY <1>3 DEF Fitting, Texts
<1> HIDE DEF p, c, n
<1>4. \A k \in 0 .. n : SubSeq(c, 1, k) \in Seq(Runes) /\ Len(SubSeq(c, 1, k)) = k
  <2>1. SUFFICES ASSUME NEW k \in 0 .. n
                 PROVE  SubSeq(c, 1, k) \in Seq(Runes) /\ Len(SubSeq(c, 1, k)) = k
    OBVIOUS
  <2>2. 1 \in Int /\ k \in Int /\ \A i \in 1 .. k : c[i] \in Runes
    BY <1>1, <1>2
  <2>3. SubSeq(c, 1, k) \in Seq(Runes) /\ Len(SubSeq(c, 1, k)) = IF 1 <= k THEN k - 1 + 1 ELSE 0
    BY <2>2, SubSeqProperties
  <2>4. QED
    BY <1>1, <2>3
<1>5. SubSeq(c, p + 1, n) \in Seq(Runes) /\ Len(SubSeq(c, p + 1, n)) = n - p
  <2>1. p + 1 \in Int /\ n \in Int /\ \A i \in p + 1 .. n : c[i] \in Runes
    BY <1>1, <1>2
  <2>2. SubSeq(c, p + 1, n) \in Seq(Runes)
        /\ Len(SubSeq(c, p + 1, n)) = IF p + 1 <= n THEN n - (p + 1) + 1 ELSE 0
    BY <2>1, SubSeqProperties
  <2>3. QED
    BY <1>1, <2>2
<1>6. backspace(t) \in Fitting
  <2>1. CASE p > 0
    <3>1. p - 1 \in 0 .. n /\ p - 1 \in Nat
      BY <1>1, <2>1
    <3>2. SubSeq(c, 1, p - 1) \o SubSeq(c, p + 1, n) \in Seq(Runes)
          /\ Len(SubSeq(c, 1, p - 1) \o SubSeq(c, p + 1, n)) = (p - 1) + (n - p)
      BY <1>4, <1>5, <3>1, ConcatProperties
    <3>3. p - 1 <= (p - 1) + (n - p)
      BY <1>1
    <3>4. QED
      BY <1>3, <2>1, <3>1, <3>2, <3>3 DEF backspace, p, c, n
  <2>2. CASE ~ (p > 0)
    BY <2>2 DEF backspace, p
  <2>3. QED
    BY <2>1, <2>2
<1>7. ASSUME NEW r \in Typeable
      PROVE  insert(t, r) \in Fitting
  <2>1. SubSeq(c, 1, p) \in Seq(Runes) /\ Len(SubSeq(c, 1, p)) = p
    BY <1>1, <1>4
  <2>2. <<r>> \in Seq(Runes) /\ Len(<<r>>) = 1
    BY DEF Runes
  <2>3. SubSeq(c, 1, p) \o <<r>> \in Seq(Runes) /\ Len(SubSeq(c, 1, p) \o <<r>>) = p + 1
    BY <2>1, <2>2, ConcatProperties
  <2>4. SubSeq(c, 1, p) \o <<r>> \o SubSeq(c, p + 1, n) \in Seq(Runes)
        /\ Len(SubSeq(c, 1, p) \o <<r>> \o SubSeq(c, p + 1, n)) = (p + 1) + (n - p)
    BY <1>5, <2>3, ConcatProperties
  <2>5. p + 1 \in Nat /\ p + 1 <= (p + 1) + (n - p)
    BY <1>1
  <2>6. QED
    BY <1>3, <2>4, <2>5 DEF insert, p, c, n
<1>8. QED
  BY <1>6, <1>7

\* Cursors that are inside their texts are drawn where they are.
LEMMA DrawShows ==
  ASSUME NEW t \in [Fields -> Fitting], NEW s, NEW i, Draw(t, s, i)
  PROVE  text' = t /\ step' = s /\ index' = i
<1>1. \A f \in Fields : t[f] \in Fitting
  OBVIOUS
<1>2. \A x \in Fitting : Clamp(x) = x
  BY DEF Clamp, Fitting, Texts
<1>3. text' = [f \in Fields |-> t[f]]
  BY <1>1, <1>2 DEF Draw
<1>4. QED
  BY <1>3 DEF Draw

-----------------------------------------------------------------------------
(* The invariant. *)

\* A form that was left with Esc is cancelled, and nothing is sent while it is up.
FormOK == (escaped => canceled) /\ (stage # "over" => request = NoRequest)

WizardInv == TypeOK /\ CheckedIsCurrent /\ FormOK /\ EscIsFinal /\ NothingBlankIsSent

\* The steps and their numbers.
LEMMA Steps ==
  /\ stepUsername = 0 /\ stepHost = 1 /\ stepDuration = 2 /\ stepReason = 3
  /\ stepCount = 4
  /\ DOMAIN durationPresets = 1 .. 4 /\ Len(durationPresets) = 4
BY DEF stepUsername, stepHost, stepDuration, stepReason, stepCount, durationPresets

\* A new form, without a default user or with one.
LEMMA NewFits ==
  ASSUME NEW d \in DefaultUsers
  PROVE  newTexts(d) \in [Fields -> Fitting]
<1>1. \A r \in Runes : <<r>> \in Seq(Runes) /\ Len(<<r>>) = 1
  OBVIOUS
<1>2. <<>> \in Seq(Runes) /\ Len(<<>>) = 0
  OBVIOUS
<1>3. "me" \in Runes /\ "*" \in Runes
  BY DEF Runes
<1>4. d \in Seq(Runes) /\ Len(d) \in Nat
  BY <1>1, <1>2, <1>3 DEF DefaultUsers
<1>5. ASSUME NEW c \in Seq(Runes), NEW k \in Nat, k <= Len(c)
      PROVE  [cur |-> c, pos |-> k] \in Fitting
  BY <1>5 DEF Fitting, Texts
<1>6. /\ [cur |-> d, pos |-> Len(d)] \in Fitting
      /\ [cur |-> <<"*">>, pos |-> 1] \in Fitting
      /\ [cur |-> <<>>, pos |-> 0] \in Fitting
  <2>1. \A n \in Nat : n <= n
    OBVIOUS
  <2>2. [cur |-> d, pos |-> Len(d)] \in Fitting
    BY <1>4, <1>5, <2>1, Zenon
  <2>3. ASSUME NEW c \in Seq(Runes), NEW k \in Nat, Len(c) = k
        PROVE  [cur |-> c, pos |-> k] \in Fitting
    BY <1>5, <2>1, <2>3
  <2>4. 0 \in Nat /\ 1 \in Nat
    OBVIOUS
  <2>5. [cur |-> <<"*">>, pos |-> 1] \in Fitting
    BY <1>1, <1>3, <2>3, <2>4, Zenon
  <2>6. [cur |-> <<>>, pos |-> 0] \in Fitting
    BY <1>2, <2>3, <2>4, Zenon
  <2>7. QED
    BY <2>2, <2>5, <2>6
<1>7. QED
  BY <1>6 DEF newTexts, Fields

\* Keys that leave the values and the fields of earlier steps alone.
LEMMA EditKeeps ==
  ASSUME WizardInv, Typing, Untouched, typed' \in 0 .. MaxTyped,
         NEW t \in [Fields -> Fitting], NEW s \in 0 .. 3, NEW i \in 1 .. 4,
         Draw(t, s, i), s <= step,
         s > 0 => t["user"].cur = text["user"].cur,
         s > 1 => t["host"].cur = text["host"].cur,
         s > 2 => t["custom"].cur = text["custom"].cur /\ i = index
  PROVE  WizardInv'
<1>1. text' = t /\ step' = s /\ index' = i
  BY DrawShows
<1>2. TypeOK'
  BY <1>1, Steps DEF WizardInv, TypeOK, Untouched
<1>3. CheckedIsCurrent'
  <2>1. step \in 0 .. 3
    BY Steps DEF WizardInv, TypeOK
  <2>2. s > 0 => step > 0
    BY <2>1
  <2>3. s > 1 => step > 1
    BY <2>1
  <2>4. s > 2 => step > 2
    BY <2>1
  <2>5. s > 2 => chosenDuration' = chosenDuration
    BY <1>1 DEF chosenDuration, isCustom
  <2>6. val' = val
    BY DEF Untouched
  <2>7. QED
    BY <1>1, <2>2, <2>3, <2>4, <2>5, <2>6, Steps DEF WizardInv, CheckedIsCurrent
<1>4. FormOK' /\ EscIsFinal' /\ NothingBlankIsSent'
  BY DEF WizardInv, FormOK, EscIsFinal, NothingBlankIsSent, Untouched, Typing
<1>5. QED
  BY <1>2, <1>3, <1>4 DEF WizardInv

\* Shift+Tab goes one step back.
LEMMA ShiftTabKeeps ==
  ASSUME WizardInv, ShiftTab
  PROVE  WizardInv'
<1>1. step \in 0 .. 3 /\ step > 0
  BY Steps DEF WizardInv, TypeOK, ShiftTab
<1>2. step - 1 \in 0 .. 3 /\ step - 1 <= step
  BY <1>1
<1>3. /\ text \in [Fields -> Fitting] /\ index \in 1 .. 4
      /\ Typing /\ Untouched /\ typed' \in 0 .. MaxTyped
      /\ Draw(text, step - 1, index)
  BY Steps DEF WizardInv, TypeOK, ShiftTab
<1>4. QED
  BY <1>2, <1>3, EditKeeps

\* The arrow keys move the selection at its own step only.
LEMMA SelectKeeps ==
  ASSUME WizardInv, Up \/ Down
  PROVE  WizardInv'
<1>1. step = 2 /\ Typing /\ Untouched /\ typed' = typed
  BY Steps DEF Up, Down
<1>2. /\ text \in [Fields -> Fitting] /\ index \in 1 .. 4
      /\ typed' \in 0 .. MaxTyped
  BY <1>1, Steps DEF WizardInv, TypeOK
<1>3. \E i \in 1 .. 4 : Draw(text, step, i)
  <2>1. CASE Up
    <3>1. index - 1 \in 1 .. 4 /\ Draw(text, step, index - 1)
      BY <1>2, <2>1 DEF Up
    <3>2. QED
      BY <3>1
  <2>2. CASE Down
    <3>1. index + 1 \in 1 .. 4 /\ Draw(text, step, index + 1)
      BY <1>2, <2>2, Steps DEF Down
    <3>2. QED
      BY <3>1
  <2>3. QED
    BY <2>1, <2>2
<1>4. PICK i \in 1 .. 4 : Draw(text, step, i)
  BY <1>3
<1>5. step \in 0 .. 3 /\ step <= step /\ ~ (step > 2)
  BY <1>1
<1>6. QED
  BY <1>1, <1>2, <1>4, <1>5, EditKeeps

\* The cursor keys leave all texts as they are.
LEMMA CursorKeyKeeps ==
  ASSUME WizardInv, CursorKey
  PROVE  WizardInv'
<1>1. PICK t \in {left(text[currentText]), right(text[currentText])} :
         Untouched /\ typed' = typed
         /\ Draw([text EXCEPT ![currentText] = t], step, index)
  BY DEF CursorKey
<1>2. Typing /\ text \in [Fields -> Fitting] /\ index \in 1 .. 4 /\ typed' \in 0 .. MaxTyped
      /\ step \in 0 .. 3 /\ step <= step
  BY <1>1, Steps DEF WizardInv, TypeOK, CursorKey
<1>3. currentText \in Fields
  BY DEF currentText, Fields
<1>4. t \in Fitting /\ t.cur = text[currentText].cur
  BY <1>1, <1>2, <1>3, KeysFit
<1> DEFINE moved == [text EXCEPT ![currentText] = t]
<1>5. moved \in [Fields -> Fitting]
  BY <1>2, <1>4
<1>6. \A f \in Fields : moved[f].cur = text[f].cur
  BY <1>2, <1>4
<1>7. Draw(moved, step, index)
  BY <1>1
<1> HIDE DEF moved
<1>8. moved["user"].cur = text["user"].cur /\ moved["host"].cur = text["host"].cur
      /\ moved["custom"].cur = text["custom"].cur
  BY <1>6 DEF Fields
<1>9. QED
  BY <1>1, <1>2, <1>5, <1>7, <1>8, EditKeeps

\* Typing and deleting change the field of the current step only.
LEMMA EditFieldKeeps ==
  ASSUME WizardInv, Backspace \/ \E r \in Typeable : Type(r)
  PROVE  WizardInv'
<1>1. Typing /\ text \in [Fields -> Fitting] /\ index \in 1 .. 4
      /\ step \in 0 .. 3 /\ step <= step
  BY Steps DEF WizardInv, TypeOK, Backspace, Type
<1>2. Untouched /\ typed' \in 0 .. MaxTyped
  <2>1. CASE Backspace
    BY <2>1 DEF Backspace, WizardInv, TypeOK
  <2>2. ASSUME NEW r \in Typeable, Type(r)
        PROVE  Untouched /\ typed' \in 0 .. MaxTyped
    <3>1. Untouched /\ typed \in 0 .. MaxTyped /\ typed < MaxTyped /\ typed' = typed + 1
      BY <2>2 DEF Type, WizardInv, TypeOK
    <3>2. QED
      BY <3>1, WizardAssumption
  <2>3. QED
    BY <2>1, <2>2
<1>3. \E f \in Shown(step, index), e \in Fitting : Draw([text EXCEPT ![f] = e], step, index)
  <2>1. \A f \in Shown(step, index) : f \in Fields
    BY DEF Shown, Fields
  <2>2. \A f \in Fields : text[f] \in Fitting
    BY <1>1
  <2>3. CASE Backspace
    <3>1. PICK f \in Shown(step, index) :
             Draw([text EXCEPT ![f] = backspace(text[f])], step, index)
      BY <2>3 DEF Backspace
    <3>2. backspace(text[f]) \in Fitting
      BY <2>1, <2>2, EditsFit
    <3>3. QED
      BY <3>1, <3>2
  <2>4. ASSUME NEW r \in Typeable, Type(r)
        PROVE  \E f \in Shown(step, index), e \in Fitting :
                  Draw([text EXCEPT ![f] = e], step, index)
    <3>1. PICK f \in Shown(step, index) :
             Draw([text EXCEPT ![f] = insert(text[f], r)], step, index)
      BY <2>4 DEF Type
    <3>2. insert(text[f], r) \in Fitting
      BY <2>1, <2>2, EditsFit
    <3>3. QED
      BY <3>1, <3>2
  <2>5. QED
    BY <2>3, <2>4
<1>4. PICK f \in Shown(step, index), e \in Fitting : Draw([text EXCEPT ![f] = e], step, index)
  BY <1>3
<1> DEFINE edited == [text EXCEPT ![f] = e]
<1>5. edited \in [Fields -> Fitting] /\ \A g \in Fields : g # f => edited[g] = text[g]
  BY <1>1
<1>6. Draw(edited, step, index)
  BY <1>4
<1> HIDE DEF edited
<1>7. /\ step > 0 => f # "user"
      /\ step > 1 => f # "host"
      /\ step > 2 => f # "custom"
  BY <1>1, Steps DEF Shown
<1>8. "user" \in Fields /\ "host" \in Fields /\ "custom" \in Fields
  BY DEF Fields
<1>9. /\ step > 0 => edited["user"].cur = text["user"].cur
      /\ step > 1 => edited["host"].cur = text["host"].cur
      /\ step > 2 => edited["custom"].cur = text["custom"].cur
  BY <1>5, <1>7, <1>8
<1>10. QED
  BY <1>1, <1>2, <1>5, <1>6, <1>9, EditKeeps

\* Leaving a step copies its value; the steps before keep theirs.
LEMMA AdvanceKeeps ==
  ASSUME WizardInv, AdvanceUsername \/ AdvanceHost \/ AdvanceDuration \/ AdvanceReason
  PROVE  WizardInv'
<1> DEFINE Vals == [user : Texts, target : Texts, duration : Texts \cup Presets,
                    reason : Texts]
<1>1. /\ Typing /\ text \in [Fields -> Fitting] /\ index \in 1 .. 4 /\ val \in Vals
      /\ stage \in {"open", "quitting", "over"} /\ typed \in 0 .. MaxTyped
      /\ canceled \in BOOLEAN /\ escaped \in BOOLEAN /\ done \in BOOLEAN
  BY Steps DEF WizardInv, TypeOK, AdvanceUsername, AdvanceHost, AdvanceDuration,
               AdvanceReason
<1>2. \A f \in Fields : text[f] \in Fitting /\ text[f].cur \in Texts
  BY <1>1 DEF Fitting
<1>3. FormOK' /\ EscIsFinal' /\ NothingBlankIsSent'
  <2>1. /\ UNCHANGED <<canceled, request, escaped>> /\ stage # "over"
        /\ stage' = stage \/ stage' = "quitting"
    BY DEF Typing, AdvanceUsername, AdvanceHost, AdvanceDuration, AdvanceReason
  <2>2. request' = NoRequest
    BY <2>1 DEF WizardInv, FormOK
  <2>3. QED
    BY <2>1, <2>2 DEF WizardInv, FormOK, EscIsFinal, NothingBlankIsSent
<1>4. CASE AdvanceUsername
  <2>1. /\ step = 0 /\ val' = [val EXCEPT !.user = text["user"].cur]
        /\ Draw(text, 1, index)
        /\ UNCHANGED <<stage, canceled, done, request, escaped, typed>>
    BY <1>4, Steps DEF AdvanceUsername
  <2>2. text' = text /\ step' = 1 /\ index' = index
    BY <1>1, <2>1, DrawShows
  <2>3. val' \in Vals /\ val'.user = text["user"].cur
    BY <1>1, <1>2, <2>1 DEF Fields
  <2>4. TypeOK'
    BY <1>1, <2>1, <2>2, <2>3, Steps DEF TypeOK
  <2>5. CheckedIsCurrent'
    BY <2>2, <2>3, Steps DEF CheckedIsCurrent
  <2>6. QED
    BY <1>3, <2>4, <2>5 DEF WizardInv
<1>5. CASE AdvanceHost
  <2> DEFINE host == IF text["host"].cur = <<>> THEN <<"*">> ELSE text["host"].cur
             filled == [text EXCEPT !["host"].cur = host]
  <2>1. /\ step = 1 /\ val' = [val EXCEPT !.target = host]
        /\ Draw(filled, 2, index)
        /\ UNCHANGED <<stage, canceled, done, request, escaped, typed>>
    BY <1>5, Steps DEF AdvanceHost
  <2>2. host \in Texts
    <3>1. text["host"].cur \in Texts
      BY <1>2 DEF Fields
    <3>2. "*" \in Runes
      BY DEF Runes
    <3>3. <<"*">> \in Texts
      BY <3>2 DEF Texts
    <3>4. QED
      BY <3>1, <3>3
  <2>3. [text["host"] EXCEPT !.cur = host] \in Fitting
    <3>1. CASE text["host"].cur = <<>>
      <4>1. text["host"] \in [cur : Texts, pos : Nat] /\ text["host"].pos <= 0
        BY <1>2, <3>1 DEF Fields, Fitting
      <4>2. host = <<"*">> /\ Len(<<"*">>) = 1
        BY <3>1
      <4> HIDE DEF host
      <4>3. [text["host"] EXCEPT !.cur = host] \in [cur : Texts, pos : Nat]
            /\ [text["host"] EXCEPT !.cur = host].pos = text["host"].pos
            /\ [text["host"] EXCEPT !.cur = host].cur = host
        BY <2>2, <4>1
      <4>4. text["host"].pos \in Nat
        BY <4>1
      <4>5. text["host"].pos <= Len(host)
        BY <4>1, <4>2, <4>4
      <4>6. QED
        BY <4>3, <4>5 DEF Fitting
    <3>2. CASE text["host"].cur # <<>>
      <4>1. text["host"] \in Fitting /\ text["host"] \in [cur : Texts, pos : Nat]
        BY <1>2 DEF Fields, Fitting
      <4>2. host = text["host"].cur
        BY <3>2
      <4>3. [text["host"] EXCEPT !.cur = host] = text["host"]
        BY <4>1, <4>2
      <4>4. QED
        BY <4>1, <4>3
    <3>3. QED
      BY <3>1, <3>2
  <2> HIDE DEF host
  <2>4. filled \in [Fields -> Fitting] /\ filled["host"].cur = host
        /\ filled["user"] = text["user"]
    <3>1. text["host"] \in [cur : Texts, pos : Nat]
      BY <1>2 DEF Fields, Fitting
    <3>2. [text["host"] EXCEPT !.cur = host].cur = host
      BY <3>1
    <3>3. QED
      BY <1>1, <2>3, <3>2 DEF Fields
  <2> HIDE DEF filled
  <2>5. text' = filled /\ step' = 2 /\ index' = index
    BY <2>1, <2>4, DrawShows
  <2>6. val' \in Vals /\ val'.target = host /\ val'.user = val.user
    BY <1>1, <2>1, <2>2
  <2>7. TypeOK'
    BY <1>1, <2>1, <2>4, <2>5, <2>6, Steps DEF TypeOK
  <2>8. val.user = text["user"].cur
    BY <2>1, Steps DEF WizardInv, CheckedIsCurrent
  <2>9. CheckedIsCurrent'
    BY <2>4, <2>5, <2>6, <2>8, Steps DEF CheckedIsCurrent
  <2>10. QED
    BY <1>3, <2>7, <2>9 DEF WizardInv
<1>6. CASE AdvanceDuration
  <2>1. /\ step = 2 /\ val' = [val EXCEPT !.duration = chosenDuration]
        /\ Draw(text, 3, index)
        /\ UNCHANGED <<stage, canceled, done, request, escaped, typed>>
    BY <1>6, Steps DEF AdvanceDuration
  <2>2. text' = text /\ step' = 3 /\ index' = index
    BY <1>1, <2>1, DrawShows
  <2>3. chosenDuration \in Texts \cup Presets
    BY <1>1, <1>2, Steps DEF chosenDuration, Fields, Presets
  <2>4. val' \in Vals /\ val'.duration = chosenDuration
        /\ val'.user = val.user /\ val'.target = val.target
    BY <1>1, <2>1, <2>3
  <2>5. TypeOK'
    BY <1>1, <2>1, <2>2, <2>4, Steps DEF TypeOK
  <2>6. chosenDuration' = chosenDuration
    BY <2>2 DEF chosenDuration, isCustom
  <2>7. CheckedIsCurrent'
    BY <2>1, <2>2, <2>4, <2>6, Steps DEF WizardInv, CheckedIsCurrent
  <2>8. QED
    BY <1>3, <2>5, <2>7 DEF WizardInv
<1>7. CASE AdvanceReason
  <2>1. /\ step = 3 /\ val' = [val EXCEPT !.reason = text["reason"].cur]
        /\ Draw(text, 3, index)
        /\ done' = TRUE /\ stage' = "quitting"
        /\ UNCHANGED <<canceled, request, escaped, typed>>
    BY <1>7, Steps DEF AdvanceReason
  <2>2. text' = text /\ step' = 3 /\ index' = index
    BY <1>1, <2>1, DrawShows
  <2>3. val' \in Vals /\ val'.duration = val.duration
        /\ val'.user = val.user /\ val'.target = val.target
    BY <1>1, <1>2, <2>1 DEF Fields
  <2>4. TypeOK'
    BY <1>1, <2>1, <2>2, <2>3, Steps DEF TypeOK
  <2>5. chosenDuration' = chosenDuration
    BY <2>2 DEF chosenDuration, isCustom
  <2>6. CheckedIsCurrent'
    BY <2>1, <2>2, <2>3, <2>5, Steps DEF WizardInv, CheckedIsCurrent
  <2>7. QED
    BY <1>3, <2>4, <2>6 DEF WizardInv
<1>8. QED
  BY <1>4, <1>5, <1>6, <1>7

\* Esc leaves the form as it is and cancels it.
LEMMA EscKeeps ==
  ASSUME WizardInv, Esc
  PROVE  WizardInv'
<1>1. TypeOK'
  BY DEF WizardInv, TypeOK, Esc
<1>2. chosenDuration' = chosenDuration
  BY DEF Esc, chosenDuration, isCustom
<1>3. CheckedIsCurrent'
  BY <1>2 DEF WizardInv, CheckedIsCurrent, Esc
<1>4. FormOK' /\ EscIsFinal' /\ NothingBlankIsSent'
  BY DEF WizardInv, FormOK, EscIsFinal, NothingBlankIsSent, Esc, Typing
<1>5. QED
  BY <1>1, <1>3, <1>4 DEF WizardInv

\* What is sent when the form ends.
LEMMA SubmitInk ==
  ASSUME TypeOK, Submit # NoRequest
  PROVE  ~ canceled /\ \A t \in {Submit.user, Submit.target, Submit.duration} :
                          \E i \in 1 .. Len(t) : t[i] # " "
<1>1. /\ ~ canceled /\ TrimSpace(val.user) # <<>>
      /\ Submit.user = TrimSpace(val.user)
      /\ Submit.target = OrElse(TrimSpace(val.target), <<"*">>)
      /\ Submit.duration = OrElse(TrimSpace(val.duration), <<"1h">>)
  BY DEF Submit
<1> DEFINE All == Seq(Runes \cup {"30m", "1h", "2h", "Custom..."})
<1>2. Texts \subseteq All
  BY SeqMonotonic DEF Texts
<1>3. Presets \subseteq All
  <2>1. <<"30m">> \in All /\ <<"1h">> \in All /\ <<"2h">> \in All /\ <<"Custom...">> \in All
    OBVIOUS
  <2>2. /\ durationPresets[1] = <<"30m">> /\ durationPresets[2] = <<"1h">>
        /\ durationPresets[3] = <<"2h">> /\ durationPresets[4] = <<"Custom...">>
    BY DEF durationPresets
  <2>3. \A i \in 1 .. 4 : i = 1 \/ i = 2 \/ i = 3 \/ i = 4
    OBVIOUS
  <2>4. QED
    BY <2>1, <2>2, <2>3, Steps, Zenon DEF Presets
<1>4. val.user \in All /\ val.target \in All /\ val.duration \in All
  BY <1>2, <1>3 DEF TypeOK
<1>5. \E i \in 1 .. Len(Submit.user) : Submit.user[i] # " "
  BY <1>1, <1>4, TrimInk, Zenon
<1>6. \E i \in 1 .. Len(Submit.target) : Submit.target[i] # " "
  <2>1. "*" # " "
    OBVIOUS
  <2>2. \E i \in 1 .. Len(OrElse(TrimSpace(val.target), <<"*">>)) :
           OrElse(TrimSpace(val.target), <<"*">>)[i] # " "
    BY <1>4, <2>1, DefaultInk, Zenon
  <2>3. QED
    BY <1>1, <2>2, Zenon
<1>7. \E i \in 1 .. Len(Submit.duration) : Submit.duration[i] # " "
  <2>1. "1h" # " "
    OBVIOUS
  <2>2. \E i \in 1 .. Len(OrElse(TrimSpace(val.duration), <<"1h">>)) :
           OrElse(TrimSpace(val.duration), <<"1h">>)[i] # " "
    BY <1>4, <2>1, DefaultInk, Zenon
  <2>3. QED
    BY <1>1, <2>2, Zenon
<1>8. QED
  BY <1>1, <1>5, <1>6, <1>7, Zenon

\* The form ends and what it holds is sent, or nothing is.
LEMMA QuitKeeps ==
  ASSUME WizardInv, Quit
  PROVE  WizardInv'
<1>1. TypeOK'
  BY DEF WizardInv, TypeOK, Quit
<1>2. chosenDuration' = chosenDuration
  BY DEF Quit, chosenDuration, isCustom
<1>3. CheckedIsCurrent'
  BY <1>2 DEF WizardInv, CheckedIsCurrent, Quit
<1>4. request' = Submit /\ stage' = "over" /\ canceled' = canceled /\ escaped' = escaped
  BY DEF Quit
<1>5. FormOK'
  BY <1>4 DEF WizardInv, FormOK
<1>6. EscIsFinal' /\ NothingBlankIsSent'
  <2>1. CASE Submit = NoRequest
    BY <1>4, <2>1 DEF EscIsFinal, NothingBlankIsSent
  <2>2. CASE Submit # NoRequest
    <3>1. ~ canceled /\ \A t \in {Submit.user, Submit.target, Submit.duration} :
                           \E i \in 1 .. Len(t) : t[i] # " "
      BY <2>2, SubmitInk DEF WizardInv
    <3>2. EscIsFinal'
      BY <1>4, <3>1 DEF WizardInv, FormOK, EscIsFinal
    <3>3. NothingBlankIsSent'
      BY <1>4, <3>1, Zenon DEF NothingBlankIsSent
    <3>4. QED
      BY <3>2, <3>3
  <2>3. QED
    BY <2>1, <2>2
<1>7. QED
  BY <1>1, <1>3, <1>5, <1>6 DEF WizardInv

\* A new form, at the beginning or after the last.
LEMMA FreshFormOK ==
  ASSUME NEW d \in DefaultUsers
  PROVE  /\ newTexts(d) \in [Fields -> Fitting] /\ stepUsername \in 0 .. stepCount - 1
         /\ 2 \in DOMAIN durationPresets
         /\ NoRequest \in [user : Texts, target : Texts, duration : Texts \cup Presets,
                            reason : Texts]
<1>1. <<>> \in Texts
  BY DEF Texts
<1>2. QED
  BY <1>1, NewFits, Steps DEF NoRequest

\* The next command starts with a new form.
LEMMA AgainKeeps ==
  ASSUME WizardInv, Again
  PROVE  WizardInv'
<1>1. TypeOK'
  BY FreshFormOK DEF WizardInv, TypeOK, Again
<1>2. CheckedIsCurrent'
  BY Steps DEF CheckedIsCurrent, Again
<1>3. FormOK' /\ EscIsFinal' /\ NothingBlankIsSent'
  BY DEF FormOK, EscIsFinal, NothingBlankIsSent, Again
<1>4. QED
  BY <1>1, <1>2, <1>3 DEF WizardInv

\* The inductive invariant of the form.
LEMMA WizardInvariant == Spec => []WizardInv
<1>1. Init => WizardInv
  <2>1. SUFFICES ASSUME Init
                 PROVE  WizardInv
    OBVIOUS
  <2>2. TypeOK
    <3>1. PICK d \in DefaultUsers : text = newTexts(d)
      BY <2>1 DEF Init
    <3>2. text \in [Fields -> Fitting] /\ 0 \in 0 .. MaxTyped
      BY <3>1, FreshFormOK, WizardAssumption
    <3>3. QED
      BY <2>1, <3>1, <3>2, FreshFormOK DEF TypeOK, Init
  <2>3. CheckedIsCurrent
    BY <2>1, Steps DEF CheckedIsCurrent, Init
  <2>4. FormOK /\ EscIsFinal /\ NothingBlankIsSent
    BY <2>1 DEF FormOK, EscIsFinal, NothingBlankIsSent, Init
  <2>5. QED
    BY <2>2, <2>3, <2>4 DEF WizardInv
<1>2. WizardInv /\ [Next]_vars => WizardInv'
  <2>1. SUFFICES ASSUME WizardInv, [Next]_vars
                 PROVE  WizardInv'
    OBVIOUS
  <2>2. CASE UNCHANGED vars
    <3>1. chosenDuration' = chosenDuration
      BY <2>2 DEF vars, chosenDuration, isCustom
    <3>2. TypeOK' /\ CheckedIsCurrent' /\ FormOK' /\ EscIsFinal' /\ NothingBlankIsSent'
      BY <2>1, <2>2, <3>1 DEF WizardInv, TypeOK, CheckedIsCurrent, FormOK, EscIsFinal,
                              NothingBlankIsSent, vars
    <3>3. QED
      BY <3>2 DEF WizardInv
  <2>3. CASE Next
    BY <2>1, <2>3, EscKeeps, ShiftTabKeeps, SelectKeeps, CursorKeyKeeps, EditFieldKeeps,
       AdvanceKeeps, QuitKeeps, AgainKeeps
       DEF Next
  <2>4. QED
    BY <2>1, <2>2, <2>3
<1>3. QED
  BY <1>1, <1>2, PTL DEF Spec

-----------------------------------------------------------------------------
(* What the form promises. *)

\* Types, and that every cursor stays inside its text, so that no key indexes a
\* text outside its bounds (tui.go: textInput).
THEOREM WizardTypeCorrect == Spec => []TypeOK
BY WizardInvariant, PTL DEF WizardInv

\* Whatever keys are pressed, the checked values are those of the fields.
THEOREM ChecksAreCurrent == Spec => []CheckedIsCurrent
BY WizardInvariant, PTL DEF WizardInv

\* Esc ends a form for good, although keys are handled after it.
THEOREM EscEnds == Spec => []EscIsFinal
BY WizardInvariant, PTL DEF WizardInv

\* No text that is sent in a place that needs one is blank, for texts of any length.
THEOREM BlanksStayHome == Spec => []NothingBlankIsSent
BY WizardInvariant, PTL DEF WizardInv
=============================================================================
