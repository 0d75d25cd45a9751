---------------------------- MODULE Registration ----------------------------
(***************************************************************************)
(* The sign up of a guardian and of a teacher in the web app: the two      *)
(* wizards, the checks of their fields, the one that asks the server for   *)
(* the email, the account that is created and the set up of its 2FA.       *)
(*                                                                         *)
(* A value is a small number: 0 is an empty field, a date is a day, and    *)
(* which of the others a rule takes is a constant.  Of each wizard some    *)
(* fields are followed (Field); the rest were typed well.  A name ending   *)
(* in Mutant is a broken variant of the definition after it.               *)
(***************************************************************************)
EXTENDS Naturals, Sequences, FiniteSets

CONSTANTS
    Field,       \* the fields that are followed
    Typed,       \* what the person may type in each of them
    Registered,  \* the emails that already have an account
    Adult,       \* the latest birth date of an adult
    Accepted,    \* the numbers each type of document takes
    Strong,      \* the passwords that meet every requirement
    Cards,       \* what a card of the teacher's profile may hold
    Pin          \* the PINs the family may type

AllFields == {"name", "birth", "type", "number", "issued", "email", "password",
              "confirmation", "kid"}

RegistrationAssumption ==
    /\ Field \subseteq AllFields
    /\ {"name", "email", "kid"} \subseteq Field
    /\ "issued" \in Field => "birth" \in Field
    /\ "number" \in Field => "type" \in Field
    /\ "confirmation" \in Field => "password" \in Field
    /\ Typed \in [Field -> SUBSET Nat]
    /\ 0 \notin Pin

VARIABLES
    who,      \* the wizard: guardian or teacher
    page,     \* the screen it shows
    form,     \* what is written in each field
    status,   \* nothing, the check or the cross at the end of each field
    checking, \* the email "Siguiente" waits for, 0 when it doesn't
    answers,  \* the emails the server was asked about and answered
    consent,  \* the box of the data processing
    pin,      \* the PIN of the kid, typed twice
    card,     \* the card of the teacher's profile
    account,  \* whether the server created the account
    totp      \* the set up of the 2FA

vars == <<who, page, form, status, checking, answers, consent, pin, card, account, totp>>
wizard == <<form, status, checking, answers, consent, pin, card>>

Page == {"step1", "step2", "confirm1", "confirm2", "cargando", "exito", "totp", "listo", "portal"}

InitPin  == [step |-> "ingresar", pin |-> 0]
InitCard == [is |-> "none", content |-> 0]
InitTotp == [step |-> 0, setup |-> "idle", verifying |-> FALSE]

\* The document's type is the first of the catalog until another is picked.
firstOptionId == 1
EmptyForm == [f \in Field |-> IF f = "type" THEN firstOptionId ELSE 0]

Init ==
    /\ who \in {"guardian", "teacher"}
    /\ page = "step1"
    /\ form = EmptyForm
    /\ status = [f \in Field |-> "quiet"]
    /\ checking = 0
    /\ answers = {}
    /\ consent = FALSE
    /\ pin = InitPin
    /\ card = InitCard
    /\ account = FALSE
    /\ totp = InitTotp

-----------------------------------------------------------------------------
(* The rules of the fields.                                                *)

nameError(v) == v = 0
birthDateProblem(v) == v = 0 \/ v > Adult
validateDocumentIssuedAt(issued, birth) == birth # 0 /\ issued < birth
documentNumberFormatError(type, v) == v \notin Accepted[type]
passwordMeetsRequirements(v) == v \in Strong

\* A letter does not get into the number of a cédula.
filterDocumentNumberInput(type, v) == IF documentNumberFormatError(type, v) THEN 0 ELSE v

\* What an email is known to be without asking again.
knownTaken(email) == email \in answers /\ email \in Registered

GuardianProblem(f, new) ==
    \/ f = "name" /\ nameError(new[f])
    \/ f = "birth" /\ birthDateProblem(new[f])
    \/ f = "number" /\ (new[f] = 0 \/ documentNumberFormatError(new.type, new[f]))
    \/ f = "issued" /\ (new[f] = 0 \/ validateDocumentIssuedAt(new[f], new.birth))
    \/ f = "email" /\ (new[f] = 0 \/ knownTaken(new[f]))
    \/ f = "password" /\ ~passwordMeetsRequirements(new[f])
    \/ f = "confirmation" /\ (new[f] = 0 \/ new[f] # new.password)
    \/ f = "kid" /\ nameError(new[f])

TeacherProblem(f, new) == f # "kid" /\ GuardianProblem(f, new)

Problem(f, new) == IF who = "guardian" THEN GuardianProblem(f, new) ELSE TeacherProblem(f, new)

\* Whose check depends on what is typed in f, besides f itself.
GuardianRechecksMutant(f) == CASE f = "birth" -> {"issued"} [] f = "type" -> {"number"} [] OTHER -> {}
GuardianRechecks(f) ==
    CASE f = "birth" -> {"issued"} [] f = "type" -> {"number"} [] f = "password" -> {"confirmation"}
      [] OTHER -> {}
TeacherRechecks(f) ==
    CASE f = "birth" -> {"issued"} [] f = "type" -> {"number"} [] f = "password" -> {"confirmation"}
      [] OTHER -> {}
Rechecks(f) == Field \cap (IF who = "guardian" THEN GuardianRechecks(f) ELSE TeacherRechecks(f))

\* The fields checked when they are left, and the ones of each step.
GuardianChecked == [step1 |-> {"name", "birth", "number", "issued", "email", "password", "confirmation"},
                    step2 |-> {"kid"}]
TeacherChecked  == [step1 |-> {"name", "birth", "number", "issued", "email", "password", "confirmation"},
                    step2 |-> {}]
Checked(step) == Field \cap (IF who = "guardian" THEN GuardianChecked[step] ELSE TeacherChecked[step])

Verdict(f, new) == IF Problem(f, new) THEN "invalid" ELSE "valid"

-----------------------------------------------------------------------------
(* Filling in a step.                                                      *)

\* On every key a field that was already checked is checked again, and so
\* are the touched ones that depend on it.
checkedFieldChange(f, v) ==
    LET new == [form EXCEPT ![f] = IF f = "number" THEN filterDocumentNumberInput(form.type, v) ELSE v] IN
    /\ form' = new
    /\ status' = [g \in Field |-> IF g \in {f} \cup Rechecks(f) /\ status[g] # "quiet"
                                  THEN Verdict(g, new) ELSE status[g]]
Type(f, v) ==
    /\ page \in {"step1", "step2"}
    /\ f \in Checked(page) \cup (IF page = "step1" THEN Field \cap {"type"} ELSE {})
    /\ checkedFieldChange(f, v)
    /\ UNCHANGED <<who, page, checking, answers, consent, pin, card, account, totp>>

\* A field that is left with something written is checked from then on.  A
\* good email is asked for right away, so that "Siguiente" needn't wait.
LeaveField(f) ==
    /\ page \in {"step1", "step2"} /\ f \in Checked(page)
    /\ form[f] # 0
    /\ status' = [status EXCEPT ![f] = Verdict(f, form)]
    /\ UNCHANGED <<who, page, form, checking, consent, pin, card, account, totp>>
    /\ \/ UNCHANGED answers
       \/ f = "email" /\ answers' = answers \cup {form.email}

\* checkField, from the top to the first field that has something to fix.
Order == SelectSeq(<<"name", "birth", "number", "issued", "email", "password", "confirmation", "kid">>,
                   LAMBDA f : f \in Field)
Upto(step) ==
    LET bad(f) == f \in Checked(step) /\ Problem(f, form)
        first == {i \in DOMAIN Order : bad(Order[i])}
    IN  {Order[i] : i \in {j \in DOMAIN Order : Order[j] \in Checked(step)
                                                /\ \A k \in first : j <= k}}
checkFields(step) == status' = [f \in Field |-> IF f \in Upto(step) THEN Verdict(f, form) ELSE status[f]]
AllRight(step) == \A f \in Checked(step) : ~Problem(f, form)

\* "Siguiente" of the first step, and the circles that submit it: the last
\* check asks the server for the email that was written by then.
GuardianSubmitStep1 ==
    /\ who = "guardian" /\ page = "step1" /\ checking = 0
    /\ checkFields("step1")
    /\ checking' = IF AllRight("step1") THEN form.email ELSE 0
    /\ UNCHANGED <<who, page, form, answers, consent, pin, card, account, totp>>
TeacherSubmitStep1 ==
    /\ who = "teacher" /\ page = "step1" /\ checking = 0
    /\ checkFields("step1")
    /\ checking' = IF AllRight("step1") THEN form.email ELSE 0
    /\ UNCHANGED <<who, page, form, answers, consent, pin, card, account, totp>>

\* The answer, or the five seconds without one, which count as not taken.
\* What was typed while it was on its way is not looked at again.
isTaken ==
    /\ checking # 0
    /\ checking' = 0
    /\ \/ /\ answers' = answers \cup {checking}
          /\ IF checking \in Registered
             THEN status' = [status EXCEPT !.email = "invalid"] /\ UNCHANGED page
             ELSE page' = "step2" /\ UNCHANGED status
       \/ /\ checking \notin answers
          /\ page' = "step2"
          /\ UNCHANGED <<answers, status>>
    /\ UNCHANGED <<who, form, consent, pin, card, account, totp>>

\* The second step: its box, and back to the first one.
GuardianStep2Form ==
    /\ who = "guardian" /\ page = "step2"
    /\ consent' \in BOOLEAN
    /\ UNCHANGED <<who, page, form, status, checking, answers, pin, card, account, totp>>
TeacherProfileForm ==
    /\ who = "teacher" /\ page = "step2"
    /\ consent' \in BOOLEAN
    /\ UNCHANGED <<who, page, form, status, checking, answers, pin, card, account, totp>>

\* The keypad confirms a whole PIN: the first one, the same again, or other
\* digits, which start over.  A confirmed one may be changed.
handleFirstPinEntry(p) == [step |-> "confirmar", pin |-> p]
handleSecondPinEntry(p) == IF p = pin.pin THEN [pin EXCEPT !.step = "listo"] ELSE InitPin
PinKeys(p) ==
    /\ who = "guardian" /\ page = "step2"
    /\ pin' = CASE pin.step = "ingresar"  -> handleFirstPinEntry(p)
                [] pin.step = "confirmar" -> handleSecondPinEntry(p)
                [] pin.step = "listo"     -> InitPin
    /\ UNCHANGED <<who, page, form, status, checking, answers, consent, card, account, totp>>

\* A card of the teacher's profile: added open, written, confirmed when
\* nothing is missing in it, opened again with the pencil, or taken out.
cardErrors(content) == content \notin Cards
CardOnly(new) ==
    /\ who = "teacher" /\ page = "step2"
    /\ card' = new
    /\ UNCHANGED <<who, page, form, status, checking, answers, consent, pin, account, totp>>
addStudy      == card.is = "none" /\ CardOnly([is |-> "open", content |-> 0])
StudyCard(c)  == card.is = "open" /\ CardOnly([card EXCEPT !.content = c])
confirmEntry  == card.is = "open" /\ ~cardErrors(card.content) /\ CardOnly([card EXCEPT !.is = "closed"])
editEntry     == card.is = "closed" /\ CardOnly([card EXCEPT !.is = "open"])
removeEntry   == card.is # "none" /\ CardOnly(InitCard)

stopIfCardOpen == card.is = "open"

GuardianBack ==
    /\ who = "guardian" /\ page = "step2"
    /\ page' = "step1"
    /\ UNCHANGED <<who, wizard, account, totp>>
TeacherBack ==
    /\ who = "teacher" /\ page = "step2" /\ ~stopIfCardOpen
    /\ page' = "step1"
    /\ UNCHANGED <<who, wizard, account, totp>>

GuardianSubmitStep2 ==
    /\ who = "guardian" /\ page = "step2"
    /\ checkFields("step2")
    /\ page' = IF AllRight("step2") /\ consent /\ pin.step = "listo" THEN "confirm1" ELSE page
    /\ UNCHANGED <<who, form, checking, answers, consent, pin, card, account, totp>>
TeacherSubmitProfile ==
    /\ who = "teacher" /\ page = "step2"
    /\ ~stopIfCardOpen /\ (card.is = "closed" => ~cardErrors(card.content))
    /\ consent
    /\ page' = "confirm2"
    /\ UNCHANGED <<who, wizard, account, totp>>

-----------------------------------------------------------------------------
(* The confirmations, and the account.                                     *)

\* The guardian confirms their own data first and the kid's next; each has
\* its "Corregir".
GuardianConfirmation1 ==
    /\ who = "guardian" /\ page = "confirm1"
    /\ page' \in {"step1", "confirm2"}
    /\ UNCHANGED <<who, wizard, account, totp>>
GuardianConfirmation2 ==
    /\ who = "guardian" /\ page = "confirm2"
    /\ page' = "step2"
    /\ UNCHANGED <<who, wizard, account, totp>>
TeacherConfirmation ==
    /\ who = "teacher" /\ page = "confirm2"
    /\ page' = "step1"
    /\ UNCHANGED <<who, wizard, account, totp>>

confirmAndCreateAccount ==
    /\ who = "guardian" /\ page = "confirm2"
    /\ page' = "cargando"
    /\ UNCHANGED <<who, wizard, account, totp>>
createAccount ==
    /\ who = "teacher" /\ page = "confirm2"
    /\ page' = "cargando"
    /\ UNCHANGED <<who, wizard, account, totp>>

\* The server creates the account unless its email already has one.  The
\* answer may be lost, and then the confirmation comes back with an error.
AccountAnswered ==
    /\ page = "cargando"
    /\ \/ /\ ~account /\ form.email \notin Registered
          /\ account' = TRUE
          /\ page' \in {"exito", "confirm2"}
       \/ page' = "confirm2" /\ UNCHANGED account
    /\ UNCHANGED <<who, wizard, totp>>

-----------------------------------------------------------------------------
(* The set up of the 2FA, one card per screen: an introduction, the cards  *)
(* of the walkthrough, the QR and the code.                                *)

QR_STEP_INDEX == 2
VERIFY_STEP_INDEX == QR_STEP_INDEX + 1

GuardianSuccess ==
    /\ who = "guardian" /\ page \in {"exito", "listo"}
    /\ IF page = "exito" THEN page' = "totp" /\ totp' = [totp EXCEPT !.setup = "pending"]
                         ELSE page' = "portal" /\ UNCHANGED totp
    /\ UNCHANGED <<who, wizard, account>>
TeacherSuccess ==
    /\ who = "teacher" /\ page \in {"exito", "listo"}
    /\ IF page = "exito" THEN page' = "totp" /\ totp' = [totp EXCEPT !.setup = "pending"]
                         ELSE page' = "portal" /\ UNCHANGED totp
    /\ UNCHANGED <<who, wizard, account>>

SetupAnswered ==
    /\ page = "totp" /\ totp.setup = "pending"
    /\ totp' \in {[totp EXCEPT !.setup = s] : s \in {"success", "error"}}
    /\ UNCHANGED <<who, page, wizard, account>>

canGoNext == totp.step < VERIFY_STEP_INDEX /\ (totp.step = QR_STEP_INDEX => totp.setup = "success")
TotpCards ==
    /\ page = "totp" /\ totp.setup # "pending"
    /\ \/ canGoNext /\ totp' = [totp EXCEPT !.step = @ + 1]
       \/ totp.step > 0 /\ totp' = [totp EXCEPT !.step = @ - 1]
       \/ /\ totp.step = QR_STEP_INDEX /\ totp.setup = "error"
          /\ totp' = [totp EXCEPT !.setup = "pending"]
    /\ UNCHANGED <<who, page, wizard, account>>
submitCode ==
    /\ page = "totp" /\ totp.step = VERIFY_STEP_INDEX /\ ~totp.verifying
    /\ totp' = [totp EXCEPT !.verifying = TRUE]
    /\ UNCHANGED <<who, page, wizard, account>>
CodeAnswered ==
    /\ page = "totp" /\ totp.verifying
    /\ totp' = [totp EXCEPT !.verifying = FALSE]
    /\ page' \in {"totp", "listo"}
    /\ UNCHANGED <<who, wizard, account>>

-----------------------------------------------------------------------------
Next ==
    \/ \E f \in Field : \E v \in Typed[f] : Type(f, v)
    \/ \E f \in Field : LeaveField(f)
    \/ GuardianSubmitStep1 \/ TeacherSubmitStep1 \/ isTaken
    \/ GuardianStep2Form \/ TeacherProfileForm
    \/ \E p \in Pin : PinKeys(p)
    \/ addStudy \/ confirmEntry \/ editEntry \/ removeEntry
    \/ \E c \in Cards \cup {0} : StudyCard(c)
    \/ GuardianBack \/ TeacherBack \/ GuardianSubmitStep2 \/ TeacherSubmitProfile
    \/ GuardianConfirmation1 \/ GuardianConfirmation2 \/ TeacherConfirmation
    \/ confirmAndCreateAccount \/ createAccount \/ AccountAnswered
    \/ GuardianSuccess \/ TeacherSuccess
    \/ SetupAnswered \/ TotpCards \/ submitCode \/ CodeAnswered

Spec == Init /\ [][Next]_vars
-----------------------------------------------------------------------------

(***************************************************************************)
(* The check or the cross at the end of a field says what the rules say of *)
(* what is written now, also when it depends on a field typed later.  An   *)
(* email is taken or not once the server answered.                         *)
(***************************************************************************)
CrossesTellTruth == \A f \in Field \ {"email"} :
    status[f] # "quiet" => status[f] = Verdict(f, form)

(***************************************************************************)
(* GuardianRegistrationWizard.tsx:436: both forms are already complete and *)
(* validated when they are confirmed.  The code does not hold it: what is  *)
(* typed in the first step while the server is asked for the email is not  *)
(* looked at again.                                                        *)
(***************************************************************************)
CheckedWhenConfirmed == page \in {"confirm1", "confirm2", "cargando"} => AllRight("step1")
=============================================================================
