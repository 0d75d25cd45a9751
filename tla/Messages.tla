------------------------------ MODULE Messages ------------------------------
(***************************************************************************)
(* What is read and answered in the teacher's inbox: a message as the      *)
(* conversation it belongs to, with the box of the answer under it; the    *)
(* request of a family to enter a class, with its two buttons; and a new   *)
(* message to a family or a kid of the class.                              *)
(*                                                                         *)
(* A text is its number: texts written apart are different ones.           *)
(***************************************************************************)
EXTENDS Naturals

CONSTANTS
    kindOf,     \* [letter of the inbox -> "message", "request" or "notice"]
    Member,     \* the kids of the class
    MaxTexts,   \* the bound on the texts written
    MaxLosses   \* the bound on the answers that do not come back

Letter == DOMAIN kindOf

MessagesAssumption ==
    /\ \A l \in Letter : kindOf[l] \in {"message", "request", "notice"}
    /\ MaxTexts \in Nat /\ MaxLosses \in Nat
    /\ Letter \cup Member \subseteq Nat \ {0} /\ Letter \cap Member = {}

VARIABLES
    opened,    \* the letter opened, or 0
    reply,     \* the box of the answer: it is there with a message opened
    compose,   \* the new message
    members,   \* the kids the class has now
    requests,  \* the letters whose request waits, in classroom-service
    known,     \* and the ones read from it
    asking,    \* whether the question about rejecting one is there
    resolving, \* the answers to requests that are on their way
    wire,      \* the texts on their way: from where, to whom
    texts,     \* how many were written
    writtenAt, \* with which letter opened, or to whom, each one was begun
    delivered, \* how many times each one arrived, and where
    lost       \* how many answers did not come back

vars == <<opened, reply, compose, members, requests, known, asking, resolving, wire, texts, writtenAt, delivered, lost>>

Text == 1..MaxTexts
NoReply == [composing |-> FALSE, body |-> 0, sent |-> FALSE]
NoCompose == [on |-> FALSE, to |-> 0, body |-> 0, asking |-> FALSE]

Init ==
    /\ opened = 0 /\ reply = NoReply /\ compose = NoCompose
    /\ members = Member
    /\ requests = {l \in Letter : kindOf[l] = "request"} /\ known = requests
    /\ asking = FALSE /\ resolving = {}
    /\ wire = {} /\ texts = 0
    /\ writtenAt = [t \in Text |-> 0]
    /\ delivered = [t \in Text |-> [to |-> 0, times |-> 0]]
    /\ lost = 0

inbox == <<requests, known, asking, resolving>>
post == <<wire, delivered, lost>>
isMessage(l) == l # 0 /\ kindOf[l] = "message"

-----------------------------------------------------------------------------
(* The letter opened. The parts of a letter stay in place from one letter  *)
(* to the next: the box of the answer goes away only when the next one is  *)
(* not a message.                                                          *)

\* A question covers everything but its two buttons.
Covered == asking \/ compose.asking
isRequest(l) == l # 0 /\ kindOf[l] = "request"
\* Of what is on its way, what still has its box or its buttons on screen.
StillHere(ws, stays) == {[w EXCEPT !.live = @ /\ stays] : w \in ws}
NotificationDetail(l) ==
    LET sameBox == isMessage(opened) /\ isMessage(l)
    IN  /\ reply' = IF sameBox THEN reply ELSE NoReply
        /\ wire' = StillHere(wire, sameBox)
        /\ resolving' = StillHere(resolving, isRequest(opened) /\ isRequest(l))
setOpened(l) ==
    /\ ~compose.on /\ ~Covered /\ l # opened
    /\ opened' = l
    /\ NotificationDetail(l)
    /\ UNCHANGED <<compose, members, requests, known, asking, texts, writtenAt, delivered, lost>>

startReply ==
    /\ isMessage(opened) /\ ~reply.composing
    /\ reply' = [reply EXCEPT !.composing = TRUE, !.sent = FALSE]
    /\ UNCHANGED <<opened, compose, members, inbox, post, texts, writtenAt>>

\* A text is begun; more of it, or less, is the same text.
Begin(for) ==
    /\ texts < MaxTexts
    /\ texts' = texts + 1
    /\ writtenAt' = [writtenAt EXCEPT ![texts + 1] = for]
setBody ==
    /\ isMessage(opened) /\ reply.composing /\ reply.body = 0
    /\ Begin(opened)
    /\ reply' = [reply EXCEPT !.body = texts + 1]
    /\ UNCHANGED <<opened, compose, members, inbox, post>>

Sending(from) == \E w \in wire : w.from = from /\ w.live
discard(r) == [r EXCEPT !.composing = FALSE, !.body = 0]
discardReply ==
    /\ isMessage(opened) /\ reply.composing /\ ~Sending("reply")
    /\ reply' = discard(reply)
    /\ UNCHANGED <<opened, compose, members, inbox, post, texts, writtenAt>>
submitReply ==
    /\ isMessage(opened) /\ reply.composing /\ reply.body # 0 /\ ~Sending("reply")
    /\ wire' = wire \cup {[from |-> "reply", text |-> reply.body, to |-> opened, live |-> TRUE, at |-> "asked"]}
    /\ UNCHANGED <<opened, reply, compose, members, inbox, texts, writtenAt, delivered, lost>>

-----------------------------------------------------------------------------
(* A new message.                                                          *)

openCompose(m) ==
    /\ opened = 0 /\ ~compose.on /\ m \in members \cup {0}
    /\ compose' = [NoCompose EXCEPT !.on = TRUE, !.to = m]
    /\ UNCHANGED <<opened, reply, members, inbox, post, texts, writtenAt>>
AtCompose == compose.on /\ ~compose.asking
Writing == AtCompose /\ ~Sending("compose")
setTo(m) ==
    /\ Writing /\ m \in members /\ m # compose.to
    /\ compose' = [compose EXCEPT !.to = m]
    /\ UNCHANGED <<opened, reply, members, inbox, post, texts, writtenAt>>
setComposeBody ==
    /\ Writing /\ compose.body = 0
    /\ Begin(0)
    /\ compose' = [compose EXCEPT !.body = texts + 1]
    /\ UNCHANGED <<opened, reply, members, inbox, post>>
onClose ==
    /\ compose' = NoCompose
    /\ wire' = {[w EXCEPT !.live = @ /\ w.from # "compose"] : w \in wire}
\* Leaving asks first when there is something written, also while it is sent.
leave ==
    /\ AtCompose
    /\ IF compose.body # 0 THEN compose' = [compose EXCEPT !.asking = TRUE] /\ UNCHANGED wire ELSE onClose
    /\ UNCHANGED <<opened, reply, members, inbox, delivered, lost, texts, writtenAt>>
confirmDiscard(yes) ==
    /\ compose.asking
    /\ IF yes THEN onClose ELSE compose' = [compose EXCEPT !.asking = FALSE] /\ UNCHANGED wire
    /\ UNCHANGED <<opened, reply, members, inbox, delivered, lost, texts, writtenAt>>
\* To someone who is not in the class any more, nothing is sent and nothing said.
submitCompose ==
    /\ Writing /\ compose.to \in members /\ compose.body # 0
    /\ wire' = wire \cup {[from |-> "compose", text |-> compose.body, to |-> compose.to, live |-> TRUE, at |-> "asked"]}
    /\ UNCHANGED <<opened, reply, compose, members, inbox, texts, writtenAt, delivered, lost>>

-----------------------------------------------------------------------------
(* The answers.                                                            *)

ServerDelivers(w) ==
    /\ w.at = "asked"
    /\ delivered' = [delivered EXCEPT ![w.text] = [to |-> w.to, times |-> @.times + 1]]
    /\ wire' = (wire \ {w}) \cup {[w EXCEPT !.at = "done"]}
    /\ UNCHANGED <<opened, reply, compose, members, inbox, texts, writtenAt, lost>>
\* The box that sent it is emptied, also if another message is over it by now;
\* the new message that is there is closed, also if another one sent it.
replySentMutant(w) == reply' = IF w.live THEN [reply EXCEPT !.composing = FALSE, !.sent = TRUE] ELSE reply
replySent(w) == reply' = IF w.live THEN [discard(reply) EXCEPT !.sent = TRUE] ELSE reply
onSent(w) ==
    /\ w.at = "done"
    /\ wire' = wire \ {w}
    /\ IF w.from = "reply"
       THEN replySent(w) /\ UNCHANGED compose
       ELSE compose' = NoCompose /\ UNCHANGED reply
    /\ UNCHANGED <<opened, members, inbox, texts, writtenAt, delivered, lost>>
\* Refused, or its answer lost: what is written stays, with the error.
setError(w) ==
    /\ w.at = "done" => lost < MaxLosses
    /\ lost' = IF w.at = "done" THEN lost + 1 ELSE lost
    /\ wire' = wire \ {w}
    /\ UNCHANGED <<opened, reply, compose, members, inbox, texts, writtenAt, delivered>>

MemberLeaves(m) ==
    /\ members' = members \ {m} /\ m \in members
    /\ UNCHANGED <<opened, reply, compose, inbox, post, texts, writtenAt>>

-----------------------------------------------------------------------------
(* The request of a family. It is looked up live.                          *)

Offered == isRequest(opened) /\ opened \in known
isPending == \E r \in resolving : r.live
useClassroomRequests ==
    /\ known' = requests
    /\ asking' = (asking /\ opened \in requests)
    /\ UNCHANGED <<opened, reply, compose, members, requests, resolving, post, texts, writtenAt>>
confirmingReject(on) ==
    /\ IF on THEN Offered /\ ~isPending /\ ~asking ELSE asking
    /\ asking' = on
    /\ UNCHANGED <<opened, reply, compose, members, requests, known, resolving, post, texts, writtenAt>>
answer(say) ==
    /\ Offered /\ ~isPending
    /\ IF say = "aceptar" THEN ~asking ELSE asking
    /\ asking' = FALSE
    /\ resolving' = resolving \cup {[letter |-> opened, say |-> say, live |-> TRUE, at |-> "asked"]}
    /\ UNCHANGED <<opened, reply, compose, members, requests, known, post, texts, writtenAt>>
ServerResolves(r) ==
    /\ r.at = "asked"
    /\ requests' = requests \ {r.letter}
    /\ resolving' = (resolving \ {r}) \cup {[r EXCEPT !.at = IF r.letter \in requests THEN "done" ELSE "refused"]}
    /\ UNCHANGED <<opened, reply, compose, members, known, asking, post, texts, writtenAt>>
useResolveRequest(r) ==
    /\ r.at # "asked"
    /\ resolving' = resolving \ {r}
    /\ UNCHANGED <<opened, reply, compose, members, requests, known, asking, post, texts, writtenAt>>
\* From another tab, or the family took it back.
ResolvedElsewhere(l) ==
    /\ l \in requests
    /\ requests' = requests \ {l}
    /\ UNCHANGED <<opened, reply, compose, members, known, asking, resolving, post, texts, writtenAt>>

Next ==
    \/ \E l \in Letter \cup {0} : setOpened(l)
    \/ startReply \/ setBody \/ discardReply \/ submitReply
    \/ \E m \in Member \cup {0} : openCompose(m)
    \/ \E m \in Member : setTo(m)
    \/ setComposeBody \/ leave \/ submitCompose
    \/ \E yes \in BOOLEAN : confirmDiscard(yes)
    \/ \E w \in wire : ServerDelivers(w)
    \/ \E w \in wire : onSent(w)
    \/ \E w \in wire : setError(w)
    \/ \E m \in Member : MemberLeaves(m)
    \/ useClassroomRequests
    \/ \E on \in BOOLEAN : confirmingReject(on)
    \/ \E r \in resolving : ServerResolves(r)
    \/ \E r \in resolving : useResolveRequest(r)
    \/ \E say \in {"aceptar", "rechazar"} : answer(say)
    \/ \E l \in Letter : ResolvedElsewhere(l)

Spec == Init /\ [][Next]_vars

-----------------------------------------------------------------------------
(* Properties.                                                             *)

\* A text arrives once, and once more only for each answer that was lost and
\* the person sent it again: not with two clicks, and not by finding it
\* written again in the box (MessageThread's submit and discard).
ArrivesOnce == \A t \in Text : delivered[t].times <= 1 + lost

\* "A family's answer goes to that family": what was begun under a letter
\* arrives in the conversation of that letter (TeacherInbox.tsx:393). The code
\* does not hold it: the box is one, whatever letter is opened.
AnswerGoesWhereWritten ==
    \A t \in Text : (delivered[t].times > 0 /\ writtenAt[t] # 0) => delivered[t].to = writtenAt[t]
=============================================================================
