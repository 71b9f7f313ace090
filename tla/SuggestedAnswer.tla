--------------------------- MODULE SuggestedAnswer ---------------------------
(***************************************************************************)
(* Review and e-mail delivery of the suggested answers of one ticket:      *)
(* SuggestedAnswerService and SuggestedAnswerDeliveryService over the      *)
(* ticket_suggested_answers table, with concurrent API requests.           *)
(*                                                                         *)
(* A request opens a draft with SELECT ... FOR UPDATE and keeps the row    *)
(* lock until it commits or rolls back, so opening and committing are two  *)
(* steps; a request that waits for the lock has not taken its step yet.    *)
(* A commit is applied, refused, or applied with the reply lost.           *)
(***************************************************************************)
EXTENDS Naturals, FiniteSets

CONSTANTS
  Draft,      \* drafts generated for the ticket
  Request,    \* API requests, each served once
  StaffText,  \* what staff may write
  Address,    \* e-mail addresses the customer may have
  AiText,     \* what the model wrote
  Nothing     \* SQL null

ASSUME TextAssumption == AiText \notin StaffText /\ Nothing \notin StaffText \cup {AiText}

ASSUME AddressAssumption == Nothing \notin Address

VARIABLES
  ticket,   \* the ticket row exists
  address,  \* the customer's e-mail address, Nothing without a user
  status,   \* status[d]: the draft's row, "none" before it is generated
  staff,    \* staff[d]: its staff_content
  recipient,\* recipient[d]: its recipient_email
  lock,     \* lock[d]: the requests holding the row lock
  pc,       \* pc[r]: the next thing request r does
  draft,    \* draft[r]: the draft it works on
  op,       \* op[r]: what it was asked to do
  mail,     \* mail[r]: recipient and body its send took from the draft
  inbox     \* inbox[d]: how often the SMTP server took each mail of d

row == <<status, staff, recipient>>
request == <<pc, draft, op, mail>>
vars == <<ticket, address, row, lock, request, inbox>>

Status == {"draft", "approved", "rejected", "pending_send", "sent", "send_failed"}
Body == StaffText \cup {AiText}
Mail == [to : Address, body : Body]

NoMail == [to |-> Nothing, body |-> Nothing]

Operation == {"edit", "approve", "reject", "send"}
Control == {"new", "commit", "deliver", "record sent", "record failed", "done"}

TypeOK ==
  /\ ticket \in BOOLEAN
  /\ address \in Address \cup {Nothing}
  /\ status \in [Draft -> Status \cup {"none", "deleted"}]
  /\ staff \in [Draft -> StaffText \cup {Nothing}]
  /\ recipient \in [Draft -> Address \cup {Nothing}]
  /\ lock \in [Draft -> SUBSET Request]
  /\ pc \in [Request -> Control]
  /\ draft \in [Request -> Draft \cup {Nothing}]
  /\ op \in [Request -> Operation \cup {"none"}]
  /\ mail \in [Request -> Mail \cup {NoMail}]
  /\ inbox \in [Draft -> [Mail -> Nat]]

Init ==
  /\ ticket = TRUE
  /\ address \in Address
  /\ status = [d \in Draft |-> "none"]
  /\ staff = [d \in Draft |-> Nothing]
  /\ recipient = [d \in Draft |-> Nothing]
  /\ lock = [d \in Draft |-> {}]
  /\ pc = [r \in Request |-> "new"]
  /\ draft = [r \in Request |-> Nothing]
  /\ op = [r \in Request |-> "none"]
  /\ mail = [r \in Request |-> NoMail]
  /\ inbox = [d \in Draft |-> [m \in Mail |-> 0]]
-----------------------------------------------------------------------------
Goto(r, label) == pc' = [pc EXCEPT ![r] = label]

SetStatus(d, value) == status' = [status EXCEPT ![d] = value]

(* generate: whatever RAG answers is saved as a draft of an existing ticket. *)
Generate(d) ==
  /\ ticket
  /\ status[d] = "none"
  /\ SetStatus(d, "draft")
  /\ UNCHANGED <<staff, recipient, ticket, address, lock, request, inbox>>

(* Mutant: the row is read without FOR UPDATE.                              *)
ReadUnlocked(d) == d \in Draft

Unlocked(d) == lock[d] = {}

Unlock(r) == lock' = [lock EXCEPT ![draft[r]] = @ \ {r}]

(* Mutant: an edit does not look at the status.                             *)
OpenableForEdit(o, d) ==
  IF o = "send" THEN status[d] = "approved" ELSE o = "edit" \/ status[d] = "draft"

(* _open_draft_for_update, and the same test of send for approved drafts.   *)
Openable(o, d) == status[d] = IF o = "send" THEN "approved" ELSE "draft"

(* draft.staff_content or draft.ai_content                                  *)
Content(d) == IF staff[d] = Nothing THEN AiText ELSE staff[d]

Taken(o, d) ==
  IF o = "send" THEN [to |-> address, body |-> Content(d)] ELSE NoMail

HasRecipient(o) == o = "send" => address # Nothing

(* Take the row lock and read the draft; a send also reads the customer.    *)
(* A request that finds nothing to do answers 404, 409 or 422 and releases  *)
(* the lock at once.                                                        *)
Open(r, o, d) ==
  /\ pc[r] = "new"
  /\ Unlocked(d)
  /\ status[d] \in Status
  /\ Openable(o, d)
  /\ HasRecipient(o)
  /\ Goto(r, "commit")
  /\ draft' = [draft EXCEPT ![r] = d]
  /\ op' = [op EXCEPT ![r] = o]
  /\ mail' = [mail EXCEPT ![r] = Taken(o, d)]
  /\ lock' = [lock EXCEPT ![d] = @ \cup {r}]
  /\ UNCHANGED <<ticket, address, row, inbox>>

Refuse(r, o, d) ==
  /\ pc[r] = "new"
  /\ Unlocked(d)
  /\ \/ status[d] \notin Status
     \/ ~ Openable(o, d)
     \/ ~ HasRecipient(o)
  /\ Goto(r, "done")
  /\ UNCHANGED <<ticket, address, row, lock, draft, op, mail, inbox>>

(* The columns each operation writes before its commit.                     *)
Apply(r) ==
  LET d == draft[r] IN
  \/ /\ op[r] = "edit"
     /\ \E x \in StaffText : staff' = [staff EXCEPT ![d] = x]
     /\ UNCHANGED <<status, recipient>>
  \/ op[r] = "approve" /\ SetStatus(d, "approved") /\ UNCHANGED <<staff, recipient>>
  \/ op[r] = "reject" /\ SetStatus(d, "rejected") /\ UNCHANGED <<staff, recipient>>
  \/ /\ op[r] = "send"
     /\ SetStatus(d, "pending_send")
     /\ recipient' = [recipient EXCEPT ![d] = mail[r].to]
     /\ UNCHANGED staff

(* Mutant: SMTP is contacted although the claim was not committed.          *)
DeliverRegardless(r) == IF op[r] = "send" THEN "deliver" ELSE "done"

AfterFailedCommit(r) == "done"

Commit(r) ==
  /\ pc[r] = "commit"
  /\ \/ Apply(r) /\ Goto(r, IF op[r] = "send" THEN "deliver" ELSE "done")
     \/ Apply(r) /\ Goto(r, AfterFailedCommit(r))
     \/ UNCHANGED row /\ Goto(r, AfterFailedCommit(r))
  /\ Unlock(r)
  /\ UNCHANGED <<ticket, address, draft, op, mail, inbox>>

(* Mutant: a reported failure is recorded like a success.                   *)
OutcomeIgnored(accepted) == "record sent"

Outcome(accepted) == IF accepted THEN "record sent" ELSE "record failed"

(* SMTPEmailSender.send.  The server may have taken a mail whose exchange   *)
(* ended in an error, such as a timeout after DATA.                         *)
Deliver(r) ==
  LET d == draft[r]
      taken == [inbox EXCEPT ![d][mail[r]] = @ + 1]
  IN
  /\ pc[r] = "deliver"
  /\ \/ inbox' = taken /\ Goto(r, Outcome(TRUE))
     \/ inbox' = taken /\ Goto(r, Outcome(FALSE))
     \/ UNCHANGED inbox /\ Goto(r, Outcome(FALSE))
  /\ UNCHANGED <<ticket, address, row, lock, draft, op, mail>>

(* _record_outcome.  The session still holds the draft as its own commit    *)
(* left it, so the status it compares is pending_send; only a row that is   *)
(* gone makes the query return nothing.                                     *)
Record(r) ==
  LET d == draft[r] IN
  /\ pc[r] \in {"record sent", "record failed"}
  /\ Unlocked(d)
  /\ \/ /\ status[d] \in Status
        /\ SetStatus(d, IF pc[r] = "record sent" THEN "sent" ELSE "send_failed")
     \/ UNCHANGED status
  /\ Goto(r, "done")
  /\ UNCHANGED <<ticket, address, staff, recipient, lock, draft, op, mail, inbox>>
-----------------------------------------------------------------------------
(* The request's process dies: its transaction is rolled back.              *)
Crash(r) ==
  /\ pc[r] \notin {"new", "done"}
  /\ Goto(r, "done")
  /\ Unlock(r)
  /\ UNCHANGED <<ticket, address, row, draft, op, mail, inbox>>

(* TicketService.delete: the drafts are deleted with the ticket, which      *)
(* waits for their row locks.                                               *)
DeleteTicket ==
  /\ ticket
  /\ \A d \in Draft : Unlocked(d)
  /\ ticket' = FALSE
  /\ status' = [d \in Draft |-> "deleted"]
  /\ UNCHANGED <<address, staff, recipient, lock, request, inbox>>

(* UserService.update of the e-mail, or delete, which leaves the ticket.    *)
ChangeCustomer ==
  /\ address # Nothing
  /\ address' \in (Address \cup {Nothing}) \ {address}
  /\ UNCHANGED <<ticket, row, lock, request, inbox>>

Serve(r) == Commit(r) \/ Deliver(r) \/ Record(r)

Next ==
  \/ \E d \in Draft : Generate(d)
  \/ \E r \in Request, o \in Operation, d \in Draft : Open(r, o, d) \/ Refuse(r, o, d)
  \/ \E r \in Request : Serve(r) \/ Crash(r)
  \/ DeleteTicket
  \/ ChangeCustomer

Spec == Init /\ [][Next]_vars

(* A request that was started is served to its end unless its process dies. *)
FairSpec == Spec /\ \A r \in Request : WF_vars(Serve(r))
-----------------------------------------------------------------------------
Mails(d) == {m \in Mail : inbox[d][m] > 0}

(* The customer gets one mail per draft at most, however many sends race,   *)
(* crash or fail (send claims the draft with pending_send before SMTP).     *)
MailedAtMostOnce ==
  \A d \in Draft :
    \A m, n \in Mails(d) : m = n /\ inbox[d][m] = 1

(* What was mailed is what the draft says, to the address the draft         *)
(* records, and the draft was approved: no edit or decision slips in        *)
(* between reading the draft and mailing it.                                *)
MailedAsApproved ==
  \A d \in Draft :
    \A m \in Mails(d) :
      status[d] \in Status =>
        /\ status[d] \in {"pending_send", "sent", "send_failed"}
        /\ m = [to |-> recipient[d], body |-> Content(d)]

(* A draft recorded as sent was taken by the SMTP server.                   *)
SentIsMailed == \A d \in Draft : status[d] = "sent" => Mails(d) # {}

(* What reaches the customer is right: one mail at most for a draft, one at *)
(* least when it is recorded as sent, and the one that was approved.        *)
MailsAreRight == MailedAtMostOnce /\ SentIsMailed /\ MailedAsApproved

(* Requests, row locks and mail transport together keep to the lifecycle    *)
(* of a suggested answer.                                                   *)
Stage(s) ==
  CASE s = "pending_send" -> "claimed"
    [] s = "send_failed" -> "failed"
    [] OTHER -> s

Sending(d) == {r \in Request : pc[r] = "deliver" /\ draft[r] = d}

Lifecycle ==
  INSTANCE AnswerLifecycle
    WITH Text <- Body,
         stage <- [d \in Draft |-> Stage(status[d])],
         wording <- [d \in Draft |->
                       IF status[d] \in Status THEN Content(d) ELSE Nothing],
         outgoing <- [d \in Draft |->
                        IF Sending(d) = {} THEN Nothing
                        ELSE mail[CHOOSE r \in Sending(d) : TRUE].body],
         mailed <- [d \in Draft |-> {m.body : m \in Mails(d)}]

ImplementsLifecycle == Lifecycle!Spec
=============================================================================
