------------------------ MODULE SuggestedAnswerProofs ------------------------
(***************************************************************************)
(* Theorems about SuggestedAnswer, for any number of drafts and concurrent *)
(* requests, any texts and any addresses.                                  *)
(***************************************************************************)
EXTENDS SuggestedAnswer, TLAPS

(* A request that has opened a draft knows it, and a send past its commit   *)
(* carries a complete mail.                                                 *)
RequestOK ==
  \A r \in Request :
    /\ pc[r] \notin {"new", "done"} => draft[r] \in Draft /\ op[r] \in Operation
    /\ pc[r] \in {"deliver", "record sent", "record failed"} => mail[r] \in Mail
    /\ pc[r] = "commit" /\ op[r] = "send" => mail[r] \in Mail

TypeInv == TypeOK /\ RequestOK

LEMMA ContentType ==
  ASSUME TypeInv, NEW d \in Draft
  PROVE  Content(d) \in Body
  BY TextAssumption DEF TypeInv, TypeOK, Content, Body

LEMMA InitTypeInv == Init => TypeInv
  <1> SUFFICES ASSUME Init PROVE TypeInv
    OBVIOUS
  <1>2. inbox \in [Draft -> [Mail -> Nat]]
    BY DEF Init
  <1>3. TypeOK
    BY <1>2 DEF Init, TypeOK, Control
  <1>4. RequestOK
    BY DEF Init, RequestOK
  <1> QED
    BY <1>3, <1>4 DEF TypeInv

LEMMA OpenType ==
  ASSUME TypeInv, NEW r \in Request, NEW o \in Operation, NEW d \in Draft, Open(r, o, d)
  PROVE  TypeInv'
  <1> USE DEF TypeInv, TypeOK
  <1>1. Taken(o, d) \in Mail \cup {NoMail} /\ (o = "send" => Taken(o, d) \in Mail)
    BY ContentType DEF Open, HasRecipient, Taken, Mail
  <1>2. TypeOK'
    BY <1>1 DEF Open, Goto, Control, row
  <1>3. RequestOK'
    BY <1>1 DEF RequestOK, Open, Goto
  <1> QED
    BY <1>2, <1>3

LEMMA ApplyType ==
  ASSUME TypeInv, NEW r \in Request, pc[r] = "commit", Apply(r)
  PROVE  /\ status' \in [Draft -> Status \cup {"none", "deleted"}]
         /\ staff' \in [Draft -> StaffText \cup {Nothing}]
         /\ recipient' \in [Draft -> Address \cup {Nothing}]
  <1> USE DEF TypeInv, TypeOK
  <1>1. draft[r] \in Draft /\ (op[r] = "send" => mail[r].to \in Address)
    BY DEF RequestOK, Mail
  <1> QED
    BY <1>1 DEF Apply, SetStatus, Status

LEMMA ServeType ==
  ASSUME TypeInv, NEW r \in Request, Serve(r) \/ Crash(r)
  PROVE  TypeInv'
  <1>1. CASE Commit(r)
    <2>1. /\ status' \in [Draft -> Status \cup {"none", "deleted"}]
          /\ staff' \in [Draft -> StaffText \cup {Nothing}]
          /\ recipient' \in [Draft -> Address \cup {Nothing}]
      BY <1>1, ApplyType DEF Commit, row, TypeInv, TypeOK
    <2>2. /\ pc[r] = "commit"
          /\ UNCHANGED <<ticket, address, draft, op, mail, inbox>>
          /\ Unlock(r)
      BY <1>1 DEF Commit
    <2>3. \/ pc' = [pc EXCEPT ![r] = "done"]
          \/ op[r] = "send" /\ pc' = [pc EXCEPT ![r] = "deliver"]
      <3>1. CASE op[r] = "send"
        BY <1>1, <3>1 DEF Commit, Goto, AfterFailedCommit
      <3>2. CASE op[r] # "send"
        BY <1>1, <3>2 DEF Commit, Goto, AfterFailedCommit
      <3> QED
        BY <3>1, <3>2
    <2>4. TypeOK'
      BY <2>1, <2>2, <2>3 DEF TypeInv, TypeOK, Unlock, Control
    <2>5. RequestOK'
      BY <2>2, <2>3 DEF TypeInv, TypeOK, RequestOK
    <2> QED
      BY <2>4, <2>5 DEF TypeInv
  <1>2. CASE Deliver(r)
    <2>1. draft[r] \in Draft /\ mail[r] \in Mail
      BY <1>2 DEF Deliver, TypeInv, RequestOK
    <2>2. inbox' \in [Draft -> [Mail -> Nat]]
      <3>1. inbox[draft[r]][mail[r]] + 1 \in Nat
        BY <2>1 DEF TypeInv, TypeOK
      <3>2. [inbox[draft[r]] EXCEPT ![mail[r]] = @ + 1] \in [Mail -> Nat]
        BY <2>1, <3>1 DEF TypeInv, TypeOK
      <3> QED
        BY <1>2, <2>1, <3>2 DEF Deliver, TypeInv, TypeOK
    <2>3. pc' \in {[pc EXCEPT ![r] = "record sent"], [pc EXCEPT ![r] = "record failed"]}
          /\ UNCHANGED <<ticket, address, row, lock, draft, op, mail>>
      BY <1>2 DEF Deliver, Goto, Outcome
    <2>4. TypeOK'
      BY <2>2, <2>3 DEF TypeInv, TypeOK, row, Control
    <2>5. RequestOK'
      BY <1>2, <2>1, <2>3 DEF Deliver, TypeInv, TypeOK, RequestOK
    <2> QED
      BY <2>4, <2>5 DEF TypeInv
  <1> USE DEF TypeInv, TypeOK, RequestOK
  <1>3. CASE Record(r)
    BY <1>3 DEF Record, SetStatus, Goto, Control, Status
  <1>4. CASE Crash(r)
    BY <1>4 DEF Crash, Goto, Unlock, Control, row
  <1> QED
    BY <1>1, <1>2, <1>3, <1>4 DEF Serve

LEMMA TypeInvariant == Spec => []TypeInv
  <1>1. ASSUME TypeInv, [Next]_vars PROVE TypeInv'
    <2> USE <1>1 DEF TypeInv
    <2>1. CASE UNCHANGED vars
      BY <2>1 DEF TypeOK, RequestOK, vars, request, row
    <2>2. ASSUME NEW d \in Draft, Generate(d) PROVE TypeInv'
      BY <2>2 DEF TypeOK, RequestOK, Generate, SetStatus, Status, request
    <2>3. ASSUME NEW r \in Request, NEW o \in Operation, NEW d \in Draft, Refuse(r, o, d)
          PROVE  TypeInv'
      BY <2>3 DEF TypeOK, RequestOK, Refuse, Goto, Control, row
    <2>4. CASE DeleteTicket
      BY <2>4 DEF TypeOK, RequestOK, DeleteTicket, request
    <2>5. CASE ChangeCustomer
      BY <2>5 DEF TypeOK, RequestOK, ChangeCustomer, request, row
    <2>6. CASE Next
      BY <2>2, <2>3, <2>4, <2>5, <2>6, OpenType, ServeType DEF Next
    <2> QED
      BY <2>1, <2>6
  <1> QED
    BY InitTypeInv, <1>1, PTL DEF Spec

(* Every reachable state of review and delivery is well typed.              *)
THEOREM TypeCorrect == Spec => []TypeOK
  <1>1. TypeInv => TypeOK
    BY DEF TypeInv
  <1> QED
    BY TypeInvariant, <1>1, PTL
-----------------------------------------------------------------------------
(* The inductive invariant behind the delivery properties.                 *)

Claimed == {"pending_send", "sent", "send_failed", "deleted"}

Busy(r) == pc[r] \in {"deliver", "record sent", "record failed"}

(* The row lock belongs to the one request about to commit on the draft.    *)
LockOK ==
  /\ \A d \in Draft : \A r \in lock[d] : pc[r] = "commit" /\ draft[r] = d
  /\ \A d \in Draft : \A r, s \in lock[d] : r = s
  /\ \A r \in Request : pc[r] = "commit" => r \in lock[draft[r]]

(* Under the lock the draft stays as the request has read it.               *)
OpenOK ==
  \A r \in Request, d \in Draft :
    pc[r] = "commit" /\ draft[r] = d =>
      /\ status[d] = IF op[r] = "send" THEN "approved" ELSE "draft"
      /\ op[r] = "send" => mail[r].body = Content(d)

(* A send past its commit is the only one of its draft, and carries what    *)
(* the draft says.                                                          *)
Carries(r, d) ==
  /\ status[d] \in {"pending_send", "deleted"}
  /\ status[d] # "deleted" => mail[r] = [to |-> recipient[d], body |-> Content(d)]
  /\ pc[r] = "deliver" => Mails(d) = {}
  /\ pc[r] = "record sent" => Mails(d) # {}

BusyOK ==
  \A d \in Draft :
    /\ \A r \in Request : Busy(r) /\ draft[r] = d => Carries(r, d)
    /\ \A r, s \in Request :
         Busy(r) /\ Busy(s) /\ draft[r] = d /\ draft[s] = d => r = s

MailOK ==
  /\ MailedAtMostOnce
  /\ MailedAsApproved
  /\ SentIsMailed
  /\ \A d \in Draft : Mails(d) # {} => status[d] \in Claimed

Safe == LockOK /\ OpenOK /\ BusyOK /\ MailOK

LEMMA InitSafe == Init => Safe
  <1> SUFFICES ASSUME Init PROVE Safe
    OBVIOUS
  <1>1. \A d \in Draft : Mails(d) = {}
    BY DEF Init, Mails
  <1>2. LockOK /\ OpenOK /\ BusyOK
    BY DEF Init, LockOK, OpenOK, BusyOK, Busy
  <1>3. MailOK
    BY <1>1 DEF Init, MailOK, MailedAtMostOnce, MailedAsApproved, SentIsMailed
  <1> QED
    BY <1>2, <1>3 DEF Safe

(* Mails stay right while the drafts that were mailed are left alone.       *)
LEMMA MailKept ==
  ASSUME MailOK, UNCHANGED inbox,
         \A d \in Draft :
           \/ /\ Mails(d) = {}
              /\ status'[d] # "sent"
           \/ /\ status'[d] = status[d]
              /\ recipient'[d] = recipient[d]
              /\ Content(d)' = Content(d)
  PROVE  MailOK'
  <1>1. \A d \in Draft : Mails(d)' = Mails(d)
    BY DEF Mails
  <1>2. MailedAtMostOnce'
    BY <1>1 DEF MailOK, MailedAtMostOnce
  <1>3. MailedAsApproved'
    BY <1>1 DEF MailOK, MailedAsApproved
  <1>4. SentIsMailed'
    BY <1>1 DEF MailOK, SentIsMailed
  <1>5. \A d \in Draft : Mails(d)' # {} => status'[d] \in Claimed
    BY <1>1 DEF MailOK
  <1> QED
    BY <1>2, <1>3, <1>4, <1>5 DEF MailOK

(* A busy request whose draft is left alone stays as it should be.          *)
LEMMA CarriesKept ==
  ASSUME BusyOK, NEW s \in Request, Busy(s), pc'[s] = pc[s],
         NEW d \in Draft, draft[s] = d, mail'[s] = mail[s],
         status'[d] = status[d], recipient'[d] = recipient[d], staff'[d] = staff[d],
         inbox'[d] = inbox[d]
  PROVE  Carries(s, d)'
  <1>1. Carries(s, d)
    BY DEF BusyOK
  <1> QED
    BY <1>1 DEF Carries, Content, Mails

LEMMA GenerateSafe ==
  ASSUME TypeInv, Safe, NEW d \in Draft, Generate(d)
  PROVE  Safe'
  <1> USE DEF TypeInv, TypeOK, RequestOK, Safe, request
  <1>1. /\ status[d] = "none" /\ status' = [status EXCEPT ![d] = "draft"]
        /\ UNCHANGED <<staff, recipient, lock, pc, draft, op, mail, inbox>>
    BY DEF Generate, SetStatus
  <1>2. \A e \in Draft : Mails(e)' = Mails(e) /\ Content(e)' = Content(e)
    BY <1>1 DEF Mails, Content
  <1>3. LockOK'
    BY <1>1 DEF LockOK
  <1>4. OpenOK'
    BY <1>1, <1>2 DEF OpenOK
  <1>5. BusyOK'
    <2>1. ASSUME NEW s \in Request, NEW e \in Draft, Busy(s)', draft'[s] = e
          PROVE  Carries(s, e)'
      <3>1. Busy(s) /\ draft[s] = e
        BY <1>1, <2>1 DEF Busy
      <3>2. e # d
        BY <1>1, <3>1 DEF BusyOK, Carries
      <3> QED
        BY <1>1, <3>1, <3>2, CarriesKept
    <2> QED
      BY <1>1, <2>1 DEF BusyOK, Busy
  <1>6. Mails(d) = {}
    BY <1>1 DEF MailOK, Claimed
  <1>7. MailOK'
    BY <1>1, <1>2, <1>6, MailKept
  <1> QED
    BY <1>3, <1>4, <1>5, <1>7

LEMMA OpenSafe ==
  ASSUME TypeInv, Safe, NEW r \in Request, NEW o \in Operation, NEW d \in Draft,
         Open(r, o, d)
  PROVE  Safe'
  <1>1. /\ pc[r] = "new" /\ lock[d] = {}
        /\ status[d] = IF o = "send" THEN "approved" ELSE "draft"
        /\ pc' = [pc EXCEPT ![r] = "commit"]
        /\ draft' = [draft EXCEPT ![r] = d]
        /\ op' = [op EXCEPT ![r] = o]
        /\ mail' = [mail EXCEPT ![r] = Taken(o, d)]
        /\ lock' = [lock EXCEPT ![d] = @ \cup {r}]
        /\ UNCHANGED <<status, staff, recipient, inbox>>
    BY DEF Open, Unlocked, Openable, Goto, row
  <1>2. \A e \in Draft : Mails(e)' = Mails(e) /\ Content(e)' = Content(e)
    BY <1>1 DEF Mails, Content
  <1>3. LockOK'
    <2>1. lock'[d] = {r} /\ \A e \in Draft : e # d => lock'[e] = lock[e] /\ r \notin lock[e]
      BY <1>1 DEF TypeInv, TypeOK, Safe, LockOK
    <2>2. /\ pc'[r] = "commit" /\ draft'[r] = d
          /\ \A s \in Request : s # r => pc'[s] = pc[s] /\ draft'[s] = draft[s]
      BY <1>1 DEF TypeInv, TypeOK
    <2>3. \A e \in Draft : lock[e] \subseteq Request
      BY DEF TypeInv, TypeOK
    <2>4. \A s \in Request : pc[s] = "commit" => draft[s] \in Draft
      BY DEF TypeInv, RequestOK
    <2> QED
      BY <1>1, <2>1, <2>2, <2>3, <2>4 DEF Safe, LockOK
  <1>4. OpenOK'
    BY <1>1, <1>2 DEF TypeInv, TypeOK, RequestOK, Safe, OpenOK, Taken
  <1>5. BusyOK'
    <2>1. \A s \in Request : Busy(s)' => s # r /\ Busy(s) /\ draft'[s] = draft[s]
                                        /\ mail'[s] = mail[s] /\ pc'[s] = pc[s]
      BY <1>1 DEF Busy, TypeInv, TypeOK
    <2>2. ASSUME NEW s \in Request, NEW e \in Draft, Busy(s)', draft'[s] = e
          PROVE  Carries(s, e)'
      BY <1>1, <2>1, <2>2, CarriesKept DEF Safe
    <2> QED
      BY <2>1, <2>2 DEF Safe, BusyOK
  <1>6. MailOK'
    BY <1>1, <1>2, MailKept DEF Safe
  <1> QED
    BY <1>3, <1>4, <1>5, <1>6 DEF Safe

(* Whoever is about to commit on a draft is alone with it.                  *)
LEMMA Alone ==
  ASSUME TypeInv, Safe, NEW r \in Request, pc[r] = "commit"
  PROVE  /\ draft[r] \in Draft /\ r \in lock[draft[r]]
         /\ Mails(draft[r]) = {}
         /\ \A s \in Request : s # r /\ (pc[s] = "commit" \/ Busy(s)) => draft[s] # draft[r]
  <1>1. draft[r] \in Draft /\ r \in lock[draft[r]]
    BY DEF TypeInv, RequestOK, Safe, LockOK
  <1>2. status[draft[r]] \in {"draft", "approved"}
    BY <1>1 DEF Safe, OpenOK
  <1>3. Mails(draft[r]) = {}
    BY <1>1, <1>2 DEF Safe, MailOK, Claimed
  <1>4. ASSUME NEW s \in Request, s # r, pc[s] = "commit" PROVE draft[s] # draft[r]
    BY <1>1, <1>4 DEF Safe, LockOK
  <1>5. ASSUME NEW s \in Request, Busy(s) PROVE draft[s] # draft[r]
    BY <1>1, <1>2, <1>5 DEF Safe, BusyOK, Carries
  <1> QED
    BY <1>1, <1>3, <1>4, <1>5

(* Releasing the lock leaves the lock discipline intact.                    *)
LEMMA UnlockSafe ==
  ASSUME TypeInv, Safe, NEW r \in Request, Unlock(r), draft[r] \in Draft, UNCHANGED draft,
         pc'[r] # "commit", \A s \in Request : s # r => pc'[s] = pc[s]
  PROVE  LockOK'
  <1>1. \A d \in Draft : lock'[d] \subseteq lock[d] \ {r}
    BY DEF TypeInv, TypeOK, Unlock, Safe, LockOK
  <1>2. \A d \in Draft : lock[d] \subseteq Request
    BY DEF TypeInv, TypeOK
  <1>3. \A s \in Request, d \in Draft : s # r /\ s \in lock[d] => s \in lock'[d]
    BY DEF TypeInv, TypeOK, Unlock
  <1>4. \A s \in Request : pc[s] = "commit" => draft[s] \in Draft
    BY DEF TypeInv, RequestOK
  <1> QED
    BY <1>1, <1>2, <1>3, <1>4 DEF Safe, LockOK

LEMMA CommitSafe ==
  ASSUME TypeInv, Safe, NEW r \in Request, Commit(r)
  PROVE  Safe'
  <1>0. PICK d \in Draft : d = draft[r]
    BY DEF Commit, TypeInv, RequestOK
  <1>1. /\ pc[r] = "commit" /\ Unlock(r)
        /\ UNCHANGED <<draft, op, mail, inbox>>
    BY DEF Commit
  <1>2. /\ Mails(d) = {}
        /\ \A s \in Request : s # r /\ (pc[s] = "commit" \/ Busy(s)) => draft[s] # d
    BY <1>0, <1>1, Alone
  <1>3. \/ UNCHANGED row /\ pc' = [pc EXCEPT ![r] = "done"]
        \/ Apply(r) /\ pc' = [pc EXCEPT ![r] = "done"]
        \/ Apply(r) /\ op[r] = "send" /\ pc' = [pc EXCEPT ![r] = "deliver"]
    <2>1. CASE op[r] = "send"
      BY <2>1 DEF Commit, Goto, AfterFailedCommit
    <2>2. CASE op[r] # "send"
      BY <2>2 DEF Commit, Goto, AfterFailedCommit
    <2> QED
      BY <2>1, <2>2
  <1>4. pc'[r] \in {"done", "deliver"} /\ \A s \in Request : s # r => pc'[s] = pc[s]
    BY <1>3 DEF TypeInv, TypeOK
  <1>5. LockOK'
    BY <1>0, <1>1, <1>4, UnlockSafe
  <1>6. /\ \A e \in Draft : e # d =>
             status'[e] = status[e] /\ recipient'[e] = recipient[e] /\ staff'[e] = staff[e]
        /\ status'[d] \in {"draft", "approved", "rejected", "pending_send"}
    <2>1. CASE UNCHANGED row
      BY <1>0, <1>1, <2>1 DEF row, Safe, OpenOK
    <2>2. CASE Apply(r)
      BY <1>0, <1>1, <2>2 DEF Apply, SetStatus, Safe, OpenOK, TypeInv, TypeOK
    <2> QED
      BY <1>3, <2>1, <2>2
  <1>7. OpenOK'
    <2>1. ASSUME NEW s \in Request, NEW e \in Draft, pc'[s] = "commit", draft'[s] = e
          PROVE  s # r /\ pc[s] = "commit" /\ draft[s] = e /\ e # d
      BY <1>1, <1>2, <1>4, <2>1
    <2>2. \A e \in Draft : e # d => Content(e)' = Content(e)
      BY <1>6 DEF Content
    <2> QED
      BY <1>1, <1>6, <2>1, <2>2 DEF Safe, OpenOK
  <1>8. \A s \in Request : s # r /\ Busy(s)' => Busy(s) /\ draft[s] \in Draft \ {d}
    BY <1>2, <1>4 DEF Busy, TypeInv, RequestOK
  <1>9. BusyOK'
    <2>1. ASSUME NEW s \in Request, NEW e \in Draft, s # r, Busy(s)', draft'[s] = e
          PROVE  Carries(s, e)'
      <3>1. Busy(s) /\ draft[s] = e /\ e # d
        BY <1>1, <1>8, <2>1
      <3> QED
        BY <1>1, <1>4, <1>6, <2>1, <3>1, CarriesKept DEF Safe
    <2>2. ASSUME Busy(r)' PROVE Carries(r, d)'
      <3>1. op[r] = "send" /\ Apply(r) /\ pc'[r] = "deliver"
        BY <1>3, <2>2 DEF Busy, TypeInv, TypeOK
      <3>2. /\ status'[d] = "pending_send" /\ recipient'[d] = mail[r].to
            /\ UNCHANGED staff
        BY <1>0, <3>1 DEF Apply, SetStatus, TypeInv, TypeOK
      <3>3. mail[r] \in Mail /\ mail[r].body = Content(d)
        BY <1>0, <1>1, <3>1 DEF TypeInv, RequestOK, Safe, OpenOK
      <3>4. mail[r] = [to |-> recipient'[d], body |-> Content(d)']
        BY <3>2, <3>3 DEF Mail, Content
      <3> QED
        BY <1>1, <1>2, <3>1, <3>2, <3>4 DEF Carries, Mails, Content
    <2>3. ASSUME NEW s \in Request, NEW u \in Request, NEW e \in Draft,
                 Busy(s)', Busy(u)', draft'[s] = e, draft'[u] = e
          PROVE  s = u
      <3>1. CASE s = r \/ u = r
        BY <1>0, <1>1, <1>8, <2>3, <3>1
      <3>2. CASE s # r /\ u # r
        BY <1>1, <1>8, <2>3, <3>2 DEF Safe, BusyOK
      <3> QED
        BY <3>1, <3>2
    <2> QED
      BY <1>0, <1>1, <2>1, <2>2, <2>3 DEF BusyOK
  <1>10. MailOK'
    BY <1>1, <1>2, <1>6, MailKept DEF Safe, Content
  <1> QED
    BY <1>5, <1>7, <1>9, <1>10 DEF Safe

(* Steps of the requests that are past their commit do not touch the lock.  *)
LEMMA LockUntouched ==
  ASSUME TypeInv, Safe, NEW r \in Request, pc[r] # "commit", pc'[r] # "commit",
         \A s \in Request : s # r => pc'[s] = pc[s],
         UNCHANGED <<lock, draft>>
  PROVE  LockOK'
  <1>1. \A d \in Draft : lock[d] \subseteq Request
    BY DEF TypeInv, TypeOK
  <1> QED
    BY <1>1 DEF Safe, LockOK

LEMMA DeliverSafe ==
  ASSUME TypeInv, Safe, NEW r \in Request, Deliver(r)
  PROVE  Safe'
  <1>0. PICK d \in Draft : d = draft[r]
    BY DEF Deliver, TypeInv, RequestOK
  <1>1. PICK m \in Mail : m = mail[r]
    BY DEF Deliver, TypeInv, RequestOK
  <1>2. /\ pc[r] = "deliver"
        /\ pc' \in {[pc EXCEPT ![r] = "record sent"], [pc EXCEPT ![r] = "record failed"]}
        /\ UNCHANGED <<status, staff, recipient, lock, draft, op, mail>>
    BY DEF Deliver, Goto, Outcome, row
  <1>3. \/ inbox' = [inbox EXCEPT ![d][m] = @ + 1]
        \/ UNCHANGED inbox /\ pc'[r] = "record failed"
    BY <1>0, <1>1, <1>2 DEF Deliver, Goto, Outcome, TypeInv, TypeOK
  <1>4. Busy(r) /\ Carries(r, d)
    BY <1>0, <1>2 DEF Busy, Safe, BusyOK
  <1>t. inbox \in [Draft -> [Mail -> Nat]]
    BY DEF TypeInv, TypeOK
  <1>5. Mails(d) = {} /\ \A n \in Mail : inbox[d][n] = 0
    <2>1. Mails(d) = {}
      BY <1>2, <1>4 DEF Carries
    <2>2. ASSUME NEW n \in Mail PROVE inbox[d][n] = 0
      <3>1. inbox[d][n] \in Nat /\ ~ inbox[d][n] > 0
        BY <1>t, <2>1 DEF Mails
      <3> QED
        BY <3>1
    <2> QED
      BY <2>1, <2>2
  <1>6. /\ \A e \in Draft : e # d => inbox'[e] = inbox[e]
        /\ \A n \in Mail : n # m => inbox'[d][n] = 0
        /\ inbox'[d][m] \in {0, 1}
    <2>1. CASE inbox' = [inbox EXCEPT ![d][m] = @ + 1]
      <3>1. inbox'[d] = [inbox[d] EXCEPT ![m] = @ + 1]
        BY <1>t, <2>1
      <3>2. \A n \in Mail : inbox'[d][n] = IF n = m THEN inbox[d][m] + 1 ELSE inbox[d][n]
        BY <1>t, <3>1
      <3>3. inbox'[d][m] = 1 /\ \A n \in Mail : n # m => inbox'[d][n] = 0
        BY <1>5, <3>2
      <3> QED
        BY <1>t, <2>1, <3>3
    <2>2. CASE UNCHANGED inbox /\ pc'[r] = "record failed"
      BY <1>5, <2>2
    <2> QED
      BY <1>3, <2>1, <2>2
  <1>s. inbox' = [inbox EXCEPT ![d][m] = @ + 1] => inbox'[d][m] = 1
    <2>1. ASSUME inbox' = [inbox EXCEPT ![d][m] = @ + 1] PROVE inbox'[d][m] = 1
      <3>1. inbox'[d] = [inbox[d] EXCEPT ![m] = @ + 1]
        BY <1>t, <2>1
      <3>2. inbox'[d][m] = inbox[d][m] + 1
        BY <1>t, <3>1
      <3> QED
        BY <1>5, <3>2
    <2> QED
      BY <2>1
  <1>7. Mails(d)' \subseteq {m} /\ (pc'[r] = "record sent" => m \in Mails(d)')
    <2>1. ASSUME NEW n \in Mails(d)' PROVE n = m
      <3>1. n \in Mail /\ inbox'[d][n] > 0
        BY DEF Mails
      <3> QED
        BY <1>6, <3>1
    <2>2. ASSUME pc'[r] = "record sent" PROVE m \in Mails(d)'
      <3>1. inbox'[d][m] = 1
        BY <1>3, <1>s, <2>2
      <3> QED
        BY <3>1 DEF Mails
    <2> QED
      BY <2>1, <2>2
  <1>8. \A e \in Draft : Content(e)' = Content(e) /\ (e # d => Mails(e)' = Mails(e))
    BY <1>2, <1>6 DEF Content, Mails
  <1>9. pc'[r] \in {"record sent", "record failed"} /\ \A s \in Request : s # r => pc'[s] = pc[s]
    BY <1>2 DEF TypeInv, TypeOK
  <1>10. LockOK' /\ OpenOK'
    <2>1. OpenOK'
      BY <1>2, <1>8, <1>9 DEF Safe, OpenOK
    <2> QED
      BY <1>2, <1>9, <2>1, LockUntouched
  <1>11. BusyOK'
    <2>1. \A s \in Request : Busy(s)' => Busy(s)
      BY <1>2, <1>9 DEF Busy
    <2>2. ASSUME NEW s \in Request, NEW e \in Draft, Busy(s)', draft'[s] = e
          PROVE  Carries(s, e)'
      <3>1. CASE s = r
        <4>1. e = d
          BY <1>0, <1>2, <2>2, <3>1
        <4> QED
          BY <1>2, <1>4, <1>7, <1>8, <1>9, <3>1, <4>1 DEF Carries
      <3>2. CASE s # r
        <4>1. Busy(s) /\ draft[s] = e /\ e # d
          BY <1>0, <1>2, <1>4, <2>1, <2>2, <3>2 DEF Safe, BusyOK
        <4> QED
          BY <1>2, <1>6, <1>9, <3>2, <4>1, CarriesKept DEF Safe
      <3> QED
        BY <3>1, <3>2
    <2> QED
      BY <1>2, <2>1, <2>2 DEF Safe, BusyOK
  <1>12. MailOK'
    <2>1. MailedAtMostOnce'
      <3>1. ASSUME NEW e \in Draft, NEW n \in Mails(e)', NEW q \in Mails(e)'
            PROVE  n = q /\ inbox'[e][n] = 1
        <4>0. n \in Mail /\ inbox'[e][n] > 0
          BY DEF Mails
        <4>1. CASE e = d
          <5>1. n = m /\ q = m
            BY <1>7, <4>1
          <5> QED
            BY <1>6, <4>0, <4>1, <5>1
        <4>2. CASE e # d
          <5>1. n \in Mails(e) /\ q \in Mails(e) /\ inbox'[e] = inbox[e]
            BY <1>6, <1>8, <4>2
          <5> QED
            BY <5>1 DEF Safe, MailOK, MailedAtMostOnce
        <4> QED
          BY <4>1, <4>2
      <3> QED
        BY <3>1 DEF MailedAtMostOnce
    <2>2. MailedAsApproved'
      <3>1. \A e \in Draft, n \in Mail :
              n \in Mails(e)' => IF e = d THEN n = m ELSE n \in Mails(e)
        BY <1>7, <1>8
      <3>2. status[d] \in Status =>
              status[d] = "pending_send" /\ m = [to |-> recipient[d], body |-> Content(d)]
        BY <1>1, <1>4 DEF Carries, Status
      <3>3. \A e \in Draft : Mails(e)' \subseteq Mail
        BY DEF Mails
      <3> QED
        BY <1>2, <1>8, <3>1, <3>2, <3>3 DEF Safe, MailOK, MailedAsApproved
    <2>3. SentIsMailed'
      BY <1>2, <1>4, <1>8 DEF Safe, MailOK, SentIsMailed, Carries
    <2>4. \A e \in Draft : Mails(e)' # {} => status'[e] \in Claimed
      BY <1>2, <1>4, <1>8 DEF Safe, MailOK, Carries, Claimed
    <2> QED
      BY <2>1, <2>2, <2>3, <2>4 DEF MailOK
  <1> QED
    BY <1>10, <1>11, <1>12 DEF Safe

LEMMA RecordSafe ==
  ASSUME TypeInv, Safe, NEW r \in Request, Record(r)
  PROVE  Safe'
  <1>0. PICK d \in Draft : d = draft[r]
    BY DEF Record, TypeInv, RequestOK
  <1>1. /\ pc[r] \in {"record sent", "record failed"}
        /\ pc' = [pc EXCEPT ![r] = "done"]
        /\ lock[d] = {}
        /\ UNCHANGED <<staff, recipient, lock, draft, op, mail, inbox>>
    BY <1>0 DEF Record, Goto, Unlocked
  <1>2. Busy(r) /\ Carries(r, d)
    BY <1>0, <1>1 DEF Busy, Safe, BusyOK
  <1>3. /\ \A e \in Draft : e # d => status'[e] = status[e]
        /\ \/ status'[d] = status[d]
           \/ /\ status[d] = "pending_send"
              /\ status'[d] = IF pc[r] = "record sent" THEN "sent" ELSE "send_failed"
    BY <1>0, <1>2 DEF Record, SetStatus, Carries, Status, TypeInv, TypeOK
  <1>4. \A e \in Draft : Content(e)' = Content(e) /\ Mails(e)' = Mails(e)
    BY <1>1 DEF Content, Mails
  <1>5. \A s \in Request : IF s = r THEN pc'[s] = "done" ELSE pc'[s] = pc[s]
    BY <1>1 DEF TypeInv, TypeOK
  <1>6. LockOK'
    BY <1>1, <1>5, LockUntouched
  <1>7. OpenOK'
    <2>1. ASSUME NEW s \in Request, pc[s] = "commit" PROVE draft[s] # d
      BY <1>1, <2>1 DEF Safe, LockOK
    <2>2. ASSUME NEW s \in Request, NEW e \in Draft, pc'[s] = "commit", draft'[s] = e
          PROVE  pc[s] = "commit" /\ draft[s] = e /\ status'[e] = status[e]
                 /\ Content(e)' = Content(e) /\ op'[s] = op[s] /\ mail'[s] = mail[s]
      BY <1>1, <1>3, <1>4, <1>5, <2>1, <2>2
    <2> QED
      BY <2>2 DEF Safe, OpenOK
  <1>8. BusyOK'
    <2>1. \A s \in Request : Busy(s)' => s # r /\ Busy(s) /\ draft[s] # d
      BY <1>0, <1>2, <1>5 DEF Busy, Safe, BusyOK
    <2>2. ASSUME NEW s \in Request, NEW e \in Draft, Busy(s)', draft'[s] = e
          PROVE  Carries(s, e)'
      BY <1>1, <1>3, <1>5, <2>1, <2>2, CarriesKept DEF Safe
    <2> QED
      BY <1>1, <2>1, <2>2 DEF Safe, BusyOK
  <1>9. MailOK'
    <2>1. MailedAtMostOnce'
      <3>1. ASSUME NEW e \in Draft, NEW n \in Mails(e)', NEW q \in Mails(e)'
            PROVE  n = q /\ inbox'[e][n] = 1
        <4>1. n \in Mails(e) /\ q \in Mails(e) /\ inbox' = inbox
          BY <1>1, <1>4
        <4> QED
          BY <4>1 DEF Safe, MailOK, MailedAtMostOnce
      <3> QED
        BY <3>1 DEF MailedAtMostOnce
    <2>2. MailedAsApproved'
      BY <1>1, <1>3, <1>4 DEF Safe, MailOK, MailedAsApproved, Status
    <2>3. SentIsMailed'
      BY <1>1, <1>2, <1>3, <1>4 DEF Safe, MailOK, SentIsMailed, Carries
    <2>4. \A e \in Draft : Mails(e)' # {} => status'[e] \in Claimed
      BY <1>3, <1>4 DEF Safe, MailOK, Claimed
    <2> QED
      BY <2>1, <2>2, <2>3, <2>4 DEF MailOK
  <1> QED
    BY <1>6, <1>7, <1>8, <1>9 DEF Safe

LEMMA CrashSafe ==
  ASSUME TypeInv, Safe, NEW r \in Request, Crash(r)
  PROVE  Safe'
  <1>0. PICK d \in Draft : d = draft[r]
    BY DEF Crash, TypeInv, RequestOK
  <1>1. /\ pc' = [pc EXCEPT ![r] = "done"] /\ Unlock(r)
        /\ UNCHANGED <<status, staff, recipient, draft, op, mail, inbox>>
    BY DEF Crash, Goto, row
  <1>2. \A e \in Draft : Content(e)' = Content(e) /\ Mails(e)' = Mails(e)
    BY <1>1 DEF Content, Mails
  <1>3. \A s \in Request : IF s = r THEN pc'[s] = "done" ELSE pc'[s] = pc[s]
    BY <1>1 DEF TypeInv, TypeOK
  <1>4. LockOK'
    BY <1>0, <1>1, <1>3, UnlockSafe
  <1>5. OpenOK'
    BY <1>1, <1>2, <1>3 DEF Safe, OpenOK
  <1>6. BusyOK'
    <2>1. \A s \in Request : Busy(s)' => s # r /\ Busy(s)
      BY <1>3 DEF Busy
    <2>2. ASSUME NEW s \in Request, NEW e \in Draft, Busy(s)', draft'[s] = e
          PROVE  Carries(s, e)'
      BY <1>1, <1>3, <2>1, <2>2, CarriesKept DEF Safe
    <2> QED
      BY <1>1, <2>1, <2>2 DEF Safe, BusyOK
  <1>7. MailOK'
    BY <1>1, <1>2, MailKept DEF Safe
  <1> QED
    BY <1>4, <1>5, <1>6, <1>7 DEF Safe

(* The ticket is deleted while nobody holds a row lock; the mails taken     *)
(* stay where they are.                                                     *)
LEMMA DeleteSafe ==
  ASSUME TypeInv, Safe, DeleteTicket
  PROVE  Safe'
  <1>1. /\ status' = [d \in Draft |-> "deleted"]
        /\ \A d \in Draft : lock[d] = {}
        /\ UNCHANGED <<staff, recipient, lock, pc, draft, op, mail, inbox>>
    BY DEF DeleteTicket, Unlocked, request
  <1>2. \A e \in Draft : Mails(e)' = Mails(e)
    BY <1>1 DEF Mails
  <1>3. \A r \in Request : pc[r] # "commit"
    BY <1>1 DEF TypeInv, RequestOK, Safe, LockOK
  <1>4. LockOK' /\ OpenOK'
    BY <1>1, <1>3 DEF LockOK, OpenOK
  <1>5. BusyOK'
    <2>1. \A s \in Request : Busy(s)' => Busy(s)
      BY <1>1 DEF Busy
    <2>2. ASSUME NEW s \in Request, NEW e \in Draft, Busy(s)', draft'[s] = e
          PROVE  Carries(s, e)'
      <3>1. Carries(s, e)
        BY <1>1, <2>1, <2>2 DEF Safe, BusyOK
      <3>2. status'[e] = "deleted"
        BY <1>1
      <3> QED
        BY <1>1, <1>2, <3>1, <3>2 DEF Carries
    <2> QED
      BY <1>1, <2>1, <2>2 DEF Safe, BusyOK
  <1>6. MailOK'
    BY <1>1, <1>2 DEF Safe, MailOK, MailedAtMostOnce, MailedAsApproved, SentIsMailed,
                      Claimed, Status
  <1> QED
    BY <1>4, <1>5, <1>6 DEF Safe

(* Steps that leave the drafts, their locks and mails and every request     *)
(* that holds a draft alone.                                                *)
LEMMA BystanderSafe ==
  ASSUME TypeInv, Safe, UNCHANGED <<status, staff, recipient, lock, draft, op, mail, inbox>>,
         \A r \in Request : pc'[r] # pc[r] => (pc[r] = "new" /\ pc'[r] = "done")
  PROVE  Safe'
  <1>1. \A e \in Draft : Content(e)' = Content(e) /\ Mails(e)' = Mails(e)
    BY DEF Content, Mails
  <1>2. LockOK'
    <2>1. \A d \in Draft : lock[d] \subseteq Request
      BY DEF TypeInv, TypeOK
    <2> QED
      BY <2>1 DEF Safe, LockOK
  <1>3. OpenOK'
    BY <1>1 DEF Safe, OpenOK
  <1>4. BusyOK'
    <2>1. \A s \in Request : Busy(s)' => Busy(s) /\ pc'[s] = pc[s]
      BY DEF Busy
    <2>2. ASSUME NEW s \in Request, NEW e \in Draft, Busy(s)', draft'[s] = e
          PROVE  Carries(s, e)'
      BY <2>1, <2>2, CarriesKept DEF Safe
    <2> QED
      BY <2>1, <2>2 DEF Safe, BusyOK
  <1>5. MailOK'
    BY <1>1, MailKept DEF Safe
  <1> QED
    BY <1>2, <1>3, <1>4, <1>5 DEF Safe

LEMMA SafeInvariant == Spec => []Safe
  <1>1. ASSUME TypeInv, Safe, [Next]_vars PROVE Safe'
    <2> USE <1>1
    <2>1. CASE UNCHANGED vars \/ ChangeCustomer
      <3>1. UNCHANGED <<status, staff, recipient, lock, pc, draft, op, mail, inbox>>
        BY <2>1 DEF vars, row, request, ChangeCustomer
      <3> QED
        BY <3>1, BystanderSafe
    <2>2. ASSUME NEW r \in Request, NEW o \in Operation, NEW d \in Draft, Refuse(r, o, d)
          PROVE  Safe'
      <3>1. /\ UNCHANGED <<status, staff, recipient, lock, draft, op, mail, inbox>>
            /\ pc[r] = "new" /\ pc' = [pc EXCEPT ![r] = "done"]
        BY <2>2 DEF Refuse, Goto, row
      <3>2. \A s \in Request : pc'[s] # pc[s] => (pc[s] = "new" /\ pc'[s] = "done")
        BY <3>1 DEF TypeInv, TypeOK
      <3> QED
        BY <3>1, <3>2, BystanderSafe
    <2>3. CASE Next
      BY <2>1, <2>2, <2>3, GenerateSafe, OpenSafe, CommitSafe, DeliverSafe, RecordSafe,
         CrashSafe, DeleteSafe DEF Next, Serve
    <2> QED
      BY <2>1, <2>3
  <1> QED
    BY InitSafe, TypeInvariant, <1>1, PTL DEF Spec

(* However many sends race, crash or fail, the SMTP server takes at most    *)
(* one mail of a draft.                                                     *)
THEOREM OneMailPerDraft == Spec => []MailedAtMostOnce
  <1>1. Safe => MailedAtMostOnce
    BY DEF Safe, MailOK
  <1> QED
    BY SafeInvariant, <1>1, PTL

(* A mail carries the approved draft's own wording to the recipient the     *)
(* draft records.                                                           *)
THEOREM MailsAreApproved == Spec => []MailedAsApproved
  <1>1. Safe => MailedAsApproved
    BY DEF Safe, MailOK
  <1> QED
    BY SafeInvariant, <1>1, PTL

(* No draft is recorded as sent unless the server took its mail.            *)
THEOREM SentDraftsAreMailed == Spec => []SentIsMailed
  <1>1. Safe => SentIsMailed
    BY DEF Safe, MailOK
  <1> QED
    BY SafeInvariant, <1>1, PTL

(* A draft is mailed at most once, at least once when it says sent, and as  *)
(* it was approved.                                                         *)
THEOREM CustomersGetTheRightMail == Spec => []MailsAreRight
  <1>1. MailedAtMostOnce /\ SentIsMailed /\ MailedAsApproved => MailsAreRight
    BY DEF MailsAreRight
  <1> QED
    BY OneMailPerDraft, SentDraftsAreMailed, MailsAreApproved, <1>1, PTL
-----------------------------------------------------------------------------
(* Requests, locks and mail transport implement the lifecycle of a draft.  *)

StageOf == [d \in Draft |-> Stage(status[d])]

WordingOf == [d \in Draft |-> IF status[d] \in Status THEN Content(d) ELSE Nothing]

Handed(d) == IF Sending(d) = {} THEN Nothing ELSE mail[CHOOSE r \in Sending(d) : TRUE].body

OutgoingOf == [d \in Draft |-> Handed(d)]

MailedOf == [d \in Draft |-> {m.body : m \in Mails(d)}]

(* What a step that is not about draft d leaves alone.                      *)
SameSends(d) ==
  Sending(d)' = Sending(d) /\ \A s \in Sending(d) : mail'[s] = mail[s]

Same(d) == status'[d] = status[d] /\ staff'[d] = staff[d] /\ inbox'[d] = inbox[d] /\ SameSends(d)

LEMMA HandedKept ==
  ASSUME NEW d \in Draft, SameSends(d)
  PROVE  Handed(d)' = Handed(d)
  <1>1. CASE Sending(d) = {}
    BY <1>1 DEF Handed, SameSends
  <1>2. CASE Sending(d) # {}
    <2>1. PICK c \in Sending(d) : c = CHOOSE r \in Sending(d) : TRUE
      BY <1>2
    <2>2. Handed(d) = mail[c].body
      BY <1>2, <2>1 DEF Handed
    <2>3. Sending(d)' = Sending(d) /\ mail'[c] = mail[c]
      BY <2>1 DEF SameSends
    <2>4. Handed(d)' = mail'[c].body
      BY <1>2, <2>1, <2>3 DEF Handed
    <2> QED
      BY <2>2, <2>3, <2>4
  <1> QED
    BY <1>1, <1>2

LEMMA DraftKept ==
  ASSUME NEW d \in Draft, Same(d)
  PROVE  /\ StageOf'[d] = StageOf[d]
         /\ WordingOf'[d] = WordingOf[d]
         /\ OutgoingOf'[d] = OutgoingOf[d]
         /\ MailedOf'[d] = MailedOf[d]
  <1>1. StageOf'[d] = StageOf[d] /\ WordingOf'[d] = WordingOf[d]
    BY DEF Same, StageOf, WordingOf, Content
  <1>2. OutgoingOf'[d] = OutgoingOf[d]
    BY HandedKept DEF Same, OutgoingOf
  <1>3. Mails(d)' = Mails(d)
    BY DEF Same, Mails
  <1>4. MailedOf'[d] = MailedOf[d]
    BY <1>3 DEF MailedOf
  <1> QED
    BY <1>1, <1>2, <1>4

LEMMA OneDraft ==
  ASSUME NEW d \in Draft, \A e \in Draft \ {d} : Same(e)
  PROVE  /\ StageOf' = [StageOf EXCEPT ![d] = StageOf'[d]]
         /\ WordingOf' = [WordingOf EXCEPT ![d] = WordingOf'[d]]
         /\ OutgoingOf' = [OutgoingOf EXCEPT ![d] = OutgoingOf'[d]]
         /\ MailedOf' = [MailedOf EXCEPT ![d] = MailedOf'[d]]
  <1>1. \A e \in Draft \ {d} :
          /\ StageOf'[e] = StageOf[e]
          /\ WordingOf'[e] = WordingOf[e]
          /\ OutgoingOf'[e] = OutgoingOf[e]
          /\ MailedOf'[e] = MailedOf[e]
    BY DraftKept
  <1>2. StageOf' = [StageOf EXCEPT ![d] = StageOf'[d]]
    BY <1>1 DEF StageOf
  <1>3. WordingOf' = [WordingOf EXCEPT ![d] = WordingOf'[d]]
    BY <1>1 DEF WordingOf
  <1>4. OutgoingOf' = [OutgoingOf EXCEPT ![d] = OutgoingOf'[d]]
    BY <1>1 DEF OutgoingOf
  <1>5. MailedOf' = [MailedOf EXCEPT ![d] = MailedOf'[d]]
    BY <1>1 DEF MailedOf
  <1> QED
    BY <1>2, <1>3, <1>4, <1>5

LEMMA StillRefines ==
  ASSUME \A d \in Draft : Same(d)
  PROVE  [Lifecycle!Next]_Lifecycle!vars
  <1>1. \A d \in Draft :
          /\ StageOf'[d] = StageOf[d]
          /\ WordingOf'[d] = WordingOf[d]
          /\ OutgoingOf'[d] = OutgoingOf[d]
          /\ MailedOf'[d] = MailedOf[d]
    BY DraftKept
  <1>2. StageOf' = StageOf
    BY <1>1 DEF StageOf
  <1>3. WordingOf' = WordingOf
    BY <1>1 DEF WordingOf
  <1>4. OutgoingOf' = OutgoingOf
    BY <1>1 DEF OutgoingOf
  <1>5. MailedOf' = MailedOf
    BY <1>1 DEF MailedOf
  <1> QED
    BY <1>2, <1>3, <1>4, <1>5
    DEF Lifecycle!vars, StageOf, WordingOf, OutgoingOf, MailedOf, Handed

(* The one send of a draft that talks to the SMTP server.                   *)
LEMMA Sender ==
  ASSUME TypeInv, Safe, NEW r \in Request, pc[r] = "deliver"
  PROVE  /\ draft[r] \in Draft
         /\ Sending(draft[r]) = {r}
         /\ OutgoingOf[draft[r]] = mail[r].body
         /\ mail[r].body \in Body
         /\ Mails(draft[r]) = {}
         /\ MailedOf[draft[r]] = {}
  <1>1. draft[r] \in Draft /\ mail[r] \in Mail
    BY DEF TypeInv, RequestOK
  <1>2. Mails(draft[r]) = {} /\ \A s \in Request : pc[s] = "deliver" /\ draft[s] = draft[r] => s = r
    BY <1>1 DEF Safe, BusyOK, Busy, Carries
  <1>3. Sending(draft[r]) = {r}
    BY <1>2 DEF Sending
  <1>4. OutgoingOf[draft[r]] = mail[r].body
    BY <1>1, <1>3 DEF OutgoingOf, Handed
  <1>5. MailedOf[draft[r]] = {}
    BY <1>1, <1>2 DEF MailedOf
  <1> QED
    BY <1>1, <1>2, <1>3, <1>4, <1>5 DEF Mail

LEMMA GenerateRefines ==
  ASSUME TypeInv, NEW d \in Draft, Generate(d)
  PROVE  [Lifecycle!Next]_Lifecycle!vars
  <1>1. /\ status[d] = "none" /\ status' = [status EXCEPT ![d] = "draft"]
        /\ UNCHANGED <<staff, pc, draft, mail, inbox>>
    BY DEF Generate, SetStatus, request
  <1>2. \A e \in Draft : SameSends(e) /\ Mails(e)' = Mails(e)
    BY <1>1 DEF SameSends, Sending, Mails
  <1>3. \A e \in Draft \ {d} : Same(e)
    BY <1>1, <1>2 DEF Same, TypeInv, TypeOK
  <1>4. StageOf[d] = "none" /\ StageOf'[d] = "draft"
    BY <1>1 DEF StageOf, Stage, TypeInv, TypeOK
  <1>5. WordingOf'[d] \in Body
    BY <1>1, ContentType DEF WordingOf, Content, Status, TypeInv, TypeOK
  <1>6. OutgoingOf' = OutgoingOf /\ MailedOf' = MailedOf
    BY <1>2, HandedKept DEF OutgoingOf, MailedOf
  <1>7. Lifecycle!Generate(d)
    BY <1>3, <1>4, <1>5, <1>6, OneDraft
    DEF Lifecycle!Generate, Lifecycle!Advance, StageOf, WordingOf, OutgoingOf, MailedOf, Handed
  <1> QED
    BY <1>7 DEF Lifecycle!Next
(* A step that leaves every draft alone, and every send at work.            *)
LEMMA NoSendMoves ==
  ASSUME UNCHANGED <<status, staff, inbox>>,
         \A s \in Request :
           /\ pc[s] = "deliver" \/ pc'[s] = "deliver" =>
                pc'[s] = pc[s] /\ draft'[s] = draft[s] /\ mail'[s] = mail[s]
  PROVE  \A d \in Draft : Same(d)
  BY DEF Same, SameSends, Sending

(* Nobody sends a draft somebody else is about to commit.                   *)
LEMMA NobodySends ==
  ASSUME TypeInv, Safe, NEW r \in Request, pc[r] = "commit"
  PROVE  draft[r] \in Draft /\ Sending(draft[r]) = {} /\ OutgoingOf[draft[r]] = Nothing
  <1>1. draft[r] \in Draft
    BY Alone
  <1>2. Sending(draft[r]) = {}
    BY Alone DEF Sending, Busy
  <1> QED
    BY <1>1, <1>2 DEF OutgoingOf, Handed

LEMMA CommitRefines ==
  ASSUME TypeInv, Safe, NEW r \in Request, Commit(r)
  PROVE  [Lifecycle!Next]_Lifecycle!vars
  <1>0. PICK d \in Draft : d = draft[r]
    BY DEF Commit, TypeInv, RequestOK
  <1>1. /\ pc[r] = "commit"
        /\ UNCHANGED <<draft, op, mail, inbox>>
        /\ Sending(d) = {} /\ OutgoingOf[d] = Nothing
    BY <1>0, NobodySends DEF Commit
  <1>2. \/ Apply(r) /\ pc' = [pc EXCEPT ![r] = IF op[r] = "send" THEN "deliver" ELSE "done"]
        \/ Apply(r) /\ pc' = [pc EXCEPT ![r] = "done"]
        \/ UNCHANGED row /\ pc' = [pc EXCEPT ![r] = "done"]
    BY DEF Commit, Goto, AfterFailedCommit
  <1>3. \A s \in Request \ {r} : pc'[s] = pc[s]
    BY <1>2 DEF TypeInv, TypeOK
  <1>4. \A e \in Draft \ {d} : SameSends(e)
    BY <1>0, <1>1, <1>3 DEF SameSends, Sending
  <1>5. CASE UNCHANGED row /\ pc' = [pc EXCEPT ![r] = "done"]
    <2>1. pc'[r] = "done"
      BY <1>5 DEF TypeInv, TypeOK
    <2>2. \A e \in Draft : Same(e)
      BY <1>1, <1>3, <1>5, <2>1, NoSendMoves DEF row
    <2> QED
      BY <2>2, StillRefines
  <1>6. ASSUME Apply(r), pc'[r] = "done" \/ (op[r] = "send" /\ pc'[r] = "deliver")
        PROVE  [Lifecycle!Next]_Lifecycle!vars
    <2>1. \A e \in Draft \ {d} : Same(e)
      BY <1>0, <1>1, <1>4, <1>6 DEF Apply, SetStatus, Same, TypeInv, TypeOK
    <2>2. MailedOf' = MailedOf
      BY <1>1 DEF MailedOf, Mails
    <2>3. pc'[r] = "done" => OutgoingOf' = OutgoingOf
      <3>1. ASSUME pc'[r] = "done" PROVE SameSends(d)
        BY <1>0, <1>1, <1>3, <3>1 DEF SameSends, Sending
      <3> QED
        BY <1>4, <3>1, HandedKept DEF OutgoingOf
    <2>4. status[d] = (IF op[r] = "send" THEN "approved" ELSE "draft")
          /\ (op[r] = "send" => mail[r].body = Content(d))
      BY <1>0, <1>1 DEF Safe, OpenOK
    <2>5. CASE op[r] = "edit"
      <3>1. PICK x \in StaffText : staff' = [staff EXCEPT ![d] = x] /\ status' = status
        BY <1>0, <1>6, <2>5 DEF Apply
      <3>2. WordingOf'[d] = x /\ StageOf' = StageOf /\ StageOf[d] = "draft"
        BY <2>4, <2>5, <3>1, TextAssumption
        DEF WordingOf, StageOf, Stage, Content, Status, TypeInv, TypeOK
      <3>3. OutgoingOf' = OutgoingOf
        BY <1>6, <2>3, <2>5
      <3>4. Lifecycle!Edit(d)
        BY <2>1, <2>2, <3>2, <3>3, OneDraft
        DEF Lifecycle!Edit, StageOf, WordingOf, OutgoingOf, MailedOf, Handed, Body
      <3> QED
        BY <3>4 DEF Lifecycle!Next
    <2>6. CASE op[r] \in {"approve", "reject"}
      <3>1. PICK v \in {"approved", "rejected"} :
              status' = [status EXCEPT ![d] = v] /\ staff' = staff
        BY <1>0, <1>6, <2>6 DEF Apply, SetStatus
      <3>2. StageOf[d] = "draft" /\ StageOf'[d] = v
        BY <2>4, <2>6, <3>1 DEF StageOf, Stage, TypeInv, TypeOK
      <3>3. WordingOf' = WordingOf
        BY <2>4, <2>6, <3>1 DEF WordingOf, Content, Status, TypeInv, TypeOK
      <3>4. OutgoingOf' = OutgoingOf
        BY <1>6, <2>3, <2>6
      <3>5. Lifecycle!Decide(d)
        BY <2>1, <2>2, <3>2, <3>3, <3>4, OneDraft
        DEF Lifecycle!Decide, Lifecycle!Advance, StageOf, WordingOf, OutgoingOf, MailedOf, Handed
      <3> QED
        BY <3>5 DEF Lifecycle!Next
    <2>7. CASE op[r] = "send"
      <3>1. status' = [status EXCEPT ![d] = "pending_send"] /\ staff' = staff
        BY <1>0, <1>6, <2>7 DEF Apply, SetStatus
      <3>2. StageOf[d] = "approved" /\ StageOf'[d] = "claimed"
        BY <2>4, <2>7, <3>1 DEF StageOf, Stage, TypeInv, TypeOK
      <3>3. WordingOf' = WordingOf /\ WordingOf[d] = mail[r].body
        BY <2>4, <2>7, <3>1 DEF WordingOf, Content, Status, TypeInv, TypeOK
      <3>4. pc'[r] = "deliver" => OutgoingOf'[d] = mail[r].body
        <4>1. ASSUME pc'[r] = "deliver" PROVE Sending(d)' = {r}
          BY <1>0, <1>1, <1>3, <4>1 DEF Sending
        <4> QED
          BY <1>1, <4>1 DEF OutgoingOf, Handed
      <3>5. OutgoingOf' \in {OutgoingOf, [OutgoingOf EXCEPT ![d] = WordingOf[d]]}
        BY <1>6, <2>1, <2>3, <3>3, <3>4, OneDraft
      <3>6. Lifecycle!Claim(d)
        BY <2>1, <2>2, <3>2, <3>3, <3>5, OneDraft
        DEF Lifecycle!Claim, Lifecycle!Advance, StageOf, WordingOf, OutgoingOf, MailedOf, Handed
      <3> QED
        BY <3>6 DEF Lifecycle!Next
    <2> QED
      BY <1>6, <2>5, <2>6, <2>7 DEF Apply
  <1> QED
    BY <1>2, <1>5, <1>6 DEF TypeInv, TypeOK

(* The end of a send's exchange with the server, or of the send itself.     *)
LEMMA HandOverRefines ==
  ASSUME TypeInv, Safe, NEW r \in Request, pc[r] = "deliver", pc'[r] # "deliver",
         \A s \in Request \ {r} : pc'[s] = pc[s],
         UNCHANGED <<status, staff, draft, mail>>,
         \A e \in Draft \ {draft[r]} : inbox'[e] = inbox[e],
         MailedOf'[draft[r]] \in {{}, {mail[r].body}}
  PROVE  [Lifecycle!Next]_Lifecycle!vars
  <1>0. PICK d \in Draft : d = draft[r]
    BY Sender
  <1>1. /\ Sending(d) = {r} /\ OutgoingOf[d] = mail[r].body /\ mail[r].body # Nothing
        /\ MailedOf[d] = {}
    BY <1>0, Sender, TextAssumption DEF Body
  <1>2. Sending(d)' = {}
    BY <1>0, <1>1 DEF Sending
  <1>3. OutgoingOf'[d] = Nothing
    BY <1>2 DEF OutgoingOf, Handed
  <1>4. \A e \in Draft \ {d} : Same(e)
    BY <1>0 DEF Same, SameSends, Sending
  <1>5. StageOf' = StageOf /\ WordingOf' = WordingOf
    BY DEF StageOf, WordingOf, Content
  <1>6. MailedOf' \in {MailedOf, [MailedOf EXCEPT ![d] = {OutgoingOf[d]}]}
    <2>1. MailedOf' = [MailedOf EXCEPT ![d] = MailedOf'[d]]
      BY <1>4, OneDraft
    <2>2. CASE MailedOf'[d] = {}
      BY <1>1, <2>1, <2>2 DEF MailedOf
    <2>3. CASE MailedOf'[d] = {mail[r].body}
      BY <1>1, <2>1, <2>3
    <2> QED
      BY <1>0, <2>2, <2>3
  <1>7. OutgoingOf' = [OutgoingOf EXCEPT ![d] = Nothing]
    BY <1>3, <1>4, OneDraft
  <1>8. Lifecycle!HandOver(d)
    BY <1>1, <1>5, <1>6, <1>7
    DEF Lifecycle!HandOver, StageOf, WordingOf, OutgoingOf, MailedOf, Handed
  <1> QED
    BY <1>8 DEF Lifecycle!Next
LEMMA DeliverRefines ==
  ASSUME TypeInv, Safe, NEW r \in Request, Deliver(r)
  PROVE  [Lifecycle!Next]_Lifecycle!vars
  <1>0. PICK d \in Draft : d = draft[r]
    BY Sender DEF Deliver
  <1>1. /\ pc[r] = "deliver" /\ mail[r] \in Mail /\ Mails(d) = {}
        /\ UNCHANGED <<status, staff, draft, mail>>
    BY <1>0, Sender DEF Deliver, row, TypeInv, RequestOK
  <1>2. pc'[r] # "deliver" /\ \A s \in Request \ {r} : pc'[s] = pc[s]
    BY DEF Deliver, Goto, Outcome, TypeInv, TypeOK
  <1>3. inbox' = inbox \/ inbox' = [inbox EXCEPT ![d][mail[r]] = @ + 1]
    BY <1>0 DEF Deliver
  <1>4. \A e \in Draft \ {d} : inbox'[e] = inbox[e]
    BY <1>3 DEF TypeInv, TypeOK
  <1>5. Mails(d)' \in {{}, {mail[r]}}
    <2>1. \A m \in Mail : inbox[d][m] = 0
      BY <1>1 DEF Mails, TypeInv, TypeOK
    <2>2. CASE inbox' = inbox
      BY <1>1, <2>2 DEF Mails
    <2>3. CASE inbox' = [inbox EXCEPT ![d][mail[r]] = @ + 1]
      <3>1. \A m \in Mail : inbox'[d][m] = IF m = mail[r] THEN 1 ELSE 0
        BY <1>1, <2>1, <2>3 DEF TypeInv, TypeOK
      <3> QED
        BY <1>1, <3>1 DEF Mails
    <2> QED
      BY <1>3, <2>2, <2>3
  <1>6. MailedOf'[d] \in {{}, {mail[r].body}}
    <2>1. MailedOf'[d] = {m.body : m \in Mails(d)'}
      BY DEF MailedOf
    <2>2. CASE Mails(d)' = {}
      BY <2>1, <2>2
    <2>3. CASE Mails(d)' = {mail[r]}
      BY <2>1, <2>3
    <2> QED
      BY <1>5, <2>2, <2>3
  <1> QED
    BY <1>0, <1>1, <1>2, <1>4, <1>6, HandOverRefines

LEMMA RecordRefines ==
  ASSUME TypeInv, Safe, NEW r \in Request, Record(r)
  PROVE  [Lifecycle!Next]_Lifecycle!vars
  <1>0. PICK d \in Draft : d = draft[r]
    BY DEF Record, TypeInv, RequestOK
  <1>1. /\ pc[r] \in {"record sent", "record failed"} /\ pc' = [pc EXCEPT ![r] = "done"]
        /\ UNCHANGED <<staff, draft, mail, inbox>>
    BY DEF Record, Goto
  <1>2. \A e \in Draft : SameSends(e) /\ Mails(e)' = Mails(e)
    BY <1>1 DEF SameSends, Sending, Mails, TypeInv, TypeOK
  <1>3. CASE status' = status
    BY <1>1, <1>2, <1>3, StillRefines DEF Same
  <1>4. CASE /\ status[d] \in Status
             /\ SetStatus(d, IF pc[r] = "record sent" THEN "sent" ELSE "send_failed")
    <2>1. status[d] = "pending_send" /\ (pc[r] = "record sent" => Mails(d) # {})
      BY <1>0, <1>1, <1>4 DEF Safe, BusyOK, Busy, Carries, Status
    <2>2. \A e \in Draft \ {d} : Same(e)
      BY <1>1, <1>2, <1>4 DEF Same, SetStatus, TypeInv, TypeOK
    <2>3. /\ StageOf[d] = "claimed"
          /\ StageOf'[d] = IF pc[r] = "record sent" THEN "sent" ELSE "failed"
      BY <1>1, <1>4, <2>1 DEF StageOf, Stage, SetStatus, TypeInv, TypeOK
    <2>4. WordingOf' = WordingOf
      BY <1>1, <1>4, <2>1 DEF WordingOf, Content, SetStatus, Status, TypeInv, TypeOK
    <2>5. OutgoingOf' = OutgoingOf /\ MailedOf' = MailedOf
      BY <1>2, HandedKept DEF OutgoingOf, MailedOf
    <2>6. pc[r] = "record sent" => MailedOf[d] # {}
      BY <2>1 DEF MailedOf
    <2>7. Lifecycle!Conclude(d)
      BY <2>2, <2>3, <2>4, <2>5, <2>6, OneDraft
      DEF Lifecycle!Conclude, Lifecycle!Advance, StageOf, WordingOf, OutgoingOf, MailedOf, Handed
    <2> QED
      BY <2>7 DEF Lifecycle!Next
  <1> QED
    BY <1>0, <1>3, <1>4 DEF Record

LEMMA CrashRefines ==
  ASSUME TypeInv, Safe, NEW r \in Request, Crash(r)
  PROVE  [Lifecycle!Next]_Lifecycle!vars
  <1>1. /\ UNCHANGED <<status, staff, draft, mail, inbox>>
        /\ pc' = [pc EXCEPT ![r] = "done"]
    BY DEF Crash, Goto, row
  <1>2. pc'[r] = "done" /\ \A s \in Request \ {r} : pc'[s] = pc[s]
    BY <1>1 DEF TypeInv, TypeOK
  <1>3. CASE pc[r] = "deliver"
    <2>1. MailedOf'[draft[r]] = {}
      BY <1>1, <1>3, Sender DEF MailedOf, Mails
    <2> QED
      BY <1>1, <1>2, <1>3, <2>1, HandOverRefines
  <1>4. CASE pc[r] # "deliver"
    <2>1. \A e \in Draft : Same(e)
      BY <1>1, <1>2, <1>4, NoSendMoves
    <2> QED
      BY <2>1, StillRefines
  <1> QED
    BY <1>3, <1>4

LEMMA DeleteRefines ==
  ASSUME TypeInv, DeleteTicket
  PROVE  [Lifecycle!Next]_Lifecycle!vars
  <1>1. /\ status' = [d \in Draft |-> "deleted"]
        /\ UNCHANGED <<pc, draft, mail, inbox>>
    BY DEF DeleteTicket, request
  <1>2. StageOf' = [d \in Draft |-> "deleted"] /\ WordingOf' = [d \in Draft |-> Nothing]
    BY <1>1 DEF StageOf, WordingOf, Stage, Status
  <1>3. \A d \in Draft : SameSends(d) /\ Mails(d)' = Mails(d)
    BY <1>1 DEF SameSends, Sending, Mails
  <1>4. OutgoingOf' = OutgoingOf /\ MailedOf' = MailedOf
    BY <1>3, HandedKept DEF OutgoingOf, MailedOf
  <1>5. Lifecycle!Discard
    BY <1>2, <1>4 DEF Lifecycle!Discard, StageOf, WordingOf, OutgoingOf, MailedOf, Handed
  <1> QED
    BY <1>5 DEF Lifecycle!Next

LEMMA OpenRefines ==
  ASSUME TypeInv, NEW r \in Request, NEW o \in Operation, NEW d \in Draft,
         Open(r, o, d) \/ Refuse(r, o, d)
  PROVE  [Lifecycle!Next]_Lifecycle!vars
  <1>1. /\ pc[r] = "new" /\ UNCHANGED <<status, staff, inbox>>
        /\ pc' = [pc EXCEPT ![r] = "commit"] \/ pc' = [pc EXCEPT ![r] = "done"]
    BY DEF Open, Refuse, Goto, row
  <1>2. pc'[r] # "deliver" /\ \A s \in Request \ {r} : pc'[s] = pc[s]
    BY <1>1 DEF TypeInv, TypeOK
  <1>3. \A s \in Request \ {r} : draft'[s] = draft[s] /\ mail'[s] = mail[s]
    BY DEF Open, Refuse, TypeInv, TypeOK
  <1>4. \A e \in Draft : Same(e)
    BY <1>1, <1>2, <1>3, NoSendMoves
  <1> QED
    BY <1>4, StillRefines

LEMMA RefinesInit == Init => Lifecycle!Init
  <1> SUFFICES ASSUME Init PROVE Lifecycle!Init
    OBVIOUS
  <1>1. \A d \in Draft : Sending(d) = {} /\ Mails(d) = {}
    BY DEF Init, Sending, Mails
  <1>2. StageOf = [d \in Draft |-> "none"] /\ WordingOf = [d \in Draft |-> Nothing]
    BY DEF Init, StageOf, Stage, WordingOf, Status
  <1>3. OutgoingOf = [d \in Draft |-> Nothing] /\ MailedOf = [d \in Draft |-> {}]
    BY <1>1 DEF OutgoingOf, Handed, MailedOf
  <1> QED
    BY <1>2, <1>3 DEF Lifecycle!Init, StageOf, WordingOf, OutgoingOf, MailedOf, Handed

(* Racing requests, row locks and the mail transport keep to the lifecycle  *)
(* of a suggested answer: decided once, frozen, claimed before it is mailed.*)
THEOREM AnswersKeepTheirLifecycle == Spec => ImplementsLifecycle
  <1>1. TypeInv /\ Safe /\ [Next]_vars => [Lifecycle!Next]_Lifecycle!vars
    <2> SUFFICES ASSUME TypeInv, Safe, [Next]_vars
                 PROVE  [Lifecycle!Next]_Lifecycle!vars
      OBVIOUS
    <2>1. CASE UNCHANGED vars \/ ChangeCustomer
      <3>1. UNCHANGED <<status, staff, inbox, pc, draft, mail>>
        BY <2>1 DEF vars, row, request, ChangeCustomer
      <3>2. \A d \in Draft : Same(d)
        BY <3>1, NoSendMoves
      <3> QED
        BY <3>2, StillRefines
    <2>2. CASE Next
      BY <2>1, <2>2, GenerateRefines, OpenRefines, CommitRefines, DeliverRefines, RecordRefines,
         CrashRefines, DeleteRefines DEF Next, Serve
    <2> QED
      BY <2>1, <2>2
  <1> QED
    BY RefinesInit, TypeInvariant, SafeInvariant, <1>1, PTL
    DEF Spec, ImplementsLifecycle, Lifecycle!Spec
=============================================================================
