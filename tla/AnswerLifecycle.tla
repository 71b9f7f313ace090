--------------------------- MODULE AnswerLifecycle ---------------------------
(***************************************************************************)
(* What staff may rely on about a suggested answer: it is decided once, it *)
(* is never changed after the decision, and only an approved answer is     *)
(* mailed, as approved and at most once, whatever happens to the ticket    *)
(* while the mail is on its way.                                           *)
(***************************************************************************)
EXTENDS Naturals

CONSTANTS Draft, Text, Nothing

VARIABLES
  stage,     \* stage[d]: where draft d is in its review
  wording,   \* wording[d]: the text a customer would get
  outgoing,  \* outgoing[d]: the text handed to the mail transport, or Nothing
  mailed     \* mailed[d]: mails the transport took, and their texts

vars == <<stage, wording, outgoing, mailed>>

Init ==
  /\ stage = [d \in Draft |-> "none"]
  /\ wording = [d \in Draft |-> Nothing]
  /\ outgoing = [d \in Draft |-> Nothing]
  /\ mailed = [d \in Draft |-> {}]

Advance(d, from, to) == stage[d] = from /\ stage' = [stage EXCEPT ![d] = to]

Generate(d) ==
  /\ Advance(d, "none", "draft")
  /\ \E x \in Text : wording' = [wording EXCEPT ![d] = x]
  /\ UNCHANGED <<outgoing, mailed>>

Edit(d) ==
  /\ stage[d] = "draft"
  /\ \E x \in Text : wording' = [wording EXCEPT ![d] = x]
  /\ UNCHANGED <<stage, outgoing, mailed>>

Decide(d) ==
  /\ Advance(d, "draft", "approved") \/ Advance(d, "draft", "rejected")
  /\ UNCHANGED <<wording, outgoing, mailed>>

(* The mail is claimed before the transport is contacted.  The claim may    *)
(* also be all that happens.                                                *)
Claim(d) ==
  /\ Advance(d, "approved", "claimed")
  /\ outgoing' \in {outgoing, [outgoing EXCEPT ![d] = wording[d]]}
  /\ UNCHANGED <<wording, mailed>>

HandOver(d) ==
  /\ outgoing[d] # Nothing
  /\ mailed' \in {mailed, [mailed EXCEPT ![d] = {outgoing[d]}]}
  /\ mailed[d] = {}
  /\ outgoing' = [outgoing EXCEPT ![d] = Nothing]
  /\ UNCHANGED <<stage, wording>>

Conclude(d) ==
  /\ \/ Advance(d, "claimed", "sent") /\ mailed[d] # {}
     \/ Advance(d, "claimed", "failed")
  /\ UNCHANGED <<wording, outgoing, mailed>>

(* Drafts go with their ticket.                                             *)
Discard ==
  /\ stage' = [d \in Draft |-> "deleted"]
  /\ wording' = [d \in Draft |-> Nothing]
  /\ UNCHANGED <<outgoing, mailed>>

Next ==
  \/ Discard
  \/ \E d \in Draft :
       Generate(d) \/ Edit(d) \/ Decide(d) \/ Claim(d) \/ HandOver(d) \/ Conclude(d)

Spec == Init /\ [][Next]_vars
=============================================================================
