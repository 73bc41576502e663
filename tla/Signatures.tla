----------------------------- MODULE Signatures ------------------------------
(***************************************************************************)
(* E-signature requests (app/api/signatures.py, app/signing/service.py) on *)
(* top of the documents they sign: staff create, send, cancel and delete a *)
(* request, the signer views, signs or declines it through its link, and a *)
(* vendor reports the same events through the inbound webhook.  Completing *)
(* a request writes the audit trail to S3, and then commits the request    *)
(* and the document's new status in one transaction.                       *)
(*                                                                         *)
(* As in Documents, a route reads and checks first and commits later       *)
(* without checking again.                                                 *)
(***************************************************************************)
EXTENDS Documents

CONSTANTS Requests, \* rows that signature_requests may hold
          Clerks,   \* requests on signatures served at the same time
          MaxVisits \* bound: such requests served

ASSUME SignaturesAssumption ==
    /\ NoRow \notin Requests
    /\ MaxVisits \in Nat

VARIABLES
    envelope, \* the status of a signature request; absent until it is inserted
    marks,    \* its timestamp columns that are set
    subject,  \* quote_id or contract_id
    erased,   \* its deleted_at is set
    evidence, \* requests that have an audit trail in S3
    clerk,    \* what a request on signatures has read so far
    visits

signatureVars == <<envelope, marks, subject, erased, evidence>>
clerkVars == <<clerk, visits>>
vars == <<docVars, signatureVars, clerkVars>>

EnvelopeStatuses == {"drafted", "sent", "viewed", "signed", "declined", "cancelled"}
Away == [op |-> "none", request |-> NoRow, doc |-> NoRow, to |-> "drafted", completes |-> FALSE]
Visit == [op : {"none", "create", "move", "sign", "filed", "flushed"},
          request : Requests \union {NoRow},
          doc : Docs \union {NoRow},
          to : EnvelopeStatuses,
          completes : BOOLEAN]

TypeOK ==
    /\ DocTypeOK
    /\ envelope \in [Requests -> EnvelopeStatuses \union {"absent"}]
    /\ marks \in [Requests -> SUBSET EnvelopeStatuses]
    /\ subject \in [Requests -> Docs \union {NoRow}]
    /\ erased \in [Requests -> BOOLEAN]
    /\ evidence \in SUBSET Requests
    /\ clerk \in [Clerks -> Visit]
    /\ visits \in 0..MaxVisits

Init ==
    /\ DocInit
    /\ envelope = [r \in Requests |-> "absent"]
    /\ marks = [r \in Requests |-> {}]
    /\ subject = [r \in Requests |-> NoRow]
    /\ erased = [r \in Requests |-> FALSE]
    /\ evidence = {}
    /\ clerk = [k \in Clerks |-> Away]
    /\ visits = 0

\* What _get_request_or_404 and _get_request_by_token find.
Found(r) == envelope[r] # "absent" /\ ~erased[r]

Arrive(k, visit) ==
    /\ clerk[k] = Away
    /\ visits < MaxVisits
    /\ clerk' = [clerk EXCEPT ![k] = visit]
    /\ visits' = visits + 1
    /\ UNCHANGED <<docVars, signatureVars>>

Leave(k) == clerk' = [clerk EXCEPT ![k] = Away] /\ UNCHANGED visits

\* A signature's UPDATE is flushed before its document is read: the row of the
\* request is locked from there to the end of the transaction.
RowLocked(r) == \E k \in Clerks : clerk[k].op = "flushed" /\ clerk[k].request = r

-----------------------------------------------------------------------------
(* Creation.                                                               *)

\* Mutant: a request may be raised on a document that is still a draft.
ReadForCreateUnchecked(k, d) ==
    /\ Live(d)
    /\ Arrive(k, [Away EXCEPT !.op = "create", !.doc = d])

\* Only a sent document can be sent for signature.
ReadForCreate(k, d) ==
    /\ Live(d)
    /\ status[d] = "sent"
    /\ Arrive(k, [Away EXCEPT !.op = "create", !.doc = d])

CommitRequest(k, r) ==
    /\ clerk[k].op = "create"
    /\ envelope[r] = "absent"
    /\ envelope' = [envelope EXCEPT ![r] = "drafted"]
    /\ subject' = [subject EXCEPT ![r] = clerk[k].doc]
    /\ Leave(k)
    /\ UNCHANGED <<docVars, marks, erased, evidence>>

-----------------------------------------------------------------------------
(* Everything but signing: send, cancel, view, decline.                    *)

Cancellable == {"drafted", "sent", "viewed"}
OpenForSigner == {"sent", "viewed"}

\* Mutant: the signer's routes do not ask whether the envelope is out.
EnvelopeMovesUnchecked ==
    {<<"drafted", "sent">>, <<"drafted", "viewed">>, <<"sent", "viewed">>}
       \union (Cancellable \X {"cancelled", "declined"})

\* What a route, or a webhook event, may turn a request into.
EnvelopeMoves ==
    {<<"drafted", "sent">>, <<"sent", "viewed">>}
       \union (Cancellable \X {"cancelled"})
       \union (OpenForSigner \X {"declined"})

ReadForEnvelope(k, r, to) ==
    /\ Found(r)
    /\ <<envelope[r], to>> \in EnvelopeMoves
    /\ Arrive(k, [Away EXCEPT !.op = "move", !.request = r, !.to = to])

\* There is a timestamp column for each of these but cancelled.
CommitEnvelope(k) ==
    LET r == clerk[k].request
        to == clerk[k].to IN
    /\ clerk[k].op = "move"
    /\ ~RowLocked(r)
    /\ envelope' = [envelope EXCEPT ![r] = to]
    /\ marks' = [marks EXCEPT ![r] = @ \union ({to} \ {"cancelled"})]
    /\ Leave(k)
    /\ UNCHANGED <<docVars, subject, erased, evidence>>

DeleteRequest(r) ==
    /\ Found(r)
    /\ ~RowLocked(r)
    /\ erased' = [erased EXCEPT ![r] = TRUE]
    /\ UNCHANGED <<docVars, envelope, marks, subject, evidence, clerkVars>>

-----------------------------------------------------------------------------
(* Signing: submit_signature, or the webhook's `signed`.                   *)

ReadForSign(k, r) ==
    /\ Found(r)
    /\ envelope[r] \in OpenForSigner
    /\ Arrive(k, [Away EXCEPT !.op = "sign", !.request = r, !.doc = subject[r], !.to = "signed"])

\* Mutant: a failing upload is passed over.
StoreArtifactOrNot(k) ==
    /\ clerk[k].op = "sign"
    /\ clerk' = [clerk EXCEPT ![k].op = "filed"]
    /\ UNCHANGED <<docVars, signatureVars, visits>>

\* store_signature_artifact puts the audit trail into S3.
StoreArtifact(k) ==
    /\ clerk[k].op = "sign"
    /\ evidence' = evidence \union {clerk[k].request}
    /\ clerk' = [clerk EXCEPT ![k].op = "filed"]
    /\ UNCHANGED <<docVars, envelope, marks, subject, erased, visits>>

\* Mutant: the signature leaves its document alone.
FlushSignatureBlind(k) ==
    /\ clerk[k].op = "filed"
    /\ ~RowLocked(clerk[k].request)
    /\ clerk' = [clerk EXCEPT ![k].op = "flushed"]
    /\ UNCHANGED <<docVars, signatureVars, visits>>

\* _maybe_accept_quote or _maybe_sign_contract reads the document, which makes
\* the session flush the request's new status first.
FlushSignature(k) ==
    LET d == clerk[k].doc IN
    /\ clerk[k].op = "filed"
    /\ ~RowLocked(clerk[k].request)
    /\ clerk' = [clerk EXCEPT ![k].op = "flushed", ![k].completes = Live(d) /\ status[d] = "sent"]
    /\ UNCHANGED <<docVars, signatureVars, visits>>

\* A signed quote is an acceptance, a signed contract is signed.
Outcome(d) == IF d \in Quotes THEN "accepted" ELSE "signed"

CompleteDocument(d) ==
    /\ status' = [status EXCEPT ![d] = Outcome(d)]
    /\ reached' = [reached EXCEPT ![d] = @ \union {Outcome(d)}]
    /\ UNCHANGED <<deleted, number, version, superseded, origin, amended, undone, handler, requests>>

CommitSignature(k) ==
    LET r == clerk[k].request IN
    /\ clerk[k].op = "flushed"
    /\ envelope' = [envelope EXCEPT ![r] = "signed"]
    /\ marks' = [marks EXCEPT ![r] = @ \union {"signed"}]
    /\ IF clerk[k].completes THEN CompleteDocument(clerk[k].doc) ELSE UNCHANGED docVars
    /\ Leave(k)
    /\ UNCHANGED <<subject, erased, evidence>>

\* The request ends without a commit; what is in S3 stays there.
Withdraw(k) ==
    /\ clerk[k] # Away
    /\ Leave(k)
    /\ UNCHANGED <<docVars, signatureVars>>

SignatureNext ==
    \/ \E k \in Clerks, d \in Docs : ReadForCreate(k, d)
    \/ \E k \in Clerks, r \in Requests : CommitRequest(k, r) \/ ReadForSign(k, r)
    \/ \E k \in Clerks, r \in Requests, to \in EnvelopeStatuses : ReadForEnvelope(k, r, to)
    \/ \E k \in Clerks : CommitEnvelope(k) \/ StoreArtifact(k) \/ FlushSignature(k)
                         \/ CommitSignature(k) \/ Withdraw(k)
    \/ \E r \in Requests : DeleteRequest(r)

DocumentStep == DocNext /\ UNCHANGED <<signatureVars, clerkVars>>

Next == DocumentStep \/ SignatureNext

Spec == Init /\ [][Next]_vars

-----------------------------------------------------------------------------
(* Properties.                                                             *)

\* A request out for signature was sent, on a document that was sent: however
\* its status is overwritten, its timestamps and the document's tell so.
EnvelopePath ==
    \A r \in Requests :
       /\ envelope[r] # "absent" => subject[r] # NoRow /\ "sent" \in reached[subject[r]]
       /\ envelope[r] \in marks[r] \union {"absent", "drafted", "cancelled"}
       /\ marks[r] # {} => "sent" \in marks[r]

\* A committed signature has its audit trail in S3, wherever the request that
\* made it, or another one for the same envelope, was interrupted.
SignedHasEvidence == \A r \in Requests : "signed" \in marks[r] => r \in evidence

\* A signature decides its document, or finds it decided or deleted: no live
\* document reads as waiting for its customer although one of its requests is
\* signed, except one whose decision a send overwrote, which had read the draft
\* before it was first sent (OnlyLegalTransitions shows that one).
SignedDecides ==
    \A r \in Requests :
       "signed" \in marks[r] => LET d == subject[r] IN
                               deleted[d] \/ status[d] \notin Undecided \/ undone[d] > 0
=============================================================================
