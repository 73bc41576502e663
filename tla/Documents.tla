------------------------------ MODULE Documents ------------------------------
(***************************************************************************)
(* Quotes and contracts (app/api/quotes.py, app/api/contracts.py): their   *)
(* status machines, their revision chains and their numbers.               *)
(*                                                                         *)
(* A route is one READ COMMITTED transaction.  It SELECTs the row without  *)
(* a lock, checks its status, assigns attributes and commits; the UPDATE   *)
(* names the row by its key alone.  So a route here is a read, which       *)
(* checks, and a commit, which does not check again; what other routes do  *)
(* in between is the point of this module.  Only the numbering of a new    *)
(* row is serialised, by an advisory lock of its transaction.              *)
(***************************************************************************)
EXTENDS Integers, FiniteSets

CONSTANTS Quotes,    \* rows that the quotes table may hold
          Contracts, \* rows that the contracts table may hold
          Handlers,  \* requests served at the same time
          MaxRequests, \* bound: requests served
          NoRow

ASSUME DocumentsAssumption ==
    /\ Quotes \intersect Contracts = {}
    /\ NoRow \notin Quotes \union Contracts
    /\ IsFiniteSet(Handlers) /\ Handlers # {}
    /\ MaxRequests \in Nat

VARIABLES
    status,     \* absent until the row is inserted
    reached,    \* the statuses whose timestamp column is set (sent_at, ...)
    deleted,    \* deleted_at is set
    number, version,
    superseded, \* superseded_by
    origin,     \* history: the quote whose terms create_contract_from_quote copied
                \* (not the column quote_id, which POST and PATCH set to any quote)
    amended,    \* how often the terms changed after the row left draft
    undone,     \* how often a send overwrote a decision of the row
    handler,    \* what a request has read so far
    requests

rowVars == <<status, reached, deleted, number, version, superseded, origin, amended,
             undone>>
docVars == <<rowVars, handler, requests>>

Docs == Quotes \union Contracts
Statuses == {"draft", "sent", "accepted", "declined", "signed", "active", "terminated"}
Table(d) == IF d \in Quotes THEN Quotes ELSE Contracts

Idle == [op |-> "none", doc |-> NoRow, to |-> "draft", table |-> {}, number |-> 0, version |-> 0]
Task == [op : {"none", "update", "move", "resend", "create"},
         doc : Docs \union {NoRow},
         to : Statuses,
         table : {{}, Quotes, Contracts},
         number : Nat,
         version : Nat]

DocTypeOK ==
    /\ status \in [Docs -> Statuses \union {"absent"}]
    /\ reached \in [Docs -> SUBSET Statuses]
    /\ deleted \in [Docs -> BOOLEAN]
    /\ number \in [Docs -> Nat]
    /\ version \in [Docs -> Nat]
    /\ superseded \in [Docs -> Docs \union {NoRow}]
    /\ origin \in [Docs -> Quotes \union {NoRow}]
    /\ amended \in [Docs -> Nat]
    /\ undone \in [Docs -> Nat]
    /\ handler \in [Handlers -> Task]
    /\ requests \in 0..MaxRequests

DocInit ==
    /\ status = [d \in Docs |-> "absent"]
    /\ reached = [d \in Docs |-> {}]
    /\ deleted = [d \in Docs |-> FALSE]
    /\ number = [d \in Docs |-> 0]
    /\ version = [d \in Docs |-> 0]
    /\ superseded = [d \in Docs |-> NoRow]
    /\ origin = [d \in Docs |-> NoRow]
    /\ amended = [d \in Docs |-> 0]
    /\ undone = [d \in Docs |-> 0]
    /\ handler = [h \in Handlers |-> Idle]
    /\ requests = 0

Exists(d) == status[d] # "absent"
\* What _get_quote_or_404 and _get_contract_or_404 find.
Live(d) == Exists(d) /\ ~deleted[d]

Begin(h, task) ==
    /\ handler[h] = Idle
    /\ requests < MaxRequests
    /\ handler' = [handler EXCEPT ![h] = task]
    /\ requests' = requests + 1
    /\ UNCHANGED rowVars

Finish(h) == handler' = [handler EXCEPT ![h] = Idle] /\ UNCHANGED requests

-----------------------------------------------------------------------------
(* The status machines.                                                    *)

QuoteMoves == {<<"draft", "sent">>, <<"sent", "accepted">>, <<"sent", "declined">>}
ContractMoves == {<<"draft", "sent">>, <<"sent", "signed">>, <<"signed", "active">>,
                  <<"signed", "terminated">>, <<"active", "terminated">>}
Moves(d) == IF d \in Quotes THEN QuoteMoves ELSE ContractMoves
Undecided == {"absent", "draft", "sent"}

\* Mutant: the status check of the transition is missing.
ReadForMoveUnchecked(h, d, to) ==
    /\ Live(d)
    /\ \E from \in Statuses : <<from, to>> \in Moves(d)
    /\ Begin(h, [Idle EXCEPT !.op = "move", !.doc = d, !.to = to])

\* send, accept, decline, sign, activate, terminate: the row and its check.
ReadForMove(h, d, to) ==
    /\ Live(d)
    /\ <<status[d], to>> \in Moves(d)
    /\ Begin(h, [Idle EXCEPT !.op = "move", !.doc = d, !.to = to])

\* The status and its timestamp, whatever the row holds by now.
CommitMove(h) ==
    LET d == handler[h].doc
        to == handler[h].to IN
    /\ handler[h].op = "move"
    /\ status' = [status EXCEPT ![d] = to]
    /\ reached' = [reached EXCEPT ![d] = @ \union {to}]
    /\ undone' = [undone EXCEPT ![d] = IF to = "sent" /\ status[d] \notin Undecided
                                      THEN @ + 1 ELSE @]
    /\ Finish(h)
    /\ UNCHANGED <<deleted, number, version, superseded, origin, amended>>

\* Mutant: _require_draft is not called.
ReadForUpdateUnchecked(h, d) ==
    /\ Live(d)
    /\ Begin(h, [Idle EXCEPT !.op = "update", !.doc = d])

\* PATCH and apply-template, after _require_draft.
ReadForUpdate(h, d) ==
    /\ Live(d)
    /\ status[d] = "draft"
    /\ Begin(h, [Idle EXCEPT !.op = "update", !.doc = d])

CommitUpdate(h) ==
    LET d == handler[h].doc IN
    /\ handler[h].op = "update"
    /\ amended' = [amended EXCEPT ![d] = IF status[d] = "draft" THEN @ ELSE @ + 1]
    /\ Finish(h)
    /\ UNCHANGED <<status, reached, deleted, number, version, superseded, origin, undone>>

\* Soft delete, in any status.  One step: a second delete in between would
\* write the same thing.
Delete(d) ==
    /\ Live(d)
    /\ deleted' = [deleted EXCEPT ![d] = TRUE]
    /\ UNCHANGED <<status, reached, number, version, superseded, origin, amended, undone,
                   handler, requests>>

-----------------------------------------------------------------------------
(* New rows: create, create from a quote, resend.                          *)

Highest(n, values) == n \in values /\ \A v \in values : v <= n

\* Mutant: the highest number is looked for among the live rows.
LastNumberOfLive(table, n) == Highest(n, {0} \union {number[d] : d \in {x \in table : Live(x)}})

\* next_quote_number, next_contract_number: soft-deleted rows count.
LastNumber(table, n) == Highest(n, {0} \union {number[d] : d \in table})

\* pg_advisory_xact_lock, held to the end of the creating transaction.
LockHolders(table) == {h \in Handlers : handler[h].op = "create" /\ handler[h].table = table
                                        /\ handler[h].number # 0}

\* Mutant: the quote's status is not checked.
ReadForContractUnchecked(h, q) ==
    /\ q \in Quotes
    /\ Live(q)
    /\ Begin(h, [Idle EXCEPT !.op = "create", !.doc = q, !.table = Contracts])

\* The quote of create_contract_from_quote, read before the lock is taken.
ReadForContract(h, q) ==
    /\ q \in Quotes
    /\ Live(q)
    /\ status[q] = "accepted"
    /\ Begin(h, [Idle EXCEPT !.op = "create", !.doc = q, !.table = Contracts])

BeginCreate(h, table) == Begin(h, [Idle EXCEPT !.op = "create", !.table = table])

\* Mutant: the number is taken without the lock.
TakeNumberUnlocked(h) ==
    /\ handler[h].op = "create"
    /\ handler[h].number = 0
    /\ \E n \in {0} \union {number[d] : d \in Docs} :
          /\ LastNumber(handler[h].table, n)
          /\ handler' = [handler EXCEPT ![h].number = n + 1, ![h].version = 1]
    /\ UNCHANGED <<rowVars, requests>>

\* The lock, then the number.
TakeNumber(h) ==
    /\ handler[h].op = "create"
    /\ handler[h].number = 0
    /\ LockHolders(handler[h].table) = {}
    /\ \E n \in {0} \union {number[d] : d \in Docs} :
          /\ LastNumber(handler[h].table, n)
          /\ handler' = [handler EXCEPT ![h].number = n + 1, ![h].version = 1]
    /\ UNCHANGED <<rowVars, requests>>

ReadForResend(h, d) ==
    /\ Live(d)
    /\ status[d] # "draft"
    /\ Begin(h, [Idle EXCEPT !.op = "resend", !.doc = d, !.table = Table(d),
                             !.number = number[d]])

Revisions(table, n) == {d \in table : Exists(d) /\ number[d] = n}

\* max(version) of the number, over soft-deleted rows too, and no lock.
TakeVersion(h) ==
    /\ handler[h].op = "resend"
    /\ handler[h].version = 0
    /\ \E v \in {version[d] : d \in Docs} :
          /\ Highest(v, {version[d] : d \in Revisions(handler[h].table, handler[h].number)})
          /\ handler' = [handler EXCEPT ![h].version = v + 1]
    /\ UNCHANGED <<rowVars, requests>>

\* The unique index on (organization_id, number, version) WHERE deleted_at IS
\* NULL: an INSERT that collides with a live row fails.
IndexAdmits(table, n, v) == \A d \in Revisions(table, n) : Live(d) => version[d] # v

\* The INSERT of the row d, a draft.
InsertRow(h, d) ==
    LET task == handler[h] IN
    /\ d \in task.table
    /\ ~Exists(d)
    /\ task.version # 0
    /\ IndexAdmits(task.table, task.number, task.version)
    /\ status' = [status EXCEPT ![d] = "draft"]
    /\ number' = [number EXCEPT ![d] = task.number]
    /\ version' = [version EXCEPT ![d] = task.version]
    /\ Finish(h)
    /\ UNCHANGED <<reached, deleted, amended, undone>>

CommitCreate(h, d) ==
    /\ handler[h].op = "create"
    /\ InsertRow(h, d)
    /\ origin' = [origin EXCEPT ![d] = handler[h].doc]
    /\ UNCHANGED superseded

\* Mutant: the pointer is written on the wrong one of the two rows.
CommitResendSwapped(h, d) ==
    LET old == handler[h].doc IN
    /\ handler[h].op = "resend"
    /\ InsertRow(h, d)
    /\ origin' = [origin EXCEPT ![d] = origin[old]]
    /\ superseded' = [superseded EXCEPT ![d] = old]

CommitResend(h, d) ==
    LET old == handler[h].doc IN
    /\ handler[h].op = "resend"
    /\ InsertRow(h, d)
    /\ origin' = [origin EXCEPT ![d] = origin[old]]
    /\ superseded' = [superseded EXCEPT ![old] = d]

\* The request ends without a commit: an HTTPException after the read (a quote
\* without line items, a missing template), a unique violation, a crash.
Abandon(h) ==
    /\ handler[h] # Idle
    /\ Finish(h)
    /\ UNCHANGED rowVars

DocNext ==
    \/ \E h \in Handlers, d \in Docs, to \in Statuses : ReadForMove(h, d, to)
    \/ \E h \in Handlers, d \in Docs : ReadForUpdate(h, d) \/ ReadForResend(h, d)
    \/ \E h \in Handlers, q \in Quotes : ReadForContract(h, q)
    \/ \E h \in Handlers, table \in {Quotes, Contracts} : BeginCreate(h, table)
    \/ \E h \in Handlers : TakeNumber(h) \/ TakeVersion(h)
    \/ \E h \in Handlers : CommitMove(h) \/ CommitUpdate(h) \/ Abandon(h)
    \/ \E h \in Handlers, d \in Docs : CommitCreate(h, d) \/ CommitResend(h, d)
    \/ \E d \in Docs : Delete(d)

DocSpec == DocInit /\ [][DocNext]_docVars

-----------------------------------------------------------------------------
(* Properties.                                                             *)

\* The timestamps tell the path: whatever races overwrite the status column,
\* no document is accepted, declined or signed that was never sent, and no
\* contract is active or terminated that was never signed.
StampsTellPath ==
    \A d \in Docs :
       /\ status[d] \in reached[d] \union {"absent", "draft"}
       /\ reached[d] # {} => "sent" \in reached[d]
       /\ reached[d] \intersect {"active", "terminated"} # {} => "signed" \in reached[d]

\* A number is handed out once: two rows that were created, and not re-issued,
\* have different numbers, although the index forgets deleted rows.
NumbersNeverReused ==
    \A c, d \in Docs : /\ Table(c) = Table(d)
                       /\ Exists(c) /\ Exists(d)
                       /\ version[c] = 1 /\ version[d] = 1
                       /\ number[c] = number[d]
                       => c = d

\* The versions of a number have no gap.
VersionsDense ==
    \A d \in Docs : Exists(d) =>
       \A v \in 1..version[d] : \E c \in Revisions(Table(d), number[d]) : version[c] = v

\* superseded_by leads to a later revision of the same number, so that a chain
\* of revisions never turns back.
PointsForward ==
    \A d \in Docs : superseded[d] # NoRow =>
       LET new == superseded[d] IN
       /\ Exists(new)
       /\ Table(new) = Table(d)
       /\ number[new] = number[d]
       /\ version[new] > version[d]

\* The revisions of a document are a chain without a gap that never turns back.
RevisionsChained == VersionsDense /\ PointsForward

\* The terms that create_contract_from_quote copied, and a resend copied again,
\* are those of a quote that was accepted.
ContractFromAccepted ==
    \A d \in Docs : origin[d] # NoRow => "accepted" \in reached[origin[d]]

\* After a document has left draft, its terms change, and an acceptance or
\* another decision is overwritten by a send, only through requests that were
\* already running when it left: there are fewer of both together than handlers.
AmendmentsBounded == \A d \in Docs : amended[d] + undone[d] < Cardinality(Handlers)
=============================================================================
