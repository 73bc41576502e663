-------------------------- MODULE Signatures_proofs --------------------------
(***************************************************************************)
(* Theorems about Documents, and about Signatures on top of them.          *)
(*                                                                         *)
(* The inductive invariant of the documents adds to the properties what a  *)
(* request relies on between its read and its commit: rows are never       *)
(* removed, their numbers and versions never change, a timestamp is never  *)
(* cleared, and the creator that holds the lock has a number above every   *)
(* row of its table.  That of the signatures adds that nothing leads back  *)
(* to draft and that a decision, once there, stays.                        *)
(***************************************************************************)
EXTENDS Signatures, FiniteSetTheorems, TLAPS

RowsOK ==
    \A d \in Docs :
       /\ ~Exists(d) => /\ reached[d] = {} /\ superseded[d] = NoRow /\ origin[d] = NoRow
                        /\ number[d] = 0 /\ version[d] = 0
       /\ Exists(d) => number[d] > 0 /\ version[d] > 0

\* A move, update or re-issue works on a row that is there.
MoveOK(t) ==
    /\ t.doc \in Docs /\ Exists(t.doc)
    /\ \E from \in reached[t.doc] \union {"draft"} : <<from, t.to>> \in Moves(t.doc)

ResendOK(t) ==
    /\ t.doc \in Docs /\ Exists(t.doc)
    /\ t.table = Table(t.doc) /\ t.number = number[t.doc]
    /\ t.version # 0 => t.version > version[t.doc]
    /\ \A v \in 1..(t.version - 1) : \E c \in Revisions(t.table, t.number) : version[c] = v

CreateOK(t) ==
    /\ t.table \in {Quotes, Contracts}
    /\ t.doc # NoRow => t.doc \in Quotes /\ "accepted" \in reached[t.doc]
    /\ t.version = IF t.number = 0 THEN 0 ELSE 1
    /\ t.number # 0 => \A d \in t.table : number[d] < t.number

TaskOK(t) ==
    /\ t.op = "move" => MoveOK(t)
    /\ t.op = "update" => t.doc \in Docs /\ Exists(t.doc)
    /\ t.op = "resend" => ResendOK(t)
    /\ t.op = "create" => CreateOK(t)

HandlersOK == \A h \in Handlers : TaskOK(handler[h])

OneCreator ==
    \A g, h \in Handlers : /\ handler[g].op = "create" /\ handler[h].op = "create"
                           /\ handler[g].table = handler[h].table
                           /\ handler[g].number # 0 /\ handler[h].number # 0
                           => g = h

RowInv == /\ RowsOK /\ StampsTellPath /\ PointsForward /\ ContractFromAccepted
          /\ NumbersNeverReused /\ VersionsDense

DocInv == DocTypeOK /\ RowInv /\ HandlersOK /\ OneCreator

-----------------------------------------------------------------------------
LEMMA TableFacts ==
  ASSUME NEW d \in Docs
  PROVE  /\ Table(d) \in {Quotes, Contracts}
         /\ d \in Table(d)
         /\ Table(d) \subseteq Docs
         /\ \A c \in Docs : c \in Table(d) <=> Table(c) = Table(d)
BY DocumentsAssumption DEF Table, Docs

LEMMA TaskShape ==
  ASSUME NEW t \in Task
  PROVE  /\ t.op \in {"none", "update", "move", "resend", "create"}
         /\ t.doc \in Docs \union {NoRow}
         /\ t.to \in Statuses
         /\ t.table \in {{}, Quotes, Contracts}
         /\ t.number \in Nat
         /\ t.version \in Nat
BY DEF Task

LEMMA InitInv == DocInit => DocInv
<1> SUFFICES ASSUME DocInit PROVE DocInv
  OBVIOUS
<1> USE DEF DocInit
<1>1. DocTypeOK
  BY DocumentsAssumption DEF DocTypeOK, Idle, Task, Statuses
<1>2. \A d \in Docs : ~Exists(d)
  BY DEF Exists
<1>3. RowsOK
  BY <1>2 DEF RowsOK
<1>4. StampsTellPath
  BY DEF StampsTellPath
<1>5. PointsForward /\ ContractFromAccepted
  BY DEF PointsForward, ContractFromAccepted
<1>6. NumbersNeverReused /\ VersionsDense
  BY <1>2 DEF NumbersNeverReused, VersionsDense, Live
<1>7. HandlersOK /\ OneCreator
  BY DEF HandlersOK, TaskOK, OneCreator, Idle
<1> QED
  BY <1>1, <1>3, <1>4, <1>5, <1>6, <1>7 DEF DocInv, RowInv

\* A step that leaves the rows alone.
LEMMA RowsStutter == RowInv /\ UNCHANGED rowVars => RowInv'
<1> SUFFICES ASSUME RowInv, UNCHANGED rowVars PROVE RowInv'
  OBVIOUS
<1> USE DEF rowVars, RowInv, Exists, Live
<1>1. RowsOK' /\ StampsTellPath'
  BY DEF RowsOK, StampsTellPath
<1>2. PointsForward' /\ ContractFromAccepted'
  BY DEF PointsForward, ContractFromAccepted
<1>3. NumbersNeverReused'
  BY DEF NumbersNeverReused
<1>4. VersionsDense'
  BY DEF VersionsDense, Revisions
<1> QED
  BY <1>1, <1>2, <1>3, <1>4


\* What a task needs survives a step that keeps the rows that are there, with
\* their numbers, versions and timestamps.
RowsKept ==
    \A d \in Docs :
       /\ reached[d] \subseteq reached'[d]
       /\ Exists(d) => Exists(d)' /\ number'[d] = number[d] /\ version'[d] = version[d]

LEMMA TaskKept ==
  ASSUME RowsKept, NEW t, TaskOK(t),
         t.op = "create" => \A d \in t.table : t.number # 0 => number'[d] < t.number
  PROVE  TaskOK(t)'
<1>1. CASE t.op = "move"
  BY <1>1 DEF TaskOK, MoveOK, Moves, RowsKept
<1>2. CASE t.op = "update"
  BY <1>2 DEF TaskOK, RowsKept
<1>3. CASE t.op = "resend"
  <2>1. /\ t.doc \in Docs /\ Exists(t.doc) /\ t.table = Table(t.doc) /\ t.number = number[t.doc]
        /\ (t.version # 0 => t.version > version[t.doc])
    BY <1>3 DEF TaskOK, ResendOK
  <2>2. t.table \subseteq Docs
    BY <2>1, TableFacts
  <2>3. \A v \in 1..(t.version - 1) : \E c \in t.table : Exists(c) /\ number[c] = t.number /\ version[c] = v
    BY <1>3 DEF TaskOK, ResendOK, Revisions
  <2>4. \A v \in 1..(t.version - 1) : \E c \in t.table : Exists(c)' /\ number'[c] = t.number /\ version'[c] = v
    BY <2>2, <2>3 DEF RowsKept
  <2>5. \A v \in 1..(t.version - 1) : \E c \in Revisions(t.table, t.number)' : version'[c] = v
    BY <2>4 DEF Revisions
  <2>6. /\ Exists(t.doc)' /\ t.number = number'[t.doc]
        /\ (t.version # 0 => t.version > version'[t.doc])
    BY <2>1 DEF RowsKept
  <2> QED
    BY <1>3, <2>1, <2>5, <2>6 DEF TaskOK, ResendOK
<1>4. CASE t.op = "create"
  BY <1>4 DEF TaskOK, CreateOK, RowsKept, Docs
<1> QED
  BY <1>1, <1>2, <1>3, <1>4 DEF TaskOK

\* What is sound for a task is sound for the handler that holds it next.
LEMMA TaskHeld ==
  ASSUME NEW g \in Handlers, NEW t, handler'[g] = t, TaskOK(t)'
  PROVE  TaskOK(handler[g])'
BY DEF TaskOK, MoveOK, ResendOK, CreateOK, Exists, Revisions, Table, Moves

\* A request that reads: its task is sound, and it has taken no number yet.
LEMMA BeginInv ==
  ASSUME DocInv, NEW h \in Handlers, NEW t \in Task, Begin(h, t), TaskOK(t),
         t.op = "create" => t.number = 0
  PROVE  DocInv'
<1> USE DEF Begin
<1>1. DocTypeOK'
  BY DocumentsAssumption DEF DocInv, DocTypeOK, rowVars
<1>2. RowInv'
  BY RowsStutter DEF DocInv
<1>3. RowsKept
  BY DEF RowsKept, rowVars, Exists
<1>4. \A g \in Handlers : handler'[g] = IF g = h THEN t ELSE handler[g]
  BY DEF DocInv, DocTypeOK
<1>5. ASSUME NEW g \in Handlers PROVE TaskOK(handler[g])'
  <2>1. PICK u : u = handler'[g]
    OBVIOUS
  <2>2. TaskOK(u) /\ (u.op = "create" => \A d \in u.table : u.number # 0 => number[d] < u.number)
    BY <1>4, <2>1 DEF DocInv, HandlersOK, TaskOK, CreateOK
  <2>3. TaskOK(u)'
    BY <1>3, <2>2, TaskKept DEF rowVars
  <2> QED
    BY <2>1, <2>3, TaskHeld
<1>6. OneCreator'
  BY <1>4 DEF DocInv, OneCreator
<1> QED
  BY <1>1, <1>2, <1>5, <1>6 DEF DocInv, HandlersOK

LEMMA ReadsInv ==
  ASSUME DocInv, NEW h \in Handlers
  PROVE  /\ \A d \in Docs, to \in Statuses : ReadForMove(h, d, to) => DocInv'
         /\ \A d \in Docs : ReadForUpdate(h, d) \/ ReadForResend(h, d) => DocInv'
         /\ \A q \in Quotes : ReadForContract(h, q) => DocInv'
         /\ \A table \in {Quotes, Contracts} : BeginCreate(h, table) => DocInv'
<1> USE DEF Live
<1>1. ASSUME NEW d \in Docs, NEW to \in Statuses, ReadForMove(h, d, to) PROVE DocInv'
  <2> DEFINE t == [Idle EXCEPT !.op = "move", !.doc = d, !.to = to]
  <2>1. t \in Task /\ t.op = "move" /\ t.doc = d /\ t.to = to
    BY DEF Idle, Task, Docs
  <2>2. status[d] \in reached[d] \union {"draft"}
    BY <1>1 DEF DocInv, RowInv, StampsTellPath, ReadForMove, Exists
  <2>3. MoveOK(t)
    BY <1>1, <2>1, <2>2 DEF ReadForMove, MoveOK
  <2>4. TaskOK(t)
    BY <2>1, <2>3 DEF TaskOK
  <2> QED
    BY <1>1, <2>1, <2>4, BeginInv DEF ReadForMove
<1>2. ASSUME NEW d \in Docs, ReadForUpdate(h, d) PROVE DocInv'
  <2> DEFINE t == [Idle EXCEPT !.op = "update", !.doc = d]
  <2>1. t \in Task /\ t.op = "update" /\ t.doc = d
    BY DEF Idle, Task, Docs, Statuses
  <2>2. TaskOK(t)
    BY <1>2, <2>1 DEF TaskOK, ReadForUpdate
  <2> QED
    BY <1>2, <2>1, <2>2, BeginInv DEF ReadForUpdate
<1>3. ASSUME NEW d \in Docs, ReadForResend(h, d) PROVE DocInv'
  <2> DEFINE t == [Idle EXCEPT !.op = "resend", !.doc = d, !.table = Table(d), !.number = number[d]]
  <2>1. /\ t \in Task /\ t.op = "resend" /\ t.doc = d
        /\ t.table = Table(d) /\ t.number = number[d] /\ t.version = 0
    BY TableFacts DEF Idle, Task, Docs, Statuses, DocInv, DocTypeOK
  <2>2. ResendOK(t)
    BY <1>3, <2>1 DEF ResendOK, ReadForResend
  <2>3. TaskOK(t)
    BY <2>1, <2>2 DEF TaskOK
  <2> QED
    BY <1>3, <2>1, <2>3, BeginInv DEF ReadForResend
<1>4. ASSUME NEW q \in Quotes, ReadForContract(h, q) PROVE DocInv'
  <2> DEFINE t == [Idle EXCEPT !.op = "create", !.doc = q, !.table = Contracts]
  <2>1. /\ t \in Task /\ t.op = "create" /\ t.doc = q
        /\ t.table = Contracts /\ t.number = 0 /\ t.version = 0
    BY DEF Idle, Task, Docs, Statuses
  <2>2. "accepted" \in reached[q]
    BY <1>4 DEF ReadForContract, DocInv, RowInv, StampsTellPath, Docs
  <2>3. TaskOK(t)
    BY <2>1, <2>2 DEF TaskOK, CreateOK
  <2> QED
    BY <1>4, <2>1, <2>3, BeginInv DEF ReadForContract
<1>5. ASSUME NEW table \in {Quotes, Contracts}, BeginCreate(h, table) PROVE DocInv'
  <2> DEFINE t == [Idle EXCEPT !.op = "create", !.table = table]
  <2>1. /\ t \in Task /\ t.op = "create" /\ t.doc = NoRow
        /\ t.table = table /\ t.number = 0 /\ t.version = 0
    BY DEF Idle, Task, Statuses
  <2>2. TaskOK(t)
    BY <2>1 DEF TaskOK, CreateOK
  <2> QED
    BY <1>5, <2>1, <2>2, BeginInv DEF BeginCreate
<1> QED
  BY <1>1, <1>2, <1>3, <1>4, <1>5

\* A request that ends, with or without a commit that keeps the rows.
LEMMA FinishInv ==
  ASSUME DocInv, RowsKept, NEW h \in Handlers, handler' = [handler EXCEPT ![h] = Idle],
         \A g \in Handlers \ {h} : handler[g].op = "create" /\ handler[g].number # 0
            => \A d \in handler[g].table : number'[d] < handler[g].number
  PROVE  HandlersOK' /\ OneCreator' /\ handler' \in [Handlers -> Task]
<1>1. \A g \in Handlers : handler'[g] = IF g = h THEN Idle ELSE handler[g]
  BY DEF DocInv, DocTypeOK
<1>2. Idle \in Task /\ Idle.op = "none"
  BY DEF Idle, Task, Statuses
<1>3. handler' \in [Handlers -> Task]
  BY <1>2 DEF DocInv, DocTypeOK
<1>4. ASSUME NEW g \in Handlers PROVE TaskOK(handler[g])'
  <2>1. PICK u : u = handler'[g]
    OBVIOUS
  <2>2. TaskOK(u) /\ (u.op = "create" => \A d \in u.table : u.number # 0 => number'[d] < u.number)
    BY <1>1, <1>2, <2>1 DEF DocInv, HandlersOK, TaskOK
  <2>3. TaskOK(u)'
    BY <2>2, TaskKept
  <2> QED
    BY <2>1, <2>3, TaskHeld
<1>5. OneCreator'
  BY <1>1, <1>2 DEF DocInv, OneCreator
<1> QED
  BY <1>3, <1>4, <1>5 DEF HandlersOK

\* The same, when no number changes.
LEMMA FinishSame ==
  ASSUME DocInv, RowsKept, NEW h \in Handlers, handler' = [handler EXCEPT ![h] = Idle],
         number' = number
  PROVE  HandlersOK' /\ OneCreator' /\ handler' \in [Handlers -> Task]
<1>1. \A g \in Handlers \ {h} : handler[g].op = "create" /\ handler[g].number # 0
            => \A d \in handler[g].table : number'[d] < handler[g].number
  BY DEF DocInv, HandlersOK, TaskOK, CreateOK
<1> QED
  BY <1>1, FinishInv

LEMMA AbandonInv ==
  ASSUME DocInv, NEW h \in Handlers, Abandon(h)
  PROVE  DocInv'
<1>1. RowInv' /\ RowsKept
  BY RowsStutter DEF Abandon, DocInv, RowsKept, rowVars, Exists
<1>2. HandlersOK' /\ OneCreator' /\ handler' \in [Handlers -> Task]
  BY <1>1, FinishSame DEF Abandon, Finish, rowVars
<1> QED
  BY <1>1, <1>2 DEF DocInv, DocTypeOK, Abandon, Finish, rowVars

\* A request that takes a number or a version.
LEMMA TakeInv ==
  ASSUME DocInv, NEW h \in Handlers, NEW t \in Task, handler' = [handler EXCEPT ![h] = t],
         UNCHANGED <<rowVars, requests>>, TaskOK(t),
         t.op = "create" => LockHolders(t.table) \subseteq {h}
  PROVE  DocInv'
<1>1. RowInv' /\ RowsKept
  BY RowsStutter DEF DocInv, RowsKept, rowVars, Exists
<1>2. \A g \in Handlers : handler'[g] = IF g = h THEN t ELSE handler[g]
  BY DEF DocInv, DocTypeOK
<1>3. ASSUME NEW g \in Handlers PROVE TaskOK(handler[g])'
  <2>1. PICK u : u = handler'[g]
    OBVIOUS
  <2>2. TaskOK(u) /\ (u.op = "create" => \A d \in u.table : u.number # 0 => number'[d] < u.number)
    BY <1>2, <2>1 DEF DocInv, HandlersOK, TaskOK, CreateOK, rowVars
  <2>3. TaskOK(u)'
    BY <1>1, <2>2, TaskKept
  <2> QED
    BY <2>1, <2>3, TaskHeld
<1>4. OneCreator'
  BY <1>2 DEF DocInv, OneCreator, LockHolders
<1>5. DocTypeOK'
  BY DEF DocInv, DocTypeOK, rowVars
<1> QED
  BY <1>1, <1>3, <1>4, <1>5 DEF DocInv, HandlersOK

LEMMA TakeNumberInv ==
  ASSUME DocInv, NEW h \in Handlers, TakeNumber(h)
  PROVE  DocInv'
<1>1. PICK n \in {0} \union {number[d] : d \in Docs} :
         /\ LastNumber(handler[h].table, n)
         /\ handler' = [handler EXCEPT ![h].number = n + 1, ![h].version = 1]
  BY DEF TakeNumber
<1>2. PICK u \in Task : u = handler[h]
  BY DEF DocInv, DocTypeOK
<1> DEFINE t == [u EXCEPT !.number = n + 1, !.version = 1]
<1>3. n \in Nat
  BY <1>1 DEF DocInv, DocTypeOK
<1>4. handler' = [handler EXCEPT ![h] = t]
  BY <1>1, <1>2 DEF DocInv, DocTypeOK
<1>5. /\ t \in Task /\ t.op = "create" /\ t.doc = u.doc /\ t.table = u.table
      /\ t.number = n + 1 /\ t.version = 1
  <2>1. u.op = "create"
    BY <1>2 DEF TakeNumber
  <2>2. PICK k \in Nat : k = n + 1
    BY <1>3
  <2>3. [u EXCEPT !.number = k] \in Task
    BY DEF Task
  <2>4. t = [[u EXCEPT !.number = k] EXCEPT !.version = 1]
    BY <2>2
  <2> QED
    BY <2>1, <2>2, <2>3, <2>4 DEF Task
<1>6. t.table \in {Quotes, Contracts} /\ \A d \in t.table : number[d] \in Nat /\ number[d] <= n
  BY <1>1, <1>2, <1>5 DEF LastNumber, Highest, DocInv, DocTypeOK, HandlersOK, TaskOK, CreateOK, Docs
<1>7. CreateOK(t)
  BY <1>2, <1>3, <1>5, <1>6 DEF DocInv, HandlersOK, TaskOK, CreateOK
<1>8. TaskOK(t) /\ LockHolders(t.table) \subseteq {h}
  BY <1>2, <1>5, <1>7 DEF TaskOK, TakeNumber
<1> QED
  BY <1>4, <1>5, <1>8, TakeInv DEF TakeNumber

LEMMA TakeVersionInv ==
  ASSUME DocInv, NEW h \in Handlers, TakeVersion(h)
  PROVE  DocInv'
<1>1. PICK u \in Task : u = handler[h]
  BY DEF DocInv, DocTypeOK
<1>2. /\ ResendOK(u) /\ u.op = "resend" /\ u.version = 0
      /\ u.table \subseteq Docs /\ u.doc \in Docs /\ u.doc \in u.table
  BY <1>1, TableFacts DEF TakeVersion, DocInv, HandlersOK, TaskOK, ResendOK
<1>3. PICK m \in {version[d] : d \in Docs} :
         /\ Highest(m, {version[d] : d \in Revisions(u.table, u.number)})
         /\ handler' = [handler EXCEPT ![h].version = m + 1]
  BY <1>1 DEF TakeVersion
<1>4. m \in Nat
  BY <1>3 DEF DocInv, DocTypeOK
<1> DEFINE t == [u EXCEPT !.version = m + 1]
<1>5. handler' = [handler EXCEPT ![h] = t]
  BY <1>1, <1>3 DEF DocInv, DocTypeOK
<1>6. /\ t \in Task /\ t.op = "resend" /\ t.doc = u.doc /\ t.table = u.table
      /\ t.number = u.number /\ t.version = m + 1
  BY <1>1, <1>2, <1>4 DEF Task
<1>7. u.doc \in Revisions(u.table, u.number)
  BY <1>2 DEF ResendOK, Revisions
<1>8. version[u.doc] <= m /\ version[u.doc] \in Nat
  BY <1>2, <1>3, <1>7 DEF Highest, DocInv, DocTypeOK
<1>9. PICK top \in Revisions(u.table, u.number) : version[top] = m
  BY <1>3 DEF Highest
<1>10. top \in Docs /\ Exists(top) /\ Table(top) = u.table /\ number[top] = u.number
  <2>1. top \in u.table /\ top \in Docs /\ u.table = Table(u.doc)
    BY <1>2, <1>9 DEF Revisions, ResendOK
  <2> QED
    BY <1>2, <1>9, <2>1, TableFacts DEF Revisions
<1>11. \A v \in 1..m : \E c \in Revisions(u.table, u.number) : version[c] = v
  BY <1>9, <1>10 DEF DocInv, RowInv, VersionsDense
<1>12. ResendOK(t)
  BY <1>2, <1>4, <1>6, <1>8, <1>11 DEF ResendOK
<1>13. TaskOK(t)
  BY <1>6, <1>12 DEF TaskOK
<1> QED
  BY <1>5, <1>6, <1>13, TakeInv DEF TakeVersion

-----------------------------------------------------------------------------
(* Steps that change rows that are there.                                  *)

\* The invariant of the rows does not depend on the status a row has, as long
\* as its timestamp is set.
LEMMA StatusInv ==
  ASSUME DocTypeOK, RowInv, NEW d \in Docs, Exists(d), NEW to \in Statuses,
         \E from \in reached[d] \union {"draft"} : <<from, to>> \in Moves(d),
         status' = [status EXCEPT ![d] = to],
         reached' = [reached EXCEPT ![d] = @ \union {to}],
         UNCHANGED <<deleted, number, version, superseded, origin>>
  PROVE  RowInv' /\ RowsKept
<1>1. \A c \in Docs : /\ Exists(c)' <=> Exists(c)
                      /\ Live(c)' <=> Live(c)
                      /\ reached[c] \subseteq reached'[c]
  BY DEF DocTypeOK, Exists, Live, Statuses
<1>2. RowsKept
  BY <1>1 DEF RowsKept
<1>3. RowsOK'
  BY <1>1 DEF RowInv, RowsOK, DocTypeOK
<1>4. StampsTellPath'
  BY DEF RowInv, StampsTellPath, DocTypeOK, Moves, QuoteMoves, ContractMoves
<1>5. PointsForward'
  BY <1>1 DEF RowInv, PointsForward, DocTypeOK
<1>6. ContractFromAccepted'
  BY <1>1 DEF RowInv, ContractFromAccepted, DocTypeOK, Docs
<1>7. NumbersNeverReused'
  BY <1>1 DEF RowInv, NumbersNeverReused
<1>8. VersionsDense'
  <2>1. \A c \in Docs, n \in Nat : Revisions(Table(c), n)' = Revisions(Table(c), n)
    BY <1>1, TableFacts DEF Revisions
  <2> QED
    BY <1>1, <2>1 DEF RowInv, VersionsDense, DocTypeOK
<1> QED
  BY <1>2, <1>3, <1>4, <1>5, <1>6, <1>7, <1>8 DEF RowInv

LEMMA CommitMoveInv ==
  ASSUME DocInv, NEW h \in Handlers, CommitMove(h)
  PROVE  DocInv'
<1>1. PICK u \in Task : u = handler[h]
  BY DEF DocInv, DocTypeOK
<1>2. MoveOK(u) /\ u.to \in Statuses
  BY <1>1 DEF DocInv, HandlersOK, TaskOK, CommitMove, Task
<1>3. RowInv' /\ RowsKept
  BY <1>1, <1>2, StatusInv DEF MoveOK, CommitMove, DocInv
<1>4. HandlersOK' /\ OneCreator' /\ handler' \in [Handlers -> Task]
  BY <1>3, FinishSame DEF CommitMove, Finish
<1>5. undone' \in [Docs -> Nat]
  BY <1>1, <1>2 DEF DocInv, DocTypeOK, CommitMove, MoveOK
<1>6. DocTypeOK'
  BY <1>1, <1>2, <1>4, <1>5 DEF DocInv, DocTypeOK, CommitMove, Finish
<1> QED
  BY <1>3, <1>4, <1>6 DEF DocInv

LEMMA CommitUpdateInv ==
  ASSUME DocInv, NEW h \in Handlers, CommitUpdate(h)
  PROVE  DocInv'
<1>1. RowInv' /\ RowsKept
  <2> USE DEF CommitUpdate, DocInv, RowInv, Exists, Live
  <2>1. RowsOK' /\ StampsTellPath' /\ PointsForward' /\ ContractFromAccepted'
    BY DEF RowsOK, StampsTellPath, PointsForward, ContractFromAccepted
  <2>2. NumbersNeverReused' /\ VersionsDense'
    BY DEF NumbersNeverReused, VersionsDense, Revisions
  <2>3. RowsKept
    BY DEF RowsKept
  <2> QED
    BY <2>1, <2>2, <2>3
<1>2. HandlersOK' /\ OneCreator' /\ handler' \in [Handlers -> Task]
  BY <1>1, FinishSame DEF CommitUpdate, Finish
<1>3. amended' \in [Docs -> Nat]
  <2>1. PICK d \in Docs : d = handler[h].doc
    BY DEF CommitUpdate, DocInv, HandlersOK, TaskOK
  <2>2. \/ amended' = [amended EXCEPT ![d] = amended[d]]
        \/ amended' = [amended EXCEPT ![d] = amended[d] + 1]
    BY <2>1 DEF CommitUpdate
  <2> QED
    BY <2>2 DEF DocInv, DocTypeOK
<1>4. DocTypeOK'
  BY <1>2, <1>3 DEF DocInv, DocTypeOK, CommitUpdate, Finish
<1> QED
  BY <1>1, <1>2, <1>4 DEF DocInv

LEMMA DeleteInv ==
  ASSUME DocInv, NEW d \in Docs, Delete(d)
  PROVE  DocInv'
<1>1. \A c \in Docs : (Exists(c)' <=> Exists(c)) /\ (Live(c)' => Live(c))
  BY DEF Delete, Exists, Live, DocInv, DocTypeOK
<1>2. RowInv' /\ RowsKept
  <2> USE DEF Delete, DocInv, RowInv
  <2>1. RowsOK' /\ StampsTellPath' /\ PointsForward' /\ ContractFromAccepted'
    BY DEF RowsOK, StampsTellPath, PointsForward, ContractFromAccepted, Exists
  <2>2. NumbersNeverReused'
    BY <1>1 DEF NumbersNeverReused
  <2>3. VersionsDense' /\ RowsKept
    BY DEF VersionsDense, Revisions, Exists, RowsKept
  <2> QED
    BY <2>1, <2>2, <2>3
<1>3. ASSUME NEW g \in Handlers PROVE TaskOK(handler[g])'
  <2>1. PICK u : u = handler'[g]
    OBVIOUS
  <2>2. TaskOK(u) /\ (u.op = "create" => \A c \in u.table : u.number # 0 => number'[c] < u.number)
    BY <2>1 DEF Delete, DocInv, HandlersOK, TaskOK, CreateOK
  <2>3. TaskOK(u)'
    BY <1>2, <2>2, TaskKept
  <2> QED
    BY <2>1, <2>3, TaskHeld
<1>4. OneCreator'
  BY DEF Delete, DocInv, OneCreator
<1>5. DocTypeOK'
  BY DEF Delete, DocInv, DocTypeOK
<1> QED
  BY <1>2, <1>3, <1>4, <1>5 DEF DocInv, HandlersOK

-----------------------------------------------------------------------------
(* Steps that insert a row.                                                *)

\* What a request that inserts the row d knows about it.
Inserting(u, d) ==
    /\ u.table \subseteq Docs /\ d \in u.table /\ Table(d) = u.table
    /\ ~Exists(d)
    /\ u.number \in Nat /\ u.number > 0
    /\ u.version \in Nat /\ u.version > 0
    /\ u.version = 1 => \A c \in u.table : number[c] < u.number
    /\ \A v \in 1..(u.version - 1) : \E c \in u.table : Exists(c) /\ number[c] = u.number /\ version[c] = v
    /\ \A c \in u.table : Live(c) /\ number[c] = u.number => version[c] # u.version

LEMMA InsertingCreate ==
  ASSUME DocInv, NEW h \in Handlers, NEW d \in Docs, handler[h].op = "create", InsertRow(h, d)
  PROVE  Inserting(handler[h], d)
<1>1. PICK u \in Task : u = handler[h]
  BY DEF DocInv, DocTypeOK
<1>2. CreateOK(u) /\ d \in u.table /\ ~Exists(d) /\ u.version # 0
  BY <1>1 DEF DocInv, HandlersOK, TaskOK, InsertRow
<1>3. u.table \subseteq Docs /\ Table(d) = u.table
  BY <1>2, DocumentsAssumption DEF CreateOK, Table, Docs
<1>4. u.number \in Nat /\ u.number # 0 /\ u.version = 1
  BY <1>2, TaskShape DEF CreateOK
<1>5. \A c \in u.table : number[c] < u.number /\ number[c] \in Nat
  BY <1>2, <1>3, <1>4 DEF CreateOK, DocInv, DocTypeOK
<1> QED
  BY <1>1, <1>2, <1>3, <1>4, <1>5 DEF Inserting

LEMMA InsertingResend ==
  ASSUME DocInv, NEW h \in Handlers, NEW d \in Docs, handler[h].op = "resend", InsertRow(h, d)
  PROVE  Inserting(handler[h], d)
<1>1. PICK u \in Task : u = handler[h]
  BY DEF DocInv, DocTypeOK
<1>2. ResendOK(u) /\ d \in u.table /\ ~Exists(d) /\ u.version # 0
      /\ IndexAdmits(u.table, u.number, u.version)
  BY <1>1 DEF DocInv, HandlersOK, TaskOK, InsertRow
<1>3. u.table \subseteq Docs /\ Table(d) = u.table
  BY <1>2, TableFacts DEF ResendOK
<1>4. number[u.doc] > 0 /\ version[u.doc] > 0 /\ version[u.doc] \in Nat
  BY <1>2 DEF ResendOK, DocInv, RowInv, RowsOK, DocTypeOK
<1>5. u.number > 0 /\ u.version > 1 /\ u.number \in Nat /\ u.version \in Nat
  BY <1>2, <1>4, TaskShape DEF ResendOK
<1>6. \A v \in 1..(u.version - 1) : \E c \in u.table : Exists(c) /\ number[c] = u.number /\ version[c] = v
  BY <1>2 DEF ResendOK, Revisions
<1>7. \A c \in u.table : Live(c) /\ number[c] = u.number => version[c] # u.version
  BY <1>2 DEF IndexAdmits, Revisions, Live
<1> QED
  BY <1>1, <1>2, <1>3, <1>5, <1>6, <1>7 DEF Inserting

LEMMA InsertRows ==
  ASSUME DocTypeOK, RowInv, NEW u, NEW d \in Docs, Inserting(u, d),
         status' = [status EXCEPT ![d] = "draft"],
         number' = [number EXCEPT ![d] = u.number],
         version' = [version EXCEPT ![d] = u.version],
         UNCHANGED <<reached, deleted>>
  PROVE  /\ RowsKept
         /\ StampsTellPath' /\ NumbersNeverReused' /\ VersionsDense'
         /\ \A c \in Docs : Exists(c)' <=> Exists(c) \/ c = d
<1>1. /\ Exists(d)' /\ number'[d] = u.number /\ version'[d] = u.version /\ reached'[d] = {}
      /\ status'[d] = "draft"
  BY DEF DocTypeOK, Exists, RowInv, RowsOK, Inserting
<1>2. \A c \in Docs \ {d} : /\ status'[c] = status[c] /\ (Exists(c)' <=> Exists(c))
                            /\ (Live(c)' <=> Live(c))
                            /\ number'[c] = number[c] /\ version'[c] = version[c]
                            /\ reached'[c] = reached[c]
  BY DEF DocTypeOK, Exists, Live
<1>3. RowsKept
  BY <1>1, <1>2 DEF RowsKept, Inserting
<1>4. StampsTellPath'
  BY <1>1, <1>2 DEF RowInv, StampsTellPath
<1>5. \A c \in Docs : Table(c) = Table(d) <=> c \in u.table
  BY TableFacts DEF Inserting
<1>6. NumbersNeverReused'
  <2>1. \A c \in Docs \ {d} : Table(c) = Table(d) /\ version'[d] = 1 => number'[c] # number'[d]
    BY <1>1, <1>2, <1>5 DEF Inserting, DocTypeOK
  <2> QED
    BY <1>2, <2>1 DEF RowInv, NumbersNeverReused, Table
<1>8. VersionsDense'
  <2> SUFFICES ASSUME NEW c \in Docs, Exists(c)', NEW v \in 1..version'[c]
               PROVE  \E b \in Table(c) : Exists(b)' /\ number'[b] = number'[c] /\ version'[b] = v
    BY DEF VersionsDense, Revisions, Table
  <2>1. CASE c # d
    <3>1. Exists(c) /\ v \in 1..version[c]
      BY <1>2, <2>1
    <3>2. PICK b \in Table(c) : Exists(b) /\ number[b] = number[c] /\ version[b] = v
      BY <3>1 DEF RowInv, VersionsDense, Revisions
    <3>3. b \in Docs /\ b # d
      BY <3>2, TableFacts DEF Inserting
    <3> QED
      BY <1>2, <2>1, <3>2, <3>3
  <2>2. CASE c = d /\ v = u.version
    BY <1>1, <2>2, TableFacts
  <2>3. CASE c = d /\ v # u.version
    <3>1. v \in 1..(u.version - 1)
      BY <1>1, <2>3 DEF Inserting
    <3>2. PICK b \in u.table : Exists(b) /\ number[b] = u.number /\ version[b] = v
      BY <3>1 DEF Inserting
    <3>3. b \in Docs /\ b # d /\ Table(d) = u.table
      BY <3>2 DEF Inserting
    <3> QED
      BY <1>1, <1>2, <2>3, <3>2, <3>3
  <2> QED
    BY <2>1, <2>2, <2>3
<1>9. \A c \in Docs : Exists(c)' <=> Exists(c) \/ c = d
  BY <1>1, <1>2
<1> QED
  BY <1>3, <1>4, <1>6, <1>8, <1>9

\* The lock: no creator that has a number sees it reached by another insert.
LEMMA InsertHandlers ==
  ASSUME DocInv, RowsKept, NEW h \in Handlers, NEW d \in Docs,
         handler[h].op \in {"create", "resend"}, InsertRow(h, d), Inserting(handler[h], d)
  PROVE  HandlersOK' /\ OneCreator' /\ handler' \in [Handlers -> Task]
<1>1. PICK u \in Task : u = handler[h]
  BY DEF DocInv, DocTypeOK
<1>2. \A c \in Docs : number'[c] = IF c = d THEN u.number ELSE number[c]
  BY <1>1 DEF InsertRow, DocInv, DocTypeOK
<1>3. ASSUME NEW g \in Handlers \ {h}, handler[g].op = "create", handler[g].number # 0,
             NEW c \in handler[g].table
      PROVE  number'[c] < handler[g].number
  <2>1. PICK w \in Task : w = handler[g]
    BY DEF DocInv, DocTypeOK
  <2>2. CreateOK(w) /\ w.table \subseteq Docs /\ \A b \in w.table : number[b] < w.number
    BY <1>3, <2>1 DEF DocInv, HandlersOK, TaskOK, CreateOK, Docs
  <2>3. CASE c # d
    BY <1>2, <1>3, <2>1, <2>2, <2>3
  <2>4. CASE c = d
    <3>1. w.table = u.table /\ u.number # 0
      BY <1>1, <1>3, <2>1, <2>2, <2>4, DocumentsAssumption DEF Inserting, CreateOK, Table, Docs
    <3>2. u.op = "resend"
      BY <1>1, <1>3, <2>1, <3>1 DEF DocInv, OneCreator
    <3>3. u.doc \in w.table /\ u.number = number[u.doc]
      BY <1>1, <3>1, <3>2, TableFacts DEF DocInv, HandlersOK, TaskOK, ResendOK
    <3> QED
      BY <1>2, <2>1, <2>2, <2>4, <3>3
  <2> QED
    BY <2>3, <2>4
<1> QED
  BY <1>3, FinishInv DEF InsertRow, Finish

LEMMA InsertTypes ==
  ASSUME DocInv, NEW h \in Handlers, NEW d \in Docs, InsertRow(h, d), Inserting(handler[h], d),
         superseded' \in [Docs -> Docs \union {NoRow}], origin' \in [Docs -> Quotes \union {NoRow}],
         handler' \in [Handlers -> Task]
  PROVE  DocTypeOK'
<1>1. handler[h].number \in Nat /\ handler[h].version \in Nat
  BY DEF Inserting
<1> QED
  BY <1>1 DEF DocInv, DocTypeOK, InsertRow, Finish, Statuses

\* What PointsForward says of one pointer.
Linked(new, c) ==
    /\ Exists(new) /\ Exists(c)
    /\ Table(new) = Table(c)
    /\ number[new] = number[c]
    /\ version[new] > version[c]

LEMMA LinkedNow ==
  ASSUME DocTypeOK, RowInv, NEW c \in Docs, superseded[c] # NoRow,
         NEW new \in Docs, new = superseded[c]
  PROVE  Linked(new, c)
BY DEF DocTypeOK, RowInv, RowsOK, PointsForward, Linked

LEMMA LinkKept ==
  ASSUME RowsKept, NEW c \in Docs, NEW new \in Docs, Linked(new, c)
  PROVE  status'[new] # "absent" /\ number'[new] = number'[c] /\ version'[new] > version'[c]
BY DEF RowsKept, Linked, Exists

LEMMA CommitCreateInv ==
  ASSUME DocInv, NEW h \in Handlers, NEW d \in Docs, CommitCreate(h, d)
  PROVE  DocInv'
<1>1. InsertRow(h, d) /\ Inserting(handler[h], d) /\ handler[h].op = "create"
  BY InsertingCreate DEF CommitCreate
<1>2. PICK u \in Task : u = handler[h]
  BY DEF DocInv, DocTypeOK
<1>3. /\ RowsKept /\ StampsTellPath' /\ NumbersNeverReused' /\ VersionsDense'
      /\ \A c \in Docs : Exists(c)' <=> Exists(c) \/ c = d
  BY <1>1, InsertRows DEF InsertRow, DocInv
<1>4. u.doc # NoRow => u.doc \in Quotes /\ "accepted" \in reached[u.doc]
  BY <1>1, <1>2 DEF DocInv, HandlersOK, TaskOK, CreateOK
<1>5. \A c \in Docs : origin'[c] = IF c = d THEN u.doc ELSE origin[c]
  BY <1>2 DEF CommitCreate, DocInv, DocTypeOK
<1>6. superseded' \in [Docs -> Docs \union {NoRow}] /\ origin' \in [Docs -> Quotes \union {NoRow}]
  BY <1>2, <1>4 DEF CommitCreate, DocInv, DocTypeOK
<1>7. HandlersOK' /\ OneCreator' /\ DocTypeOK'
  BY <1>1, <1>3, <1>6, InsertHandlers, InsertTypes
<1>8. \A c \in Docs \ {d} : number'[c] = number[c] /\ version'[c] = version[c]
  BY DEF CommitCreate, InsertRow, DocInv, DocTypeOK
<1>9. number'[d] = u.number /\ version'[d] = u.version
  BY <1>2 DEF CommitCreate, InsertRow, DocInv, DocTypeOK
<1>10. RowsOK'
  BY <1>1, <1>2, <1>3, <1>5, <1>8, <1>9 DEF CommitCreate, InsertRow, DocInv, RowInv, RowsOK, Inserting
<1>11. PointsForward'
  <2>1. ASSUME NEW c \in Docs, superseded'[c] # NoRow
        PROVE  /\ status'[superseded'[c]] # "absent"
               /\ Table(superseded'[c]) = Table(c)
               /\ number'[superseded'[c]] = number'[c]
               /\ version'[superseded'[c]] > version'[c]
    <3>1. PICK new \in Docs : new = superseded'[c] /\ new = superseded[c]
      BY <2>1 DEF CommitCreate, DocInv, DocTypeOK
    <3>2. Linked(new, c)
      BY <2>1, <3>1, LinkedNow DEF DocInv, RowInv
    <3>3. status'[new] # "absent" /\ number'[new] = number'[c] /\ version'[new] > version'[c]
      BY <1>3, <3>2, LinkKept
    <3> QED
      BY <3>1, <3>2, <3>3 DEF Linked
  <2> QED
    BY <2>1 DEF PointsForward, Exists, Table
<1>12. ContractFromAccepted'
  BY <1>4, <1>5 DEF DocInv, DocTypeOK, RowInv, ContractFromAccepted, CommitCreate, InsertRow, Docs
<1> QED
  BY <1>3, <1>7, <1>10, <1>11, <1>12 DEF DocInv, RowInv

LEMMA CommitResendInv ==
  ASSUME DocInv, NEW h \in Handlers, NEW d \in Docs, CommitResend(h, d)
  PROVE  DocInv'
<1>1. InsertRow(h, d) /\ Inserting(handler[h], d) /\ handler[h].op = "resend"
  BY InsertingResend DEF CommitResend
<1>2. PICK u \in Task : u = handler[h]
  BY DEF DocInv, DocTypeOK
<1>3. /\ RowsKept /\ StampsTellPath' /\ NumbersNeverReused' /\ VersionsDense'
      /\ \A c \in Docs : Exists(c)' <=> Exists(c) \/ c = d
  BY <1>1, InsertRows DEF InsertRow, DocInv
<1>4. ResendOK(u) /\ u.doc \in Docs /\ Exists(u.doc) /\ u.version # 0
  BY <1>1, <1>2 DEF DocInv, HandlersOK, TaskOK, ResendOK, InsertRow
<1>5. \A c \in Docs : /\ origin'[c] = IF c = d THEN origin[u.doc] ELSE origin[c]
                      /\ superseded'[c] = IF c = u.doc THEN d ELSE superseded[c]
  BY <1>2 DEF CommitResend, DocInv, DocTypeOK
<1>6. superseded' \in [Docs -> Docs \union {NoRow}] /\ origin' \in [Docs -> Quotes \union {NoRow}]
  BY <1>2, <1>4 DEF CommitResend, DocInv, DocTypeOK
<1>7. HandlersOK' /\ OneCreator' /\ DocTypeOK'
  BY <1>1, <1>3, <1>6, InsertHandlers, InsertTypes
<1>8. \A c \in Docs \ {d} : number'[c] = number[c] /\ version'[c] = version[c]
  BY DEF CommitResend, InsertRow, DocInv, DocTypeOK
<1>9. number'[d] = u.number /\ version'[d] = u.version
  BY <1>2 DEF CommitResend, InsertRow, DocInv, DocTypeOK
<1>10. RowsOK'
  BY <1>1, <1>2, <1>3, <1>4, <1>5, <1>8, <1>9
     DEF CommitResend, InsertRow, DocInv, RowInv, RowsOK, Inserting
<1>11. PointsForward'
  <2>1. ASSUME NEW c \in Docs, superseded'[c] # NoRow
        PROVE  /\ status'[superseded'[c]] # "absent"
               /\ Table(superseded'[c]) = Table(c)
               /\ number'[superseded'[c]] = number'[c]
               /\ version'[superseded'[c]] > version'[c]
    <3>1. CASE c = u.doc
      <4>1. u.doc # d /\ Table(d) = Table(u.doc) /\ number[u.doc] = u.number /\ u.version > version[u.doc]
        BY <1>1, <1>2, <1>4 DEF Inserting, ResendOK
      <4>2. superseded'[c] = d
        BY <1>5, <3>1
      <4>3. status'[d] # "absent"
        BY <1>3 DEF Exists
      <4>4. number'[c] = number[c] /\ version'[c] = version[c]
        BY <1>8, <3>1, <4>1
      <4> QED
        BY <1>9, <3>1, <4>1, <4>2, <4>3, <4>4
    <3>2. CASE c # u.doc
      <4>1. PICK new \in Docs : new = superseded'[c] /\ new = superseded[c]
        BY <1>5, <2>1, <3>2 DEF DocInv, DocTypeOK
      <4>2. Linked(new, c)
        BY <2>1, <4>1, LinkedNow DEF DocInv, RowInv
      <4>3. status'[new] # "absent" /\ number'[new] = number'[c] /\ version'[new] > version'[c]
        BY <1>3, <4>2, LinkKept
      <4> QED
        BY <4>1, <4>2, <4>3 DEF Linked
    <3> QED
      BY <3>1, <3>2
  <2> QED
    BY <2>1 DEF PointsForward, Exists, Table
<1>12. ContractFromAccepted'
  BY <1>4, <1>5 DEF DocInv, DocTypeOK, RowInv, ContractFromAccepted, CommitResend, InsertRow, Docs
<1> QED
  BY <1>3, <1>7, <1>10, <1>11, <1>12 DEF DocInv, RowInv

-----------------------------------------------------------------------------
LEMMA DocStepInv == DocInv /\ [DocNext]_docVars => DocInv'
<1> SUFFICES ASSUME DocInv, [DocNext]_docVars PROVE DocInv'
  OBVIOUS
<1>1. ASSUME NEW h \in Handlers, NEW d \in Docs, NEW to \in Statuses, ReadForMove(h, d, to)
      PROVE DocInv'
  BY <1>1, ReadsInv
<1>2. ASSUME NEW h \in Handlers, NEW d \in Docs, ReadForUpdate(h, d) \/ ReadForResend(h, d)
      PROVE DocInv'
  BY <1>2, ReadsInv
<1>3. ASSUME NEW h \in Handlers, NEW q \in Quotes, ReadForContract(h, q) PROVE DocInv'
  BY <1>3, ReadsInv
<1>4. ASSUME NEW h \in Handlers, NEW table \in {Quotes, Contracts}, BeginCreate(h, table) PROVE DocInv'
  BY <1>4, ReadsInv
<1>5. ASSUME NEW h \in Handlers, TakeNumber(h) \/ TakeVersion(h) PROVE DocInv'
  BY <1>5, TakeNumberInv, TakeVersionInv
<1>6. ASSUME NEW h \in Handlers, CommitMove(h) \/ CommitUpdate(h) \/ Abandon(h) PROVE DocInv'
  BY <1>6, CommitMoveInv, CommitUpdateInv, AbandonInv
<1>7. ASSUME NEW h \in Handlers, NEW d \in Docs, CommitCreate(h, d) \/ CommitResend(h, d) PROVE DocInv'
  BY <1>7, CommitCreateInv, CommitResendInv
<1>8. ASSUME NEW d \in Docs, Delete(d) PROVE DocInv'
  BY <1>8, DeleteInv
<1>9. CASE UNCHANGED docVars
  <2>1. RowInv' /\ UNCHANGED <<rowVars, handler, requests>>
    BY <1>9, RowsStutter DEF docVars, DocInv
  <2>2. RowsKept
    BY <2>1 DEF rowVars, RowsKept, Exists
  <2>3. ASSUME NEW g \in Handlers PROVE TaskOK(handler[g])'
    <3>1. PICK u : u = handler'[g]
      OBVIOUS
    <3>2. TaskOK(u) /\ (u.op = "create" => \A c \in u.table : u.number # 0 => number'[c] < u.number)
      BY <2>1, <3>1 DEF rowVars, DocInv, HandlersOK, TaskOK, CreateOK
    <3>3. TaskOK(u)'
      BY <2>2, <3>2, TaskKept
    <3> QED
      BY <3>1, <3>3, TaskHeld
  <2> QED
    BY <2>1, <2>3 DEF DocInv, DocTypeOK, rowVars, HandlersOK, OneCreator
<1> QED
  BY <1>1, <1>2, <1>3, <1>4, <1>5, <1>6, <1>7, <1>8, <1>9 DEF DocNext

LEMMA DocSpecInv == DocSpec => []DocInv
BY InitInv, DocStepInv, PTL DEF DocSpec

\* Type correctness of quotes, contracts and the requests on them.
THEOREM DocTypeCorrect == DocSpec => []DocTypeOK
<1>1. DocInv => DocTypeOK
  BY DEF DocInv
<1> QED
  BY <1>1, DocSpecInv, PTL

\* However many requests race on a document, its timestamps tell the path that
\* the status machine prescribes (send, accept, sign, activate, terminate).
THEOREM PathsTold == DocSpec => []StampsTellPath
<1>1. DocInv => StampsTellPath
  BY DEF DocInv, RowInv
<1> QED
  BY <1>1, DocSpecInv, PTL

\* next_quote_number and next_contract_number under the advisory lock never
\* hand out a number twice, deleted rows included.
THEOREM NumbersUnique == DocSpec => []NumbersNeverReused
<1>1. DocInv => NumbersNeverReused
  BY DEF DocInv, RowInv
<1> QED
  BY <1>1, DocSpecInv, PTL

\* The revisions of a number have no gap and lead forward, deleted ones included,
\* although resend reads the highest version without a lock.
THEOREM RevisionsSound == DocSpec => []RevisionsChained
<1>1. DocInv => RevisionsChained
  BY DEF DocInv, RowInv, RevisionsChained
<1> QED
  BY <1>1, DocSpecInv, PTL

\* create_contract_from_quote, and a resend of its contract, never copy the
\* terms of a quote that was not accepted.
THEOREM ContractsBacked == DocSpec => []ContractFromAccepted
<1>1. DocInv => ContractFromAccepted
  BY DEF DocInv, RowInv
<1> QED
  BY <1>1, DocSpecInv, PTL

-----------------------------------------------------------------------------
(* How often the terms of a document change after it left draft.           *)

\* A request that needed a draft when it read its document.
NeedsDraft(t) == t.op = "update" \/ (t.op = "move" /\ t.to = "sent")

\* The requests that read d as a draft and have not committed yet.
Drafters(d) == {h \in Handlers : NeedsDraft(handler[h]) /\ handler[h].doc = d}

\* What such requests have done to d after it left draft.
Changes(d) == amended[d] + undone[d]

\* While a document is a draft there are no such changes; once it has left, each
\* so far, and each that is still to come, took a handler that was not the one
\* that moved it.
AmendInv ==
    \A d \in Docs :
       IF status[d] \in {"absent", "draft"} THEN Changes(d) = 0
       ELSE Changes(d) + Cardinality(Drafters(d)) < Cardinality(Handlers)

LEMMA DraftersFinite ==
  ASSUME NEW d
  PROVE  IsFiniteSet(Drafters(d)) /\ Cardinality(Drafters(d)) \in Nat
         /\ Cardinality(Handlers) \in Nat
<1>1. Drafters(d) \subseteq Handlers
  BY DEF Drafters
<1> QED
  BY <1>1, DocumentsAssumption, FS_Subset, FS_CardinalityType

\* A document out of draft, whose updaters are none that were not.
LEMMA AmendKept ==
  ASSUME DocTypeOK, AmendInv, NEW d \in Docs,
         (status[d] \in {"absent", "draft"}) <=> (status'[d] \in {"absent", "draft"}),
         amended'[d] = amended[d], undone'[d] = undone[d],
         status[d] \notin {"absent", "draft"} => Drafters(d)' \subseteq Drafters(d)
  PROVE  IF status'[d] \in {"absent", "draft"} THEN Changes(d)' = 0
         ELSE Changes(d)' + Cardinality(Drafters(d)') < Cardinality(Handlers)
<1>1. CASE status[d] \in {"absent", "draft"}
  BY <1>1 DEF AmendInv, Changes
<1>2. CASE status[d] \notin {"absent", "draft"}
  <2>1. /\ Cardinality(Drafters(d)') <= Cardinality(Drafters(d))
        /\ Cardinality(Drafters(d)') \in Nat
    BY <1>2, DraftersFinite, FS_Subset, FS_CardinalityType
  <2>2. Changes(d) + Cardinality(Drafters(d)) < Cardinality(Handlers)
    BY <1>2 DEF AmendInv
  <2>3. Changes(d) \in Nat /\ Changes(d)' = Changes(d)
    BY DEF DocTypeOK, Changes
  <2> QED
    BY <1>2, <2>1, <2>2, <2>3, DraftersFinite
<1> QED
  BY <1>1, <1>2

\* A request that starts on a row that has left draft does not need a draft.
LEMMA AmendBegin ==
  ASSUME DocInv, AmendInv, NEW h \in Handlers, NEW t, Begin(h, t),
         NeedsDraft(t) => status[t.doc] = "draft"
  PROVE  AmendInv'
<1>1. \A g \in Handlers : handler'[g] = IF g = h THEN t ELSE handler[g]
  BY DEF Begin, DocInv, DocTypeOK
<1>2. ASSUME NEW d \in Docs, status[d] \notin {"absent", "draft"}
      PROVE  Drafters(d)' \subseteq Drafters(d)
  BY <1>1, <1>2 DEF Drafters
<1> QED
  BY <1>2, AmendKept DEF Begin, rowVars, DocInv, AmendInv

\* A step by which no handler becomes one of them, and no row leaves draft.
LEMMA AmendQuiet ==
  ASSUME DocInv, AmendInv,
         \A d \in Docs : (status[d] \in {"absent", "draft"}) <=> (status'[d] \in {"absent", "draft"}),
         UNCHANGED <<amended, undone>>,
         \A g \in Handlers : NeedsDraft(handler'[g]) => handler'[g] = handler[g]
  PROVE  AmendInv'
<1>1. ASSUME NEW d \in Docs PROVE Drafters(d)' \subseteq Drafters(d)
  BY DEF Drafters
<1> QED
  BY <1>1, AmendKept DEF DocInv, AmendInv

LEMMA AmendMove ==
  ASSUME DocInv, AmendInv, NEW h \in Handlers, CommitMove(h)
  PROVE  AmendInv'
<1>1. PICK u \in Task : u = handler[h] /\ u.op = "move"
  BY DEF DocInv, DocTypeOK, CommitMove
<1>2. MoveOK(u) /\ u.to \notin {"absent", "draft"}
  BY <1>1 DEF DocInv, HandlersOK, TaskOK, MoveOK, Moves, QuoteMoves, ContractMoves
<1>3. \A g \in Handlers : handler'[g] = IF g = h THEN Idle ELSE handler[g]
  BY DEF CommitMove, Finish, DocInv, DocTypeOK
<1>4. \A c \in Docs : Drafters(c)' = Drafters(c) \ {h}
  BY <1>3 DEF Drafters, NeedsDraft, Idle
<1>5. \A c \in Docs : status'[c] = IF c = u.doc THEN u.to ELSE status[c]
  BY <1>1 DEF CommitMove, DocInv, DocTypeOK
<1>6. ASSUME NEW d \in Docs, d = u.doc, status[d] = "draft"
      PROVE  Changes(d)' + Cardinality(Drafters(d)') < Cardinality(Handlers)
  <2>1. Drafters(d)' \subseteq Handlers \ {h}
    BY <1>4 DEF Drafters
  <2>2. /\ Cardinality(Handlers \ {h}) = Cardinality(Handlers) - 1
        /\ IsFiniteSet(Handlers \ {h})
    BY DocumentsAssumption, FS_RemoveElement
  <2>3. Cardinality(Drafters(d)') <= Cardinality(Handlers \ {h})
    BY <2>1, <2>2, FS_Subset
  <2>4. Cardinality(Drafters(d)') \in Nat
    BY <2>1, <2>2, FS_Subset, FS_CardinalityType
  <2>5. Changes(d)' = 0
    BY <1>1, <1>6 DEF AmendInv, CommitMove, Changes, Undecided, DocInv, DocTypeOK
  <2> QED
    BY <2>2, <2>3, <2>4, <2>5, DraftersFinite
<1>7. ASSUME NEW d \in Docs
      PROVE  IF status'[d] \in {"absent", "draft"} THEN Changes(d)' = 0
             ELSE Changes(d)' + Cardinality(Drafters(d)') < Cardinality(Handlers)
  <2>1. CASE d = u.doc /\ status[d] = "draft"
    BY <1>2, <1>5, <1>6, <2>1
  <2>2. CASE d = u.doc /\ status[d] # "draft" /\ u.to = "sent"
    <3>1. h \in Drafters(d)
      BY <1>1, <2>2 DEF Drafters, NeedsDraft
    <3>2. Cardinality(Drafters(d)') = Cardinality(Drafters(d)) - 1
      BY <1>4, <3>1, DraftersFinite, FS_RemoveElement
    <3>3. status'[d] = "sent" /\ status[d] \notin {"absent", "draft"}
      BY <1>2, <1>5, <2>2 DEF MoveOK, Exists
    <3>4. Changes(d)' \in {Changes(d), Changes(d) + 1} /\ Changes(d) \in Nat
      BY <1>1, <2>2 DEF CommitMove, Changes, DocInv, DocTypeOK
    <3>5. Changes(d) + Cardinality(Drafters(d)) < Cardinality(Handlers)
      BY <3>3 DEF AmendInv
    <3> QED
      BY <3>2, <3>3, <3>4, <3>5, DraftersFinite
  <2>3. CASE d # u.doc \/ (status[d] # "draft" /\ u.to # "sent")
    <3>1. (status[d] \in {"absent", "draft"}) <=> (status'[d] \in {"absent", "draft"})
      BY <1>2, <1>5, <2>3 DEF MoveOK, Exists
    <3>2. amended'[d] = amended[d] /\ undone'[d] = undone[d]
      BY <1>1, <2>3 DEF CommitMove, DocInv, DocTypeOK
    <3> QED
      BY <1>4, <3>1, <3>2, AmendKept DEF DocInv
  <2> QED
    BY <2>1, <2>2, <2>3
<1> QED
  BY <1>7 DEF AmendInv

LEMMA AmendUpdate ==
  ASSUME DocInv, AmendInv, NEW h \in Handlers, CommitUpdate(h)
  PROVE  AmendInv'
<1>1. PICK u \in Task : u = handler[h] /\ u.op = "update"
  BY DEF DocInv, DocTypeOK, CommitUpdate
<1>2. u.doc \in Docs /\ Exists(u.doc)
  BY <1>1 DEF DocInv, HandlersOK, TaskOK
<1>3. \A g \in Handlers : handler'[g] = IF g = h THEN Idle ELSE handler[g]
  BY DEF CommitUpdate, Finish, DocInv, DocTypeOK
<1>4. \A c \in Docs : Drafters(c)' = Drafters(c) \ {h}
  BY <1>3 DEF Drafters, NeedsDraft, Idle
<1>5. ASSUME NEW d \in Docs
      PROVE  IF status'[d] \in {"absent", "draft"} THEN Changes(d)' = 0
             ELSE Changes(d)' + Cardinality(Drafters(d)') < Cardinality(Handlers)
  <2>1. CASE d = u.doc /\ status[d] # "draft"
    <3>1. h \in Drafters(d)
      BY <1>1, <2>1 DEF Drafters, NeedsDraft
    <3>2. Cardinality(Drafters(d)') = Cardinality(Drafters(d)) - 1
      BY <1>4, <3>1, DraftersFinite, FS_RemoveElement
    <3>3. status'[d] = status[d] /\ status[d] \notin {"absent", "draft"}
      BY <1>2, <2>1 DEF CommitUpdate, Exists
    <3>4. Changes(d)' = Changes(d) + 1 /\ Changes(d) \in Nat
      BY <1>1, <2>1 DEF CommitUpdate, Changes, DocInv, DocTypeOK
    <3>5. Changes(d) + Cardinality(Drafters(d)) < Cardinality(Handlers)
      BY <3>3 DEF AmendInv
    <3> QED
      BY <3>2, <3>3, <3>4, <3>5, DraftersFinite
  <2>2. CASE ~(d = u.doc /\ status[d] # "draft")
    <3>1. amended'[d] = amended[d] /\ undone'[d] = undone[d] /\ status'[d] = status[d]
      BY <1>1, <2>2 DEF CommitUpdate, DocInv, DocTypeOK
    <3> QED
      BY <1>4, <3>1, AmendKept DEF DocInv
  <2> QED
    BY <2>1, <2>2
<1> QED
  BY <1>5 DEF AmendInv

LEMMA AmendInsert ==
  ASSUME DocInv, AmendInv, NEW h \in Handlers, NEW d \in Docs, InsertRow(h, d)
  PROVE  AmendInv'
<1>1. \A g \in Handlers : handler'[g] = IF g = h THEN Idle ELSE handler[g]
  BY DEF InsertRow, Finish, DocInv, DocTypeOK
<1>2. \A c \in Docs : status'[c] = IF c = d THEN "draft" ELSE status[c]
  BY DEF InsertRow, DocInv, DocTypeOK
<1>3. \A c \in Docs : (status[c] \in {"absent", "draft"}) <=> (status'[c] \in {"absent", "draft"})
  BY <1>2 DEF InsertRow, Exists
<1> QED
  BY <1>1, <1>3, AmendQuiet DEF InsertRow, Idle, NeedsDraft

LEMMA AmendStep == DocInv /\ AmendInv /\ [DocNext]_docVars => AmendInv'
<1> SUFFICES ASSUME DocInv, AmendInv, [DocNext]_docVars PROVE AmendInv'
  OBVIOUS
<1>1. ASSUME NEW h \in Handlers, NEW d \in Docs, NEW to \in Statuses, ReadForMove(h, d, to)
      PROVE  AmendInv'
  BY <1>1, AmendBegin DEF ReadForMove, Idle, NeedsDraft, Moves, QuoteMoves, ContractMoves
<1>2. ASSUME NEW h \in Handlers, NEW d \in Docs, ReadForUpdate(h, d) PROVE AmendInv'
  BY <1>2, AmendBegin DEF ReadForUpdate, Idle, NeedsDraft
<1>3. ASSUME NEW h \in Handlers, NEW d \in Docs, ReadForResend(h, d) PROVE AmendInv'
  BY <1>3, AmendBegin DEF ReadForResend, Idle, NeedsDraft
<1>4. ASSUME NEW h \in Handlers, NEW q \in Quotes, ReadForContract(h, q) PROVE AmendInv'
  BY <1>4, AmendBegin DEF ReadForContract, Idle, NeedsDraft
<1>5. ASSUME NEW h \in Handlers, NEW table \in {Quotes, Contracts}, BeginCreate(h, table)
      PROVE  AmendInv'
  BY <1>5, AmendBegin DEF BeginCreate, Idle, NeedsDraft
<1>6. ASSUME NEW h \in Handlers, TakeNumber(h) \/ TakeVersion(h) PROVE AmendInv'
  <2>1. handler[h].op \in {"create", "resend"} /\ UNCHANGED rowVars
    BY <1>6 DEF TakeNumber, TakeVersion
  <2>2. \A g \in Handlers : NeedsDraft(handler'[g]) => handler'[g] = handler[g]
    <3>1. \A g \in Handlers \ {h} : handler'[g] = handler[g]
      BY <1>6 DEF TakeNumber, TakeVersion, DocInv, DocTypeOK
    <3>2. PICK u \in Task : u = handler[h]
      BY DEF DocInv, DocTypeOK
    <3>3. CASE TakeNumber(h)
      <4>1. PICK n \in {0} \union {number[d] : d \in Docs} :
               handler' = [handler EXCEPT ![h].number = n + 1, ![h].version = 1]
        BY <3>3 DEF TakeNumber
      <4>2. handler'[h] = [u EXCEPT !.number = n + 1, !.version = 1]
        BY <3>2, <4>1 DEF DocInv, DocTypeOK
      <4> QED
        BY <2>1, <3>1, <3>2, <4>2 DEF Task, NeedsDraft
    <3>4. CASE TakeVersion(h)
      <4>1. PICK v \in {version[d] : d \in Docs} : handler' = [handler EXCEPT ![h].version = v + 1]
        BY <3>4 DEF TakeVersion
      <4>2. handler'[h] = [u EXCEPT !.version = v + 1]
        BY <3>2, <4>1 DEF DocInv, DocTypeOK
      <4> QED
        BY <2>1, <3>1, <3>2, <4>2 DEF Task, NeedsDraft
    <3> QED
      BY <1>6, <3>3, <3>4
  <2> QED
    BY <2>1, <2>2, AmendQuiet DEF rowVars
<1>7. ASSUME NEW h \in Handlers, CommitMove(h) \/ CommitUpdate(h) PROVE AmendInv'
  BY <1>7, AmendMove, AmendUpdate
<1>8. ASSUME NEW h \in Handlers, Abandon(h) PROVE AmendInv'
  <2>1. \A g \in Handlers : handler'[g] = IF g = h THEN Idle ELSE handler[g]
    BY <1>8 DEF Abandon, Finish, DocInv, DocTypeOK
  <2> QED
    BY <1>8, <2>1, AmendQuiet DEF Abandon, rowVars, Idle, NeedsDraft
<1>9. ASSUME NEW h \in Handlers, NEW d \in Docs, CommitCreate(h, d) \/ CommitResend(h, d)
      PROVE  AmendInv'
  BY <1>9, AmendInsert DEF CommitCreate, CommitResend
<1>10. ASSUME NEW d \in Docs, Delete(d) PROVE AmendInv'
  BY <1>10, AmendQuiet DEF Delete
<1>11. CASE UNCHANGED docVars
  BY <1>11, AmendQuiet DEF docVars, rowVars
<1> QED
  BY <1>1, <1>2, <1>3, <1>4, <1>5, <1>6, <1>7, <1>8, <1>9, <1>10, <1>11 DEF DocNext

\* The draft check of PATCH, apply-template and send is made before the commit,
\* so an update may land on a document that has been sent, and a send may
\* overwrite its acceptance; but only requests that were running by then, and
\* the one that sent it first is one of the handlers.
THEOREM UpdatesBounded == DocSpec => []AmendmentsBounded
<1>1. DocInit => AmendInv
  BY DEF DocInit, AmendInv, Changes
<1>2. DocInv /\ AmendInv => AmendmentsBounded
  <2> SUFFICES ASSUME DocInv, AmendInv, NEW d \in Docs
               PROVE  Changes(d) < Cardinality(Handlers)
    BY DEF AmendmentsBounded, Changes
  <2>1. Cardinality(Handlers) # 0
    BY DocumentsAssumption, FS_EmptySet
  <2>2. Changes(d) \in Nat
    BY DEF DocInv, DocTypeOK, Changes
  <2> QED
    BY <2>1, <2>2, DraftersFinite DEF AmendInv
<1> QED
  BY <1>1, <1>2, AmendStep, DocSpecInv, PTL DEF DocSpec

-----------------------------------------------------------------------------
(* Signatures.                                                              *)

\* Nothing leads back to draft.
DraftFresh == \A d \in Docs : status[d] = "draft" => reached[d] = {}

\* Deleted, decided, or its decision overwritten by a send: what a signature
\* leaves behind.
Settled(d) == deleted[d] \/ status[d] \notin Undecided \/ undone[d] > 0

\* Timestamps last, and what is settled stays so.
DocsAge ==
    \A d \in Docs : reached[d] \subseteq reached'[d] /\ (Settled(d) => Settled(d)')

\* What a visit may rely on between its check and its commit.
CreateVisitOK(v) == v.doc \in Docs /\ "sent" \in reached[v.doc]
MoveVisitOK(v) ==
    /\ v.request \in Requests /\ envelope[v.request] # "absent"
    /\ v.to \in {"sent", "viewed", "declined", "cancelled"}
    /\ v.to \in {"viewed", "declined"} => "sent" \in marks[v.request]
SignVisitOK(v) ==
    /\ v.request \in Requests /\ envelope[v.request] # "absent"
    /\ v.doc \in Docs /\ v.doc = subject[v.request]
    /\ "sent" \in marks[v.request]
    /\ v.op # "sign" => v.request \in evidence
    /\ v.op = "flushed" /\ ~v.completes => Settled(v.doc)
VisitOK(v) ==
    /\ v.op = "create" => CreateVisitOK(v)
    /\ v.op = "move" => MoveVisitOK(v)
    /\ v.op \in {"sign", "filed", "flushed"} => SignVisitOK(v)
ClerksOK == \A k \in Clerks : VisitOK(clerk[k])

FreshRequests == \A r \in Requests : envelope[r] = "absent" => marks[r] = {}

EnvelopeInv == EnvelopePath /\ SignedHasEvidence /\ SignedDecides /\ FreshRequests

IInv == DocInv /\ TypeOK /\ DraftFresh /\ EnvelopeInv /\ ClerksOK

-----------------------------------------------------------------------------
LEMMA VisitShape ==
  ASSUME NEW v \in Visit
  PROVE  /\ v.op \in {"none", "create", "move", "sign", "filed", "flushed"}
         /\ v.request \in Requests \union {NoRow}
         /\ v.doc \in Docs \union {NoRow}
         /\ v.to \in EnvelopeStatuses
         /\ v.completes \in BOOLEAN
BY DEF Visit

LEMMA InitIInv == Init => IInv
<1> SUFFICES ASSUME Init PROVE IInv
  OBVIOUS
<1>1. DocInv
  BY InitInv DEF Init
<1>2. TypeOK
  BY <1>1, SignaturesAssumption DEF Init, TypeOK, DocInv, Away, Visit, EnvelopeStatuses
<1>3. DraftFresh
  BY DEF Init, DocInit, DraftFresh
<1>4. EnvelopeInv
  BY DEF Init, EnvelopeInv, EnvelopePath, SignedHasEvidence, SignedDecides, FreshRequests
<1>5. ClerksOK
  BY DEF Init, ClerksOK, VisitOK, Away
<1> QED
  BY <1>1, <1>2, <1>3, <1>4, <1>5 DEF IInv

\* What the steps of Documents leave to rely on.
LEMMA DocStepAges ==
  ASSUME DocInv, DraftFresh, [DocNext]_docVars
  PROVE  DocsAge /\ DraftFresh'
<1>1. CASE UNCHANGED rowVars
  BY <1>1 DEF rowVars, DocsAge, DraftFresh, Settled
<1>2. ASSUME NEW h \in Handlers, CommitMove(h) PROVE DocsAge /\ DraftFresh'
  <2>1. PICK u \in Task : u = handler[h]
    BY DEF DocInv, DocTypeOK
  <2>2. MoveOK(u)
    BY <1>2, <2>1 DEF DocInv, HandlersOK, TaskOK, CommitMove
  <2>3. u.doc \in Docs /\ u.to # "draft"
    BY <2>2 DEF MoveOK, Moves, QuoteMoves, ContractMoves
  <2>4. /\ status' = [status EXCEPT ![u.doc] = u.to]
        /\ reached' = [reached EXCEPT ![u.doc] = reached[u.doc] \union {u.to}]
        /\ deleted' = deleted
        /\ undone' = [undone EXCEPT ![u.doc] = IF u.to = "sent" /\ status[u.doc] \notin Undecided
                                               THEN @ + 1 ELSE @]
    BY <1>2, <2>1 DEF CommitMove
  <2>5. ASSUME NEW d \in Docs, Settled(d) PROVE Settled(d)'
    <3>1. CASE d # u.doc
      BY <2>3, <2>4, <2>5, <3>1 DEF Settled, DocInv, DocTypeOK
    <3>2. CASE d = u.doc /\ u.to = "sent"
      BY <2>3, <2>4, <2>5, <3>2 DEF Settled, DocInv, DocTypeOK
    <3>3. CASE d = u.doc /\ u.to # "sent"
      <4>1. u.to \notin Undecided
        BY <2>2, <3>3 DEF MoveOK, Moves, QuoteMoves, ContractMoves, Undecided
      <4> QED
        BY <2>3, <2>4, <3>3, <4>1 DEF Settled, DocInv, DocTypeOK
    <3> QED
      BY <3>1, <3>2, <3>3
  <2> QED
    BY <2>3, <2>4, <2>5 DEF DocsAge, DraftFresh, DocInv, DocTypeOK
<1>3. ASSUME NEW h \in Handlers, CommitUpdate(h) PROVE DocsAge /\ DraftFresh'
  BY <1>3 DEF CommitUpdate, DocsAge, DraftFresh, Settled
<1>4. ASSUME NEW h \in Handlers, NEW d \in Docs, InsertRow(h, d) PROVE DocsAge /\ DraftFresh'
  BY <1>4 DEF InsertRow, Exists, DocsAge, DraftFresh, DocInv, DocTypeOK, RowInv, RowsOK, Settled, Undecided
<1>5. ASSUME NEW d \in Docs, Delete(d) PROVE DocsAge /\ DraftFresh'
  BY <1>5 DEF Delete, DocsAge, DraftFresh, DocInv, DocTypeOK, Settled
<1>6. CASE DocNext
  <2>1. \/ UNCHANGED rowVars
        \/ \E h \in Handlers : CommitMove(h) \/ CommitUpdate(h)
        \/ \E h \in Handlers, d \in Docs : InsertRow(h, d)
        \/ \E d \in Docs : Delete(d)
    BY <1>6 DEF DocNext, ReadForMove, ReadForUpdate, ReadForResend, ReadForContract, BeginCreate,
                Begin, TakeNumber, TakeVersion, Abandon, CommitCreate, CommitResend
  <2> QED
    BY <1>1, <1>2, <1>3, <1>4, <1>5, <2>1
<1> QED
  BY <1>1, <1>6 DEF docVars

\* The requests and the visits survive whatever leaves them alone and lets
\* documents age.
LEMMA EnvelopesAge ==
  ASSUME EnvelopeInv, DocTypeOK, DocsAge, TypeOK, UNCHANGED signatureVars
  PROVE  EnvelopeInv'
<1> USE DEF signatureVars
<1>1. EnvelopePath'
  BY DEF EnvelopeInv, EnvelopePath, TypeOK, DocsAge
<1>2. SignedHasEvidence' /\ FreshRequests'
  BY DEF EnvelopeInv, SignedHasEvidence, FreshRequests
<1>3. SignedDecides'
  BY DEF EnvelopeInv, SignedDecides, EnvelopePath, FreshRequests, TypeOK, DocsAge, Settled
<1> QED
  BY <1>1, <1>2, <1>3 DEF EnvelopeInv

\* A visit survives as long as its request is there, with its document, its
\* timestamps and its audit trail.
RequestsAge ==
    /\ evidence \subseteq evidence'
    /\ \A r \in Requests : envelope[r] # "absent" =>
          /\ envelope'[r] # "absent"
          /\ subject'[r] = subject[r]
          /\ marks[r] \subseteq marks'[r]

LEMMA VisitAges ==
  ASSUME DocsAge, RequestsAge, NEW v, VisitOK(v)
  PROVE  VisitOK(v)'
<1>1. CASE v.op = "create"
  BY <1>1 DEF VisitOK, CreateVisitOK, DocsAge
<1>2. CASE v.op = "move"
  BY <1>2 DEF VisitOK, MoveVisitOK, RequestsAge
<1>3. CASE v.op \in {"sign", "filed", "flushed"}
  BY <1>3 DEF VisitOK, SignVisitOK, RequestsAge, DocsAge, Settled
<1> QED
  BY <1>1, <1>2, <1>3 DEF VisitOK

LEMMA VisitHeld ==
  ASSUME NEW g \in Clerks, NEW v, clerk'[g] = v, VisitOK(v)'
  PROVE  VisitOK(clerk[g])'
BY DEF VisitOK, CreateVisitOK, MoveVisitOK, SignVisitOK, Settled

LEMMA ClerksAge ==
  ASSUME TypeOK, ClerksOK, DocsAge, RequestsAge, NEW k \in Clerks, NEW v \in Visit,
         clerk' = [clerk EXCEPT ![k] = v], VisitOK(v)'
  PROVE  ClerksOK' /\ clerk' \in [Clerks -> Visit]
<1>1. \A g \in Clerks : clerk'[g] = IF g = k THEN v ELSE clerk[g]
  BY DEF TypeOK
<1>2. ASSUME NEW g \in Clerks PROVE VisitOK(clerk[g])'
  <2>1. PICK u : u = clerk'[g]
    OBVIOUS
  <2>2. VisitOK(u)'
    <3>1. CASE g = k
      BY <1>1, <2>1, <3>1
    <3>2. CASE g # k
      BY <1>1, <2>1, <3>2, VisitAges DEF ClerksOK
    <3> QED
      BY <3>1, <3>2
  <2> QED
    BY <2>1, <2>2, VisitHeld
<1> QED
  BY <1>2 DEF ClerksOK, TypeOK

LEMMA DocsStill ==
  ASSUME IInv, UNCHANGED docVars
  PROVE  DocInv' /\ DraftFresh' /\ DocsAge
BY DocStepInv, DocStepAges DEF IInv

-----------------------------------------------------------------------------
(* Visits begin and end.                                                   *)

LEMMA ArriveInv ==
  ASSUME IInv, NEW k \in Clerks, NEW v \in Visit, Arrive(k, v), VisitOK(v)
  PROVE  IInv'
<1>1. DocInv' /\ DraftFresh' /\ DocsAge
  BY DocsStill DEF Arrive
<1>2. RequestsAge
  BY DEF Arrive, signatureVars, RequestsAge
<1>3. VisitOK(v)'
  BY <1>1, <1>2, VisitAges
<1>4. ClerksOK' /\ clerk' \in [Clerks -> Visit]
  BY <1>1, <1>2, <1>3, ClerksAge DEF IInv, Arrive
<1>5. EnvelopeInv'
  BY <1>1, EnvelopesAge DEF IInv, DocInv, Arrive
<1>6. TypeOK'
  BY <1>1, <1>4, SignaturesAssumption DEF IInv, DocInv, TypeOK, Arrive, signatureVars
<1> QED
  BY <1>1, <1>4, <1>5, <1>6 DEF IInv

LEMMA ReadsSignatureInv ==
  ASSUME IInv, NEW k \in Clerks
  PROVE  /\ \A d \in Docs : ReadForCreate(k, d) => IInv'
         /\ \A r \in Requests : ReadForSign(k, r) => IInv'
         /\ \A r \in Requests, to \in EnvelopeStatuses : ReadForEnvelope(k, r, to) => IInv'
<1>1. ASSUME NEW d \in Docs, ReadForCreate(k, d) PROVE IInv'
  <2> DEFINE v == [Away EXCEPT !.op = "create", !.doc = d]
  <2>1. v \in Visit /\ v.op = "create" /\ v.doc = d
    BY DEF Away, Visit, EnvelopeStatuses
  <2>2. "sent" \in reached[d]
    BY <1>1 DEF ReadForCreate, IInv, DocInv, RowInv, StampsTellPath
  <2>3. VisitOK(v)
    BY <2>1, <2>2 DEF VisitOK, CreateVisitOK
  <2> QED
    BY <1>1, <2>1, <2>3, ArriveInv DEF ReadForCreate
<1>2. ASSUME NEW r \in Requests, ReadForSign(k, r) PROVE IInv'
  <2> DEFINE v == [Away EXCEPT !.op = "sign", !.request = r, !.doc = subject[r], !.to = "signed"]
  <2>1. envelope[r] # "absent" /\ subject[r] \in Docs /\ "sent" \in marks[r]
    BY <1>2 DEF ReadForSign, OpenForSigner, IInv, TypeOK, EnvelopeInv, EnvelopePath
  <2>2. v \in Visit /\ v.op = "sign" /\ v.request = r /\ v.doc = subject[r]
    BY <2>1 DEF Away, Visit, EnvelopeStatuses
  <2>3. VisitOK(v)
    BY <2>1, <2>2 DEF VisitOK, SignVisitOK
  <2> QED
    BY <1>2, <2>2, <2>3, ArriveInv DEF ReadForSign
<1>3. ASSUME NEW r \in Requests, NEW to \in EnvelopeStatuses, ReadForEnvelope(k, r, to) PROVE IInv'
  <2> DEFINE v == [Away EXCEPT !.op = "move", !.request = r, !.to = to]
  <2>1. v \in Visit /\ v.op = "move" /\ v.request = r /\ v.to = to
    BY DEF Away, Visit, EnvelopeStatuses
  <2>2. envelope[r] # "absent" /\ <<envelope[r], to>> \in EnvelopeMoves
    BY <1>3 DEF ReadForEnvelope, Found
  <2>3. /\ to \in {"sent", "viewed", "declined", "cancelled"}
        /\ to \in {"viewed", "declined"} => envelope[r] \in {"sent", "viewed"}
    BY <2>2 DEF EnvelopeMoves, Cancellable, OpenForSigner
  <2>4. envelope[r] \in {"sent", "viewed"} => "sent" \in marks[r]
    BY DEF IInv, EnvelopeInv, EnvelopePath
  <2>5. VisitOK(v)
    BY <2>1, <2>2, <2>3, <2>4 DEF VisitOK, MoveVisitOK
  <2> QED
    BY <1>3, <2>1, <2>5, ArriveInv DEF ReadForEnvelope
<1> QED
  BY <1>1, <1>2, <1>3

\* A visit that ends or goes on, with the documents untouched.
LEMMA AwayOK == Away \in Visit /\ (\A v : v = Away => VisitOK(v)')
BY DEF Away, Visit, EnvelopeStatuses, VisitOK

LEMMA WithdrawInv ==
  ASSUME IInv, NEW k \in Clerks, Withdraw(k)
  PROVE  IInv'
<1>1. DocInv' /\ DraftFresh' /\ DocsAge
  BY DocsStill DEF Withdraw
<1>2. RequestsAge
  BY DEF Withdraw, signatureVars, RequestsAge
<1>3. ClerksOK' /\ clerk' \in [Clerks -> Visit]
  BY <1>1, <1>2, AwayOK, ClerksAge DEF IInv, Withdraw, Leave
<1>4. EnvelopeInv'
  BY <1>1, EnvelopesAge DEF IInv, DocInv, Withdraw
<1>5. TypeOK'
  BY <1>1, <1>3 DEF IInv, DocInv, TypeOK, Withdraw, Leave, signatureVars
<1> QED
  BY <1>1, <1>3, <1>4, <1>5 DEF IInv

-----------------------------------------------------------------------------
(* Commits on requests.                                                    *)

LEMMA CommitRequestInv ==
  ASSUME IInv, NEW k \in Clerks, NEW r \in Requests, CommitRequest(k, r)
  PROVE  IInv'
<1>1. DocInv' /\ DraftFresh' /\ DocsAge
  BY DocsStill DEF CommitRequest
<1>2. PICK v \in Visit : v = clerk[k]
  BY DEF IInv, TypeOK
<1>3. v.doc \in Docs /\ "sent" \in reached[v.doc] /\ v.doc # NoRow
  BY <1>2, DocumentsAssumption DEF IInv, ClerksOK, VisitOK, CreateVisitOK, CommitRequest, Docs
<1>4. marks[r] = {} /\ UNCHANGED <<status, reached, deleted, undone>>
  BY DEF IInv, EnvelopeInv, FreshRequests, CommitRequest, docVars, rowVars
<1>5. \A q \in Requests : /\ envelope'[q] = IF q = r THEN "drafted" ELSE envelope[q]
                          /\ subject'[q] = IF q = r THEN v.doc ELSE subject[q]
  BY <1>2 DEF IInv, TypeOK, CommitRequest
<1>6. RequestsAge
  BY <1>5 DEF RequestsAge, CommitRequest
<1>7. ClerksOK' /\ clerk' \in [Clerks -> Visit]
  BY <1>1, <1>6, AwayOK, ClerksAge DEF IInv, CommitRequest, Leave
<1>8. EnvelopeInv'
  BY <1>3, <1>4, <1>5
     DEF IInv, EnvelopeInv, EnvelopePath, SignedHasEvidence, SignedDecides, FreshRequests, CommitRequest
<1>9. TypeOK'
  BY <1>1, <1>2, <1>3, <1>7 DEF IInv, DocInv, TypeOK, CommitRequest, Leave, EnvelopeStatuses
<1> QED
  BY <1>1, <1>7, <1>8, <1>9 DEF IInv

LEMMA CommitEnvelopeInv ==
  ASSUME IInv, NEW k \in Clerks, CommitEnvelope(k)
  PROVE  IInv'
<1>1. DocInv' /\ DraftFresh' /\ DocsAge
  BY DocsStill DEF CommitEnvelope
<1>2. PICK v \in Visit : v = clerk[k]
  BY DEF IInv, TypeOK
<1>3. MoveVisitOK(v)
  BY <1>2 DEF IInv, ClerksOK, VisitOK, CommitEnvelope
<1>4. PICK r \in Requests : r = v.request
  BY <1>3 DEF MoveVisitOK
<1>5. /\ envelope' = [envelope EXCEPT ![r] = v.to]
      /\ marks' = [marks EXCEPT ![r] = marks[r] \union ({v.to} \ {"cancelled"})]
      /\ UNCHANGED <<docVars, subject, erased, evidence>>
  BY <1>2, <1>4 DEF CommitEnvelope
<1>6. \A q \in Requests : /\ envelope'[q] = IF q = r THEN v.to ELSE envelope[q]
                          /\ marks'[q] = IF q = r THEN marks[r] \union ({v.to} \ {"cancelled"}) ELSE marks[q]
  BY <1>5 DEF IInv, TypeOK
<1>7. RequestsAge
  BY <1>3, <1>5, <1>6 DEF RequestsAge, MoveVisitOK
<1>8. ClerksOK' /\ clerk' \in [Clerks -> Visit]
  BY <1>1, <1>7, AwayOK, ClerksAge DEF IInv, CommitEnvelope, Leave
<1>9. EnvelopeInv'
  <2>1. UNCHANGED <<status, reached, deleted, undone>>
    BY <1>5 DEF docVars, rowVars
  <2>2. EnvelopePath'
    BY <1>3, <1>4, <1>5, <1>6, <2>1 DEF IInv, EnvelopeInv, EnvelopePath, MoveVisitOK
  <2>3. \A q \in Requests : "signed" \in marks'[q] => "signed" \in marks[q]
    BY <1>3, <1>6 DEF MoveVisitOK
  <2>4. SignedHasEvidence' /\ SignedDecides'
    BY <1>5, <2>1, <2>3 DEF IInv, EnvelopeInv, SignedHasEvidence, SignedDecides
  <2>5. FreshRequests'
    BY <1>3, <1>6 DEF IInv, EnvelopeInv, FreshRequests, MoveVisitOK
  <2> QED
    BY <2>2, <2>4, <2>5 DEF EnvelopeInv
<1>10. TypeOK'
  <2>1. v.to \in EnvelopeStatuses
    BY <1>3 DEF MoveVisitOK, EnvelopeStatuses
  <2>2. marks[r] \union ({v.to} \ {"cancelled"}) \in SUBSET EnvelopeStatuses
    BY <2>1 DEF IInv, TypeOK
  <2>3. /\ envelope' \in [Requests -> EnvelopeStatuses \union {"absent"}]
        /\ marks' \in [Requests -> SUBSET EnvelopeStatuses]
    BY <1>5, <2>1, <2>2 DEF IInv, TypeOK
  <2> QED
    BY <1>1, <1>5, <1>8, <2>3 DEF IInv, DocInv, TypeOK, CommitEnvelope, Leave
<1> QED
  BY <1>1, <1>8, <1>9, <1>10 DEF IInv

LEMMA DeleteRequestInv ==
  ASSUME IInv, NEW r \in Requests, DeleteRequest(r)
  PROVE  IInv'
<1>1. DocInv' /\ DraftFresh' /\ DocsAge
  BY DocsStill DEF DeleteRequest
<1>2. UNCHANGED <<status, reached, deleted, undone>> /\ UNCHANGED <<envelope, marks, subject, evidence, clerk>>
  BY DEF DeleteRequest, docVars, rowVars, clerkVars
<1>3. EnvelopeInv'
  BY <1>2 DEF IInv, EnvelopeInv, EnvelopePath, SignedHasEvidence, SignedDecides, FreshRequests
<1>4. ClerksOK'
  BY <1>2 DEF IInv, ClerksOK, VisitOK, CreateVisitOK, MoveVisitOK, SignVisitOK, Settled
<1>5. TypeOK'
  BY <1>1, <1>2 DEF IInv, DocInv, TypeOK, DeleteRequest, clerkVars
<1> QED
  BY <1>1, <1>3, <1>4, <1>5 DEF IInv

-----------------------------------------------------------------------------
(* Signing.                                                                *)

LEMMA StoreArtifactInv ==
  ASSUME IInv, NEW k \in Clerks, StoreArtifact(k)
  PROVE  IInv'
<1>1. DocInv' /\ DraftFresh' /\ DocsAge
  BY DocsStill DEF StoreArtifact
<1>2. PICK u \in Visit : u = clerk[k]
  BY DEF IInv, TypeOK
<1>3. SignVisitOK(u)
  BY <1>2 DEF IInv, ClerksOK, VisitOK, StoreArtifact
<1> DEFINE v == [u EXCEPT !.op = "filed"]
<1>4. /\ v \in Visit /\ v.op = "filed" /\ v.request = u.request /\ v.doc = u.doc
      /\ clerk' = [clerk EXCEPT ![k] = v]
  BY <1>2 DEF Visit, StoreArtifact
<1>5. evidence' = evidence \union {u.request} /\ UNCHANGED <<envelope, marks, subject, erased>>
  BY <1>2 DEF StoreArtifact
<1>6. RequestsAge
  BY <1>5 DEF RequestsAge
<1>7. SignVisitOK(v)'
  BY <1>3, <1>4, <1>5 DEF SignVisitOK
<1>8. ClerksOK' /\ clerk' \in [Clerks -> Visit]
  BY <1>1, <1>4, <1>6, <1>7, ClerksAge DEF IInv, VisitOK
<1>9. EnvelopeInv'
  <2>1. UNCHANGED <<status, reached, deleted, undone>>
    BY DEF StoreArtifact, docVars, rowVars
  <2> QED
    BY <1>5, <2>1 DEF IInv, EnvelopeInv, EnvelopePath, SignedHasEvidence, SignedDecides, FreshRequests
<1>10. TypeOK'
  BY <1>1, <1>3, <1>5, <1>8 DEF IInv, DocInv, TypeOK, StoreArtifact, SignVisitOK
<1> QED
  BY <1>1, <1>8, <1>9, <1>10 DEF IInv

\* A document that was sent, and is no longer waiting, is settled.
LEMMA NotWaiting ==
  ASSUME DocInv, DraftFresh, NEW d \in Docs, "sent" \in reached[d], ~(Live(d) /\ status[d] = "sent")
  PROVE  Settled(d)
<1>1. Exists(d) /\ status[d] # "draft"
  BY DEF DocInv, RowInv, RowsOK, DraftFresh
<1>2. CASE deleted[d]
  BY <1>2 DEF Settled
<1>3. CASE ~deleted[d]
  <2>1. status[d] \in reached[d] /\ status[d] # "sent"
    BY <1>1, <1>3 DEF Live, Exists, DocInv, RowInv, StampsTellPath
  <2>2. status[d] \in {"accepted", "declined", "signed", "active", "terminated"}
    BY <1>1, <2>1 DEF DocInv, DocTypeOK, Statuses, Exists
  <2> QED
    BY <2>2 DEF Settled, Undecided
<1> QED
  BY <1>2, <1>3

LEMMA FlushSignatureInv ==
  ASSUME IInv, NEW k \in Clerks, FlushSignature(k)
  PROVE  IInv'
<1>1. DocInv' /\ DraftFresh' /\ DocsAge
  BY DocsStill DEF FlushSignature
<1>2. PICK u \in Visit : u = clerk[k]
  BY DEF IInv, TypeOK
<1>3. SignVisitOK(u) /\ u.request \in evidence
  BY <1>2 DEF IInv, ClerksOK, VisitOK, SignVisitOK, FlushSignature
<1>4. PICK b \in BOOLEAN : b = (Live(u.doc) /\ status[u.doc] = "sent")
  OBVIOUS
<1> DEFINE v == [u EXCEPT !.op = "flushed", !.completes = b]
<1>5. /\ v \in Visit /\ v.op = "flushed" /\ v.request = u.request /\ v.doc = u.doc /\ v.completes = b
      /\ clerk' = [clerk EXCEPT ![k] = v]
  BY <1>2, <1>4 DEF Visit, FlushSignature
<1>6. "sent" \in reached[u.doc]
  BY <1>3 DEF SignVisitOK, IInv, EnvelopeInv, EnvelopePath
<1>7. ~b => Settled(u.doc)
  BY <1>3, <1>4, <1>6, NotWaiting DEF IInv, SignVisitOK
<1>8. SignVisitOK(v)
  BY <1>3, <1>5, <1>7 DEF SignVisitOK
<1>9. RequestsAge
  BY DEF FlushSignature, signatureVars, RequestsAge
<1>10. VisitOK(v)'
  BY <1>1, <1>5, <1>8, <1>9, VisitAges DEF VisitOK
<1>11. ClerksOK' /\ clerk' \in [Clerks -> Visit]
  BY <1>1, <1>5, <1>9, <1>10, ClerksAge DEF IInv
<1>12. EnvelopeInv'
  BY <1>1, EnvelopesAge DEF IInv, DocInv, FlushSignature
<1>13. TypeOK'
  BY <1>1, <1>11 DEF IInv, DocInv, TypeOK, FlushSignature, signatureVars
<1> QED
  BY <1>1, <1>11, <1>12, <1>13 DEF IInv

\* The document of a signature: its status and timestamp as in CommitMove.
LEMMA CompleteInv ==
  ASSUME IInv, NEW d \in Docs, "sent" \in reached[d], CompleteDocument(d)
  PROVE  DocInv' /\ DraftFresh' /\ DocsAge /\ Settled(d)'
<1>1. PICK to \in Statuses : to = Outcome(d)
  BY DEF Outcome, Statuses
<1>2. <<"sent", to>> \in Moves(d) /\ to \notin Undecided /\ to # "draft"
  BY <1>1 DEF Outcome, Moves, QuoteMoves, ContractMoves, Undecided
<1>3. /\ status' = [status EXCEPT ![d] = to]
      /\ reached' = [reached EXCEPT ![d] = reached[d] \union {to}]
      /\ UNCHANGED <<deleted, number, version, superseded, origin, amended, undone, handler, requests>>
  BY <1>1 DEF CompleteDocument
<1>4. Exists(d)
  BY DEF IInv, DocInv, RowInv, RowsOK
<1>5. RowInv' /\ RowsKept
  BY <1>2, <1>3, <1>4, StatusInv DEF IInv, DocInv
<1>6. DocTypeOK'
  BY <1>3 DEF IInv, DocInv, DocTypeOK
<1>7. ASSUME NEW g \in Handlers PROVE TaskOK(handler[g])'
  <2>1. PICK u : u = handler'[g]
    OBVIOUS
  <2>2. TaskOK(u) /\ (u.op = "create" => \A c \in u.table : u.number # 0 => number'[c] < u.number)
    BY <1>3, <2>1 DEF IInv, DocInv, HandlersOK, TaskOK, CreateOK
  <2>3. TaskOK(u)'
    BY <1>5, <2>2, TaskKept
  <2> QED
    BY <2>1, <2>3, TaskHeld
<1>8. OneCreator'
  BY <1>3 DEF IInv, DocInv, OneCreator
<1>9. DocInv'
  BY <1>5, <1>6, <1>7, <1>8 DEF DocInv, HandlersOK
<1>10. DraftFresh' /\ DocsAge /\ Settled(d)'
  BY <1>2, <1>3 DEF IInv, DocInv, DocTypeOK, DraftFresh, DocsAge, Settled
<1> QED
  BY <1>9, <1>10

LEMMA CommitSignatureInv ==
  ASSUME IInv, NEW k \in Clerks, CommitSignature(k)
  PROVE  IInv'
<1>1. PICK v \in Visit : v = clerk[k]
  BY DEF IInv, TypeOK
<1>2. SignVisitOK(v) /\ v.op = "flushed"
  BY <1>1 DEF IInv, ClerksOK, VisitOK, CommitSignature
<1>3. PICK r \in Requests : r = v.request
  BY <1>2 DEF SignVisitOK
<1>4. PICK d \in Docs : d = v.doc /\ d = subject[r]
  BY <1>2, <1>3 DEF SignVisitOK
<1>5. "sent" \in reached[d] /\ "sent" \in marks[r] /\ r \in evidence /\ envelope[r] # "absent"
  BY <1>2, <1>3, <1>4 DEF SignVisitOK, IInv, EnvelopeInv, EnvelopePath
<1>6. /\ envelope' = [envelope EXCEPT ![r] = "signed"]
      /\ marks' = [marks EXCEPT ![r] = marks[r] \union {"signed"}]
      /\ UNCHANGED <<subject, erased, evidence>>
      /\ v.completes => CompleteDocument(d)
      /\ ~v.completes => UNCHANGED docVars
  BY <1>1, <1>3, <1>4 DEF CommitSignature
<1>7. DocInv' /\ DraftFresh' /\ DocsAge /\ Settled(d)'
  <2>1. CASE v.completes
    BY <1>5, <1>6, <2>1, CompleteInv
  <2>2. CASE ~v.completes
    <3>1. Settled(d)
      BY <1>2, <1>4, <2>2 DEF SignVisitOK
    <3> QED
      BY <1>6, <2>2, <3>1, DocsStill DEF Settled, DocsAge
  <2> QED
    BY <2>1, <2>2 DEF Visit
<1>8. \A q \in Requests : /\ envelope'[q] = IF q = r THEN "signed" ELSE envelope[q]
                          /\ marks'[q] = IF q = r THEN marks[r] \union {"signed"} ELSE marks[q]
  BY <1>6 DEF IInv, TypeOK
<1>9. RequestsAge
  BY <1>6, <1>8 DEF RequestsAge
<1>10. ClerksOK' /\ clerk' \in [Clerks -> Visit]
  BY <1>7, <1>9, AwayOK, ClerksAge DEF IInv, CommitSignature, Leave
<1>11. EnvelopeInv'
  <2>1. EnvelopePath'
    <3>1. \A q \in Requests : envelope[q] # "absent" => subject[q] \in Docs
      BY DEF IInv, TypeOK, EnvelopeInv, EnvelopePath
    <3> QED
      BY <1>5, <1>6, <1>7, <1>8, <3>1 DEF IInv, EnvelopeInv, EnvelopePath, DocsAge
  <2>2. SignedHasEvidence' /\ FreshRequests'
    BY <1>5, <1>6, <1>8 DEF IInv, EnvelopeInv, SignedHasEvidence, FreshRequests
  <2>3. ASSUME NEW q \in Requests, "signed" \in marks'[q] PROVE Settled(subject[q])'
    <3>1. CASE q = r
      BY <1>4, <1>6, <1>7, <3>1 DEF Settled
    <3>2. CASE q # r
      <4>1. PICK c \in Docs : c = subject[q]
        BY <1>8, <2>3, <3>2 DEF IInv, TypeOK, EnvelopeInv, EnvelopePath, FreshRequests
      <4>2. Settled(c)
        BY <1>8, <2>3, <3>2, <4>1 DEF IInv, EnvelopeInv, SignedDecides, Settled
      <4> QED
        BY <1>6, <1>7, <4>1, <4>2 DEF Settled, DocsAge
    <3> QED
      BY <3>1, <3>2
  <2>4. SignedDecides'
    BY <2>3 DEF SignedDecides, Settled
  <2> QED
    BY <2>1, <2>2, <2>4 DEF EnvelopeInv
<1>12. TypeOK'
  <2>1. marks[r] \union {"signed"} \in SUBSET EnvelopeStatuses
    BY DEF IInv, TypeOK, EnvelopeStatuses
  <2>2. /\ envelope' \in [Requests -> EnvelopeStatuses \union {"absent"}]
        /\ marks' \in [Requests -> SUBSET EnvelopeStatuses]
    BY <1>6, <2>1 DEF IInv, TypeOK, EnvelopeStatuses
  <2> QED
    BY <1>6, <1>7, <1>10, <2>2 DEF IInv, DocInv, TypeOK, CommitSignature, Leave
<1> QED
  BY <1>7, <1>10, <1>11, <1>12 DEF IInv

-----------------------------------------------------------------------------
LEMMA DocumentStepInv ==
  ASSUME IInv, [DocNext]_docVars, UNCHANGED <<signatureVars, clerkVars>>
  PROVE  IInv'
<1>1. DocInv' /\ DraftFresh' /\ DocsAge
  BY DocStepInv, DocStepAges DEF IInv
<1>2. RequestsAge
  BY DEF signatureVars, RequestsAge
<1>3. ASSUME NEW g \in Clerks PROVE VisitOK(clerk[g])'
  <2>1. PICK u : u = clerk'[g]
    OBVIOUS
  <2>2. VisitOK(u)
    BY <2>1 DEF IInv, ClerksOK, clerkVars
  <2> QED
    BY <1>1, <1>2, <2>1, <2>2, VisitAges, VisitHeld
<1>4. EnvelopeInv'
  BY <1>1, EnvelopesAge DEF IInv, DocInv
<1>5. TypeOK'
  BY <1>1 DEF IInv, DocInv, TypeOK, signatureVars, clerkVars
<1> QED
  BY <1>1, <1>3, <1>4, <1>5 DEF IInv, ClerksOK

LEMMA StepIInv == IInv /\ [Next]_vars => IInv'
<1> SUFFICES ASSUME IInv, [Next]_vars PROVE IInv'
  OBVIOUS
<1>1. CASE DocumentStep
  BY <1>1, DocumentStepInv DEF DocumentStep
<1>2. ASSUME NEW k \in Clerks, NEW d \in Docs, ReadForCreate(k, d) PROVE IInv'
  BY <1>2, ReadsSignatureInv
<1>3. ASSUME NEW k \in Clerks, NEW r \in Requests, CommitRequest(k, r) \/ ReadForSign(k, r) PROVE IInv'
  BY <1>3, CommitRequestInv, ReadsSignatureInv
<1>4. ASSUME NEW k \in Clerks, NEW r \in Requests, NEW to \in EnvelopeStatuses, ReadForEnvelope(k, r, to)
      PROVE IInv'
  BY <1>4, ReadsSignatureInv
<1>5. ASSUME NEW k \in Clerks,
             CommitEnvelope(k) \/ StoreArtifact(k) \/ FlushSignature(k) \/ CommitSignature(k) \/ Withdraw(k)
      PROVE IInv'
  BY <1>5, CommitEnvelopeInv, StoreArtifactInv, FlushSignatureInv, CommitSignatureInv, WithdrawInv
<1>6. ASSUME NEW r \in Requests, DeleteRequest(r) PROVE IInv'
  BY <1>6, DeleteRequestInv
<1>7. CASE UNCHANGED vars
  BY <1>7, DocumentStepInv DEF vars
<1> QED
  BY <1>1, <1>2, <1>3, <1>4, <1>5, <1>6, <1>7 DEF Next, SignatureNext

LEMMA SpecInv == Spec => []IInv
BY InitIInv, StepIInv, PTL DEF Spec

\* Type correctness of the signature requests, the documents and the visits.
THEOREM TypeCorrect == Spec => []TypeOK
<1>1. IInv => TypeOK
  BY DEF IInv
<1> QED
  BY <1>1, SpecInv, PTL

\* However staff, signer and vendor race, an envelope's timestamps and its
\* document's tell that both were sent.
THEOREM EnvelopesTold == Spec => []EnvelopePath
<1>1. IInv => EnvelopePath
  BY DEF IInv, EnvelopeInv
<1> QED
  BY <1>1, SpecInv, PTL

\* _complete_signature commits no signature without its audit trail in S3.
THEOREM SignaturesEvidenced == Spec => []SignedHasEvidence
<1>1. IInv => SignedHasEvidence
  BY DEF IInv, EnvelopeInv
<1> QED
  BY <1>1, SpecInv, PTL

\* A signature decides its document, or finds it decided or deleted, although
\* it reads the document in one step and writes it in another.
THEOREM SignaturesDecide == Spec => []SignedDecides
<1>1. IInv => SignedDecides
  BY DEF IInv, EnvelopeInv
<1> QED
  BY <1>1, SpecInv, PTL

\* The paths of the documents stay legal when signatures decide them.
THEOREM SignedPathsTold == Spec => []StampsTellPath
<1>1. IInv => StampsTellPath
  BY DEF IInv, DocInv, RowInv
<1> QED
  BY <1>1, SpecInv, PTL
=============================================================================
