--------------------------- MODULE Records_proofs ---------------------------
(***************************************************************************)
(* Theorems about Records, for any rows, tabs, first pages and bounds.     *)
(***************************************************************************)
EXTENDS Records, TLAPS

-----------------------------------------------------------------------------
(* What the protocols of the pages have in common.                         *)

\* What a save of a page may send, and where a save or an Edit link may lead:
\* a cached page is of one row and leads to another page.
LEMMA Protocols ==
  ASSUME NEW k \in Kinds
  PROVE  /\ Protocol[k].patches \subseteq SUBSET Fields
         /\ Protocol[k].next \in Kinds \union {"none"}
         /\ Protocol[k].cached => Protocol[k].next \in Kinds /\ ~Protocol[k].list
         /\ Protocol[k].done \in {"leave", "keep", "drop"}
<1>1. Kinds = {"lead_edit", "customer_edit", "company_edit", "product_edit",
               "deal_edit", "deal_page", "lead_page", "board", "tasks", "hoje"}
  BY DEF Kinds, Protocol
<1>2. CASE k = "lead_edit"
  <2>1. Protocol[k] = LeadEditPage
    BY <1>2 DEF Protocol
  <2> QED
    BY <1>1, <2>1 DEF LeadEditPage, EditPage, Fields
<1>3. CASE k = "customer_edit"
  <2>1. Protocol[k] = CustomerEditPage
    BY <1>3 DEF Protocol
  <2> QED
    BY <1>1, <2>1 DEF CustomerEditPage, EditPage, Fields
<1>4. CASE k = "company_edit"
  <2>1. Protocol[k] = CompanyEditPage
    BY <1>4 DEF Protocol
  <2> QED
    BY <1>1, <2>1 DEF CompanyEditPage, EditPage, Fields
<1>5. CASE k = "product_edit"
  <2>1. Protocol[k] = ProductEditPage
    BY <1>5 DEF Protocol
  <2> QED
    BY <1>1, <2>1 DEF ProductEditPage, EditPage, Fields
<1>6. CASE k = "deal_edit"
  <2>1. Protocol[k] = DealEditPage
    BY <1>6 DEF Protocol
  <2> QED
    BY <1>1, <2>1 DEF DealEditPage, EditPage, Fields
<1>7. CASE k = "deal_page"
  <2>1. Protocol[k] = DealPage
    BY <1>7 DEF Protocol
  <2> QED
    BY <1>1, <2>1 DEF DealPage, EditPage, Fields
<1>8. CASE k = "lead_page"
  <2>1. Protocol[k] = LeadPage
    BY <1>8 DEF Protocol
  <2> QED
    BY <1>1, <2>1 DEF LeadPage, EditPage, DealPage, Fields
<1>9. CASE k = "board"
  <2>1. Protocol[k] = Board
    BY <1>9 DEF Protocol
  <2> QED
    BY <1>1, <2>1 DEF Board, EditPage, Fields
<1>10. CASE k = "tasks"
  <2>1. Protocol[k] = TasksPage
    BY <1>10 DEF Protocol
  <2> QED
    BY <1>1, <2>1 DEF TasksPage, EditPage, Board, Fields
<1>11. CASE k = "hoje"
  <2>1. Protocol[k] = HojePage
    BY <1>11 DEF Protocol
  <2> QED
    BY <1>1, <2>1 DEF HojePage, EditPage, Board, TasksPage, Fields
<1> QED
  BY <1>1, <1>2, <1>3, <1>4, <1>5, <1>6, <1>7, <1>8, <1>9, <1>10, <1>11

\* A new call is well typed.
LEMMA CallTyped ==
  ASSUME TypeOK, NEW c \in Tabs \union {System}, NEW p \in Kinds \union {"gone"},
         NEW op \in Ops, NEW r \in Recs
  PROVE  Call(c, p, op, r) \in CallType
  BY DEF TypeOK, Call, CallType, NoRow, NoRows, Rows, Contents, Blank, Fields

\* An answered call is well typed.
LEMMA AnswerTyped ==
  ASSUME NEW m \in CallType, NEW rows \in [Recs -> Rows],
         NEW code \in {"none", "ok", "404", "412", "428", "lost"}
  PROVE  Answer(m, code, rows) \in CallType
  BY DEF Answer, CallType

\* A row, and a copy of one, are well typed.
LEMMA RowTyped ==
  ASSUME TypeOK
  PROVE  /\ NoRows \in [Recs -> Rows]
         /\ \A r \in Recs : Row(r) \in Rows
         /\ NoCopy \in Copies
         /\ \A row \in Rows : AsCopy(row) \in Copies
  BY DEF TypeOK, NoRow, NoRows, Row, Rows, Contents, Blank, Fields, NoCopy, AsCopy, Copies

-----------------------------------------------------------------------------
(* Types.                                                                  *)

\* A fetch of a page is well typed.
LEMMA FetchTyped ==
  ASSUME TypeOK, NEW c \in Tabs, NEW k \in Kinds
  PROVE  Fetch(c, k) \in CallType
<1>1. tab[c].own \in Recs /\ (IF Protocol[k].list THEN "list" ELSE "load") \in Ops
  BY DEF TypeOK, TabType, Ops
<1> QED
  BY <1>1, CallTyped DEF Fetch

\* Opening a page keeps the types.
LEMMA EnterTyped ==
  ASSUME TypeOK, NEW c \in Tabs, NEW k \in Kinds, NEW t \in TabType,
         NEW n \in SUBSET CallType, Enter(c, k, t, n)
  PROVE  tab' \in [Tabs -> TabType] /\ net' \subseteq CallType /\ calls' \in Nat
<1> DEFINE left == {IF m.by = c /\ m.page # "gone" /\ ~Protocol[m.page].cached
                      THEN [m EXCEPT !.page = "gone"] ELSE m : m \in n}
           warm == Protocol[k].cached /\ t.cache # NoCopy
           u == [t EXCEPT !.page = k, !.form = Blank, !.rebased = FALSE, !.stuck = FALSE,
                          !.copy = [r \in Recs |-> NoCopy],
                          !.phase = IF warm THEN "open" ELSE "loading"]
<1>1. left \subseteq CallType
  BY DEF CallType
<1>2. u \in TabType
  BY RowTyped DEF TabType, Contents, Blank, Fields
<1>3. tab' = [tab EXCEPT ![c] = u]
  BY DEF Enter
<1>4. net' = left \union {Fetch(c, k)} \/ net' = left
  BY DEF Enter
<1> QED
  BY <1>1, <1>2, <1>3, <1>4, FetchTyped DEF Enter, TypeOK

\* Every step keeps the types.
LEMMA NextTypeOK == TypeOK /\ [Next]_vars => TypeOK'
<1> SUFFICES ASSUME TypeOK, [Next]_vars PROVE TypeOK'
  OBVIOUS
<1> USE RecordsAssumption DEF RecordsAssumption
<1>1. ASSUME NEW m \in net, Read(m) PROVE TypeOK'
  <2> DEFINE seen == {r \in Recs : rec[r].live /\ (m.op = "list" \/ r = m.row)}
             code == IF m.op # "list" /\ seen = {} THEN "404" ELSE "ok"
             rows == [r \in Recs |-> IF r \in seen THEN Row(r) ELSE NoRow]
  <2>1. rows \in [Recs -> Rows]
    BY RowTyped DEF NoRows
  <2>2. Answer(m, code, rows) \in CallType
    BY <2>1, AnswerTyped DEF TypeOK
  <2> QED
    BY <1>1, <2>2 DEF Read, Becomes, TypeOK
<1>2. ASSUME NEW m \in net, Open(m) PROVE TypeOK'
  <2>1. m \in CallType /\ m.row \in Recs
    BY DEF TypeOK, CallType
  <2>2. CheckIfMatch(m) \in {"none", "404", "412", "428"}
    BY DEF CheckIfMatch
  <2>3. Answer(m, CheckIfMatch(m), NoRows) \in CallType
    BY <2>1, <2>2, RowTyped, AnswerTyped
  <2>4. [m EXCEPT !.st = "open", !.snap = Row(m.row)] \in CallType
    BY <2>1, RowTyped DEF CallType
  <2>5. net' \subseteq CallType /\ forked' \subseteq Recs
    BY <1>2, <2>1, <2>3, <2>4 DEF Open, Becomes, Forks, TypeOK
  <2> QED
    BY <1>2, <2>5 DEF Open, TypeOK
<1>3. ASSUME NEW m \in net, Commit(m) PROVE TypeOK'
  <2> DEFINE old == rec[m.row]
             cont == [f \in Fields |->
                       IF f \in Written(m) THEN m.pay[f] ELSE old.cont[f]]
             ver == IF Bumps(m) THEN m.snap.ver + 1 ELSE old.ver
             rows == [NoRows EXCEPT ![m.row] = [ver |-> ver, cont |-> cont]]
  <2>1. m \in CallType /\ m.row \in Recs /\ m.rebased \in BOOLEAN
    BY DEF TypeOK, CallType
  <2>2. cont \in Contents /\ ver \in Nat
    BY <2>1 DEF TypeOK, CallType, Contents, Rows
  <2>3. rec' \in [Recs -> [ver : Nat, cont : Contents, live : BOOLEAN]]
    BY <1>3, <2>1, <2>2 DEF Commit, TypeOK
  <2>4. rows \in [Recs -> Rows]
    BY <2>1, <2>2, RowTyped DEF Rows
  <2>5. Answer(m, "ok", rows) \in CallType
    BY <2>1, <2>4, AnswerTyped
  <2>6. net' \subseteq CallType
    BY <1>3, <2>5 DEF Commit, Becomes, TypeOK
  <2>7. blind' \subseteq [row : Recs, rebased : BOOLEAN] /\ silent' \subseteq Recs
    BY <1>3, <2>1 DEF Commit, TypeOK
  <2> QED
    BY <1>3, <2>3, <2>6, <2>7 DEF Commit, TypeOK
<1>4. ASSUME NEW m \in net, Remove(m) PROVE TypeOK'
  <2>1. m \in CallType /\ m.row \in Recs
    BY DEF TypeOK, CallType
  <2>2. Answer(m, IF rec[m.row].live THEN "ok" ELSE "404", NoRows) \in CallType
    BY <2>1, RowTyped, AnswerTyped
  <2> QED
    BY <1>4, <2>1, <2>2 DEF Remove, Becomes, TypeOK
<1>5. ASSUME NEW m \in net, Lose(m) PROVE TypeOK'
  <2>1. Answer(m, "lost", NoRows) \in CallType
    BY RowTyped, AnswerTyped DEF TypeOK
  <2> QED
    BY <1>5, <2>1 DEF Lose, Becomes, TypeOK
<1>6. ASSUME NEW m \in net, Unheard(m) PROVE TypeOK'
  BY <1>6 DEF Unheard, TypeOK
<1>7. ASSUME NEW r \in Recs, NEW op \in {"auto", "import"}, Background(r, op)
      PROVE  TypeOK'
  <2> DEFINE f == IF op = "auto" THEN "stage" ELSE "rest"
             new == [Call(System, "gone", op, r) EXCEPT
                       !.fields = {f}, !.pay[f] = calls + 1,
                       !.st = "open", !.snap = Row(r)]
  <2>1. Call(System, "gone", op, r) \in CallType /\ f \in Fields
    BY CallTyped DEF Ops, Fields
  <2>2. [Call(System, "gone", op, r).pay EXCEPT ![f] = calls + 1] \in Contents
    BY <2>1 DEF CallType, Contents, TypeOK
  <2>3. new = [[[[Call(System, "gone", op, r) EXCEPT !.fields = {f}] EXCEPT
                   !.pay = [Call(System, "gone", op, r).pay EXCEPT ![f] = calls + 1]]
                 EXCEPT !.st = "open"] EXCEPT !.snap = Row(r)]
    BY <2>1 DEF CallType
  <2>4. new \in CallType
    <3> DEFINE one == [Call(System, "gone", op, r) EXCEPT !.fields = {f}]
               two == [one EXCEPT
                         !.pay = [Call(System, "gone", op, r).pay EXCEPT ![f] = calls + 1]]
    <3>1. one \in CallType
      BY <2>1 DEF CallType
    <3> HIDE DEF one
    <3>2. two \in CallType
      BY <2>2, <3>1 DEF CallType
    <3> HIDE DEF two
    <3>3. [[two EXCEPT !.st = "open"] EXCEPT !.snap = Row(r)] \in CallType
      BY <3>2, RowTyped DEF CallType
    <3> QED
      BY <2>3, <3>3 DEF one, two
  <2>5. net' \subseteq CallType /\ forked' \subseteq Recs
    BY <1>7, <2>4 DEF Background, Forks, TypeOK
  <2> QED
    BY <1>7, <2>5 DEF Background, TypeOK
<1>8. ASSUME NEW c \in Tabs, GoEdit(c) PROVE TypeOK'
  <2>1. P(c).next \in Kinds /\ tab[c] \in TabType
    BY <1>8, Protocols DEF GoEdit, P, TypeOK, TabType
  <2>2. Enter(c, P(c).next, tab[c], net) /\ net \in SUBSET CallType
    BY <1>8 DEF GoEdit, TypeOK
  <2>3. tab' \in [Tabs -> TabType] /\ net' \subseteq CallType /\ calls' \in Nat
    BY <2>1, <2>2, EnterTyped
  <2> QED
    BY <1>8, <2>3 DEF GoEdit, TypeOK
<1>9. ASSUME NEW c \in Tabs, NEW r \in Recs, Delete(c, r) PROVE TypeOK'
  <2>1. Call(c, tab[c].page, "delete", r) \in CallType
    BY CallTyped DEF TypeOK, TabType, Ops
  <2> QED
    BY <1>9, <2>1 DEF Delete, Sent, TypeOK
<1>10. ASSUME NEW c \in Tabs, NEW r \in Recs, NEW s \in SUBSET Fields, Save(c, r, s)
       PROVE  TypeOK'
  <2>1. PICK form \in {tab[c].form, [tab[c].form EXCEPT !["stage"] = calls + 1]} :
           /\ net' = Sent([Call(c, tab[c].page, "save", r) EXCEPT
                  !.ifm = IF P(c).echoes THEN Held(c, r).ver ELSE 0,
                  !.fields = s, !.base = Held(c, r).cont,
                  !.rebased = tab[c].rebased,
                  !.pay = IF IsForm(tab[c].page) THEN form
                          ELSE [g \in Fields |-> IF g \in s THEN calls + 1 ELSE 0]],
                  {})
           /\ tab' = [tab EXCEPT ![c].form = form,
                    ![c].copy[r].guess = IF P(c).guesses THEN calls + 1 ELSE @]
    BY <1>10 DEF Save
  <2>2. tab[c] \in TabType /\ form \in Contents /\ calls + 1 \in Nat
    BY DEF TypeOK, TabType, Contents, Fields
  <2>3. Held(c, r) \in Copies
    BY <2>2 DEF Held, TabType
  <2>4. Call(c, tab[c].page, "save", r) \in CallType
    BY <2>2, CallTyped DEF TabType, Ops
  <2> DEFINE pay == IF IsForm(tab[c].page) THEN form
                    ELSE [g \in Fields |-> IF g \in s THEN calls + 1 ELSE 0]
             ifm == IF P(c).echoes THEN Held(c, r).ver ELSE 0
             new == [Call(c, tab[c].page, "save", r) EXCEPT
                       !.ifm = ifm, !.fields = s, !.base = Held(c, r).cont,
                       !.rebased = tab[c].rebased, !.pay = pay]
             cp == [tab[c].copy[r] EXCEPT !.guess =
                      IF P(c).guesses THEN calls + 1 ELSE @]
             t == [tab[c] EXCEPT !.form = form,
                                 !.copy = [tab[c].copy EXCEPT ![r] = cp]]
  <2>5. /\ pay \in Contents /\ ifm \in Nat /\ Held(c, r).cont \in Contents
        /\ tab[c].rebased \in BOOLEAN
    BY <2>2, <2>3 DEF Contents, Copies, TabType
  <2>6. new \in CallType
    BY <2>4, <2>5 DEF CallType
  <2>7. net' = net \union {new}
    BY <2>1 DEF Sent
  <2>8. tab[c].copy \in [Recs -> Copies] /\ cp \in Copies
    BY <2>2 DEF TabType, Copies
  <2>9. t \in TabType
    BY <2>2, <2>8 DEF TabType
  <2>10. tab' = [tab EXCEPT ![c] = t]
    <3> DEFINE form1 == [tab EXCEPT ![c].form = form]
    <3>1. form1[c] = [tab[c] EXCEPT !.form = form] /\ form1[c].copy = tab[c].copy
      BY <2>2 DEF TabType, TypeOK
    <3>2. tab' = [form1 EXCEPT ![c].copy[r].guess =
                    IF P(c).guesses THEN calls + 1 ELSE @]
      BY <2>1
    <3> QED
      BY <3>1, <3>2, <2>2 DEF TabType, TypeOK
  <2>11. /\ tab' \in [Tabs -> TabType]
         /\ net' \subseteq CallType
    BY <2>6, <2>7, <2>9, <2>10 DEF TypeOK
  <2>12. calls' \in Nat /\ UNCHANGED <<rec, faults, forked, silent, blind>>
    BY <1>10 DEF Save, TypeOK
  <2> QED
    BY <2>11, <2>12 DEF TypeOK
<1>11. ASSUME NEW c \in Tabs, NEW m \in net, Loaded(c, m) PROVE TypeOK'
  <2> DEFINE t == tab[c]
             row == m.rows[tab[c].own]
  <2>1. t \in TabType /\ m \in CallType /\ m.rows \in [Recs -> Rows] /\ row \in Rows
    BY DEF TypeOK, TabType, CallType
  <2>2. [t EXCEPT !.stuck = TRUE] \in TabType
    BY <2>1 DEF TabType
  <2>3. [t EXCEPT !.phase = IF P(c).hides THEN "error" ELSE "open"] \in TabType
    BY <2>1 DEF TabType
  <2>4. \A b \in BOOLEAN :
          [t EXCEPT !.cache = AsCopy(row), !.phase = IF b THEN "open" ELSE @] \in TabType
    BY <2>1, RowTyped DEF TabType
  <2>5. [t EXCEPT !.copy = [r \in Recs |-> AsCopy(m.rows[r])],
                  !.form = IF P(c).list THEN Blank ELSE row.cont,
                  !.phase = "open", !.stuck = FALSE] \in TabType
    BY <2>1, RowTyped DEF TabType, Blank, Contents, Rows, Fields
  <2>6. tab' \in [Tabs -> TabType]
    BY <1>11, <2>1, <2>2, <2>3, <2>4, <2>5 DEF Loaded, TypeOK
  <2> QED
    BY <1>11, <2>6 DEF Loaded, TypeOK
<1>12. ASSUME NEW c \in Tabs, NEW m \in net, Saved(c, m) PROVE TypeOK'
  <2> DEFINE row == m.rows[m.row]
             p == Protocol[m.page]
             t == [tab[c] EXCEPT !.saved = row.ver]
  <2>1. m \in CallType /\ m.page \in Kinds /\ m.row \in Recs /\ row \in Rows
    BY <1>12 DEF Saved, TypeOK, CallType
  <2>2. t \in TabType
    <3>1. tab[c] \in TabType /\ row.ver \in Nat
      BY <2>1 DEF TypeOK, Rows
    <3> QED
      BY <3>1 DEF TabType
  <2>3. p.next \in Kinds \union {"none"} /\ net \ {m} \in SUBSET CallType
    BY <2>1, Protocols DEF TypeOK
  <2>4. CASE p.done = "leave" /\ p.next # "none" /\ Enter(c, p.next, t, net \ {m})
    <3>1. tab' \in [Tabs -> TabType] /\ net' \subseteq CallType /\ calls' \in Nat
      BY <2>2, <2>3, <2>4, EnterTyped
    <3> QED
      BY <1>12, <3>1 DEF Saved, TypeOK
  <2>5. CASE ~(p.done = "leave" /\ p.next # "none")
    <3>1. [t EXCEPT !.phase = "left"] \in TabType
      BY <2>2 DEF TabType
    <3>2. [t EXCEPT !.cache = AsCopy(row)] \in TabType
      BY <2>1, <2>2, RowTyped DEF TabType
    <3>3. [t EXCEPT !.copy[m.row] = NoCopy] \in TabType
      BY <2>1, <2>2, RowTyped DEF TabType
    <3>4. [t EXCEPT !.copy[m.row] = AsCopy(row)] \in TabType
      BY <2>1, <2>2, RowTyped DEF TabType
    <3>5. tab' \in [Tabs -> TabType]
      BY <1>12, <2>2, <2>5, <3>1, <3>2, <3>3, <3>4 DEF Saved, TypeOK
    <3> QED
      BY <1>12, <2>5, <3>5 DEF Saved, TypeOK
  <2> QED
    BY <1>12, <2>4, <2>5 DEF Saved
<1>13. ASSUME NEW c \in Tabs, NEW m \in net, Refused(c, m) PROVE TypeOK'
  <2>1. m \in CallType /\ m.page \in Kinds /\ m.row \in Recs
    BY <1>13 DEF Refused, TypeOK, CallType
  <2>2. Fetch(c, m.page) \in CallType /\ Call(c, m.page, "version", m.row) \in CallType
    BY <2>1, FetchTyped, CallTyped DEF Ops
  <2>3. net' \subseteq CallType /\ calls' \in Nat
    BY <1>13, <2>2 DEF Refused, Sent, TypeOK
  <2>4. tab' \in [Tabs -> TabType]
    BY <1>13 DEF Refused, TypeOK, TabType
  <2> QED
    BY <1>13, <2>3, <2>4 DEF Refused, TypeOK
<1>14. ASSUME NEW c \in Tabs, NEW m \in net, VersionFetched(c, m) PROVE TypeOK'
  <2> DEFINE cp == [tab[c].copy[m.row] EXCEPT !.ver = m.rows[m.row].ver]
             t == [tab[c] EXCEPT !.copy = [tab[c].copy EXCEPT ![m.row] = cp],
                                 !.rebased = TRUE]
  <2>1. m.row \in Recs /\ m.rows[m.row].ver \in Nat /\ tab[c] \in TabType
    BY DEF TypeOK, CallType, Rows
  <2>2. tab[c].copy \in [Recs -> Copies] /\ cp \in Copies
    BY <2>1 DEF TabType, Copies
  <2>3. t \in TabType
    BY <2>1, <2>2 DEF TabType
  <2>4. tab' = tab \/ tab' = [tab EXCEPT ![c] = t]
    BY <1>14 DEF VersionFetched
  <2> QED
    BY <1>14, <2>3, <2>4 DEF VersionFetched, TypeOK
<1>15. ASSUME NEW c \in Tabs, NEW m \in net, Deleted(c, m) PROVE TypeOK'
  <2>1. m \in CallType /\ m.page \in Kinds /\ m.row \in Recs
    BY <1>15 DEF Deleted, TypeOK, CallType
  <2>2. Fetch(c, m.page) \in CallType
    BY <2>1, FetchTyped
  <2>3. net' \subseteq CallType /\ calls' \in Nat
    BY <1>15, <2>2 DEF Deleted, Sent, TypeOK
  <2>4. [tab EXCEPT ![c].copy[m.row] = NoCopy] \in [Tabs -> TabType]
    BY <2>1, RowTyped DEF TypeOK, TabType
  <2>5. [tab EXCEPT ![c].phase = "left"] \in [Tabs -> TabType]
    BY DEF TypeOK, TabType
  <2>6. tab' \in [Tabs -> TabType]
    BY <1>15, <2>4, <2>5 DEF Deleted, TypeOK
  <2> QED
    BY <1>15, <2>3, <2>6 DEF Deleted, TypeOK
<1>16. CASE UNCHANGED vars
  BY <1>16 DEF vars, TypeOK
<1> QED
  BY <1>1, <1>2, <1>3, <1>4, <1>5, <1>6, <1>7, <1>8, <1>9, <1>10, <1>11,
     <1>12, <1>13, <1>14, <1>15, <1>16 DEF Next, Server, Hear, User

\* The initial state is well typed.
LEMMA InitTypeOK == Init => TypeOK
<1> SUFFICES ASSUME Init PROVE TypeOK
  OBVIOUS
<1>1. First \in Contents /\ Blank \in Contents /\ NoCopy \in Copies
  BY DEF First, Blank, Contents, NoCopy, Copies
<1>2. PICK k \in Starts, own \in [Tabs -> Recs] :
        /\ tab = [c \in Tabs |->
               [page |-> IF c \in DOMAIN k THEN k[c] ELSE "hoje",
                phase |-> IF c \in DOMAIN k THEN "loading" ELSE "left",
                own |-> own[c], copy |-> [r \in Recs |-> NoCopy], form |-> Blank,
                rebased |-> FALSE, cache |-> NoCopy, saved |-> 0,
                stuck |-> FALSE]]
        /\ net = {Fetch(c, k[c]) : c \in DOMAIN k}
  BY DEF Init
<1>3. DOMAIN k \subseteq Tabs /\ k \in [DOMAIN k -> Kinds] /\ "hoje" \in Kinds
  BY StartsAssumption DEF StartsAssumption, Kinds, Protocol
<1>4. tab \in [Tabs -> TabType]
  BY <1>1, <1>2, <1>3 DEF TabType
<1>5. \A c \in DOMAIN k : tab[c].own \in Recs /\ k[c] \in Kinds
  BY <1>3, <1>4 DEF TabType
<1>6. \A c \in DOMAIN k : Fetch(c, k[c]) \in CallType
  BY <1>1, <1>3, <1>5 DEF Init, Fetch, Call, CallType, NoRow, NoRows, Rows, Ops
<1>7. net \subseteq CallType
  BY <1>2, <1>6
<1> QED
  BY <1>1, <1>4, <1>7 DEF Init, TypeOK

\* Type correctness: rows, tabs and calls hold what their tables and
\* components declare, whatever the tabs, the network and the background do.
THEOREM TypeCorrect == Spec => []TypeOK
<1>1. Init => TypeOK
  BY InitTypeOK
<1>2. TypeOK /\ [Next]_vars => TypeOK'
  BY NextTypeOK
<1> QED
  BY <1>1, <1>2, PTL DEF Spec
-----------------------------------------------------------------------------
(* A version names one content.  Every call and every tab holds, of a row  *)
(* no two transactions overlapped on, only what the row had under the      *)
(* version it holds with it.  What makes this inductive is that such a row *)
(* has one open transaction at most, which read the row as it still is.    *)

VersionsPositive == \A r \in Recs : rec[r].ver >= 1

NoOverlap ==
  \A r \in Recs : Clean(r) =>
    \A m, n \in net :
      m.st = "open" /\ n.st = "open" /\ m.row = r /\ n.row = r => m = n

\* What a call holds; one that is open passed the check of its version, and
\* one a cached page made is about the row of that page.
CallOK(m) ==
  /\ \A r \in Recs : Clean(r) =>
       /\ Agrees(r, m.rows[r].ver, m.rows[r].cont)
       /\ m.row = r => m.rebased \/ Agrees(r, m.ifm, m.base)
       /\ m.row = r /\ m.st = "open" => m.snap = Row(r)
  /\ m.st = "open" /\ m.op = "save" => m.ifm = m.snap.ver
  /\ m.st = "open" => m.op \in {"save", "auto", "import"}
  /\ \A c \in Tabs :
       m.by = c /\ m.op = "save" /\ m.page # "gone" /\ Protocol[m.page].cached
         => m.row = tab[c].own

\* What a tab holds.
TabOK(t) ==
  \A r \in Recs : Clean(r) =>
    /\ t.rebased \/ Agrees(r, t.copy[r].ver, t.copy[r].cont)
    /\ t.own = r => Agrees(r, t.cache.ver, t.cache.cont)

IInv ==
  /\ TypeOK /\ VersionsPositive /\ NoOverlap
  /\ \A m \in net : CallOK(m)
  /\ \A c \in Tabs : TabOK(tab[c])

\* The steps that leave every row its version and content.
SameRows ==
  /\ \A r \in Recs : rec'[r].ver = rec[r].ver /\ rec'[r].cont = rec[r].cont
  /\ forked \subseteq forked' /\ silent \subseteq silent'
  /\ \A c \in Tabs : tab'[c].own = tab[c].own

\* Version 0 stands for nothing: no row ever has it.
LEMMA ZeroAgrees ==
  ASSUME IInv, NEW r \in Recs
  PROVE  /\ \A cont : Agrees(r, 0, cont)
         /\ Agrees(r, NoCopy.ver, NoCopy.cont) /\ Agrees(r, NoRow.ver, NoRow.cont)
         /\ Agrees(r, Row(r).ver, Row(r).cont)
  BY DEF IInv, VersionsPositive, TypeOK, Agrees, NoCopy, NoRow, Row

\* The invariant is kept by a step that leaves the rows alone, if what it
\* leaves in the tabs and in the net is fine.
LEMMA Kept ==
  ASSUME IInv, TypeOK', SameRows, NoOverlap',
         \A m \in net' : CallOK(m), \A c \in Tabs : TabOK(tab'[c])
  PROVE  IInv'
<1>1. \A r \in Recs : Clean(r)' => Clean(r)
  BY DEF SameRows, Clean
<1>2. ASSUME NEW r \in Recs, NEW v, NEW cont, Agrees(r, v, cont) PROVE Agrees(r, v, cont)'
  BY <1>2 DEF SameRows, Agrees
<1>3. \A r \in Recs : Row(r)' = Row(r)
  BY DEF SameRows, Row
<1>4. ASSUME NEW m \in net' PROVE CallOK(m)'
  <2>1. CallOK(m)
    OBVIOUS
  <2> QED
    BY <1>1, <1>2, <1>3, <2>1 DEF CallOK, SameRows
<1>5. \A c \in Tabs : TabOK(tab[c])'
  BY <1>1, <1>2 DEF TabOK
<1>6. VersionsPositive'
  BY DEF IInv, VersionsPositive, SameRows
<1> QED
  BY <1>4, <1>5, <1>6 DEF IInv

\* A step that opens no transaction makes none overlap.
LEMMA NoneOpened ==
  ASSUME IInv, SameRows,
         \A m \in net' : m \in net \/ m.st # "open"
  PROVE  NoOverlap'
<1>1. \A r \in Recs : Clean(r)' => Clean(r)
  BY DEF SameRows, Clean
<1> QED
  BY <1>1 DEF IInv, NoOverlap

\* A call that asks for rows, or deletes one, says nothing of their content;
\* neither does an answer that carries no row.
LEMMA NewCallOK ==
  ASSUME IInv, NEW c \in Tabs, NEW p \in Kinds \union {"gone"}, NEW r \in Recs,
         NEW op \in {"load", "list", "version", "delete"}
  PROVE  CallOK(Call(c, p, op, r)) /\ Call(c, p, op, r).st # "open"
  BY ZeroAgrees DEF CallOK, Call, NoRows, NoRow

LEMMA FetchOK ==
  ASSUME IInv, NEW c \in Tabs, NEW k \in Kinds
  PROVE  CallOK(Fetch(c, k)) /\ Fetch(c, k).st # "open"
<1>1. tab[c].own \in Recs
  BY DEF IInv, TypeOK, TabType
<1> QED
  BY <1>1, NewCallOK DEF Fetch

LEMMA AnswerOK ==
  ASSUME IInv, NEW m \in net, NEW code, NEW rows \in [Recs -> Rows],
         \A r \in Recs : Clean(r) => Agrees(r, rows[r].ver, rows[r].cont)
  PROVE  CallOK(Answer(m, code, rows)) /\ Answer(m, code, rows).st # "open"
<1>1. m \in CallType /\ CallOK(m)
  BY DEF IInv, TypeOK
<1> QED
  BY <1>1 DEF CallOK, Answer, CallType

LEMMA EmptyAnswerOK ==
  ASSUME IInv, NEW m \in net, NEW code
  PROVE  CallOK(Answer(m, code, NoRows)) /\ Answer(m, code, NoRows).st # "open"
<1>1. \A r \in Recs : Agrees(r, NoRows[r].ver, NoRows[r].cont)
  BY ZeroAgrees DEF NoRows
<1>2. NoRows \in [Recs -> Rows]
  BY RowTyped DEF IInv
<1> QED
  BY <1>1, <1>2, AnswerOK
\* Opening a page keeps what the tab and the calls hold fine: the page starts
\* empty, the cache is the tab's, and calls only lose the page they go back to.
LEMMA EnterOK ==
  ASSUME IInv, NEW c \in Tabs, NEW k \in Kinds, NEW t \in TabType, TabOK(t),
         t.own = tab[c].own, NEW n \in SUBSET net, Enter(c, k, t, n)
  PROVE  /\ \A m \in net' : CallOK(m)
         /\ \A d \in Tabs : TabOK(tab'[d]) /\ tab'[d].own = tab[d].own
         /\ \A m \in net' : m.st = "open" =>
              \E o \in net : /\ o.st = "open" /\ o.row = m.row
                             /\ m = IF o.by = c /\ o.page # "gone"
                                       /\ ~Protocol[o.page].cached
                                      THEN [o EXCEPT !.page = "gone"] ELSE o
<1> DEFINE gone(m) == IF m.by = c /\ m.page # "gone" /\ ~Protocol[m.page].cached
                        THEN [m EXCEPT !.page = "gone"] ELSE m
           left == {gone(m) : m \in n}
           warm == Protocol[k].cached /\ t.cache # NoCopy
           u == [t EXCEPT !.page = k, !.form = Blank, !.rebased = FALSE, !.stuck = FALSE,
                          !.copy = [r \in Recs |-> NoCopy],
                          !.phase = IF warm THEN "open" ELSE "loading"]
<1>1. ASSUME NEW m \in n
      PROVE  /\ CallOK(gone(m))
             /\ gone(m).st = m.st /\ gone(m).row = m.row
  <2>1. m \in CallType /\ CallOK(m)
    BY DEF IInv, TypeOK
  <2>2. CASE gone(m) = m
    BY <2>1, <2>2
  <2>3. CASE gone(m) = [m EXCEPT !.page = "gone"]
    BY <2>1, <2>3 DEF CallOK, CallType
  <2> QED
    BY <2>2, <2>3
<1>2. net' = left \union {Fetch(c, k)} \/ net' = left
  BY DEF Enter
<1>3. \A m \in net' : CallOK(m)
  BY <1>1, <1>2, FetchOK
<1>4. u.own = t.own /\ TabOK(u)
  BY ZeroAgrees DEF TabOK, TabType
<1>5. tab' = [tab EXCEPT ![c] = u]
  BY DEF Enter
<1>6. \A d \in Tabs : TabOK(tab'[d]) /\ tab'[d].own = tab[d].own
  BY <1>4, <1>5 DEF IInv, TypeOK
<1>7. ASSUME NEW m \in net', m.st = "open"
      PROVE  \E o \in net : o.st = "open" /\ o.row = m.row /\ m = gone(o)
  <2>1. m \in left
    BY <1>2, <1>7, FetchOK
  <2> QED
    BY <1>1, <1>7, <2>1
<1> QED
  BY <1>3, <1>6, <1>7

\* A page is opened in a step that leaves the rows alone.
LEMMA EnterKeeps ==
  ASSUME IInv, TypeOK', NEW c \in Tabs, NEW k \in Kinds, NEW t \in TabType,
         TabOK(t), t.own = tab[c].own, NEW n \in SUBSET net, Enter(c, k, t, n),
         UNCHANGED <<rec, forked, silent>>
  PROVE  IInv'
<1>1. SameRows
  BY EnterOK DEF SameRows
<1>2. \A r \in Recs : Clean(r)' => Clean(r)
  BY DEF Clean
<1>3. ASSUME NEW r \in Recs, Clean(r)', NEW m \in net', NEW o \in net',
             m.st = "open", o.st = "open", m.row = r, o.row = r
      PROVE  m = o
  <2> DEFINE gone(x) == IF x.by = c /\ x.page # "gone" /\ ~Protocol[x.page].cached
                          THEN [x EXCEPT !.page = "gone"] ELSE x
  <2>1. PICK m0 \in net : m0.st = "open" /\ m0.row = r /\ m = gone(m0)
    BY <1>3, EnterOK
  <2>2. PICK o0 \in net : o0.st = "open" /\ o0.row = r /\ o = gone(o0)
    BY <1>3, EnterOK
  <2>3. m0 = o0
    BY <1>2, <1>3, <2>1, <2>2 DEF IInv, NoOverlap
  <2> QED
    BY <2>1, <2>2, <2>3
<1>4. NoOverlap'
  BY <1>3 DEF NoOverlap
<1> QED
  BY <1>1, <1>4, EnterOK, Kept

\* The server's steps that leave the rows alone, and the losses.
LEMMA ReadKeeps ==
  ASSUME IInv, TypeOK', NEW m \in net, Read(m)
  PROVE  IInv'
<1> DEFINE seen == {r \in Recs : rec[r].live /\ (m.op = "list" \/ r = m.row)}
           code == IF m.op # "list" /\ seen = {} THEN "404" ELSE "ok"
           rows == [r \in Recs |-> IF r \in seen THEN Row(r) ELSE NoRow]
           a == Answer(m, code, rows)
<1>1. rows \in [Recs -> Rows]
  BY RowTyped DEF NoRows, IInv
<1>2. \A r \in Recs : Agrees(r, rows[r].ver, rows[r].cont)
  BY ZeroAgrees
<1>3. CallOK(a) /\ a.st # "open"
  BY <1>1, <1>2, AnswerOK
<1>4. net' = (net \ {m}) \union {a}
  BY DEF Read, Becomes
<1>5. SameRows
  BY DEF Read, SameRows
<1>6. NoOverlap'
  BY <1>3, <1>4, <1>5, NoneOpened
<1> QED
  BY <1>3, <1>4, <1>5, <1>6, Kept DEF IInv, Read

LEMMA OpenKeeps ==
  ASSUME IInv, TypeOK', NEW m \in net, Open(m)
  PROVE  IInv'
<1>1. m \in CallType /\ m.row \in Recs /\ CallOK(m)
  BY DEF IInv, TypeOK, CallType
<1>2. SameRows
  BY DEF Open, SameRows, Forks
<1>3. CASE CheckIfMatch(m) = "none"
  <2> DEFINE o == [m EXCEPT !.st = "open", !.snap = Row(m.row)]
  <2>1. m.ifm = rec[m.row].ver /\ m.op = "save"
    BY <1>3 DEF CheckIfMatch, Open
  <2>2. CallOK(o) /\ o.row = m.row /\ o.st = "open"
    BY <1>1, <2>1 DEF CallOK, CallType, Row
  <2>3. net' = (net \ {m}) \union {o} /\ forked' = Forks(m.row)
    BY <1>3 DEF Open, Becomes
  <2>4. Clean(m.row)' => ~\E n \in net : n.st = "open" /\ n.row = m.row
    BY <1>1, <2>3 DEF Clean, Forks
  <2>5. \A r \in Recs : Clean(r)' => Clean(r)
    BY <1>2 DEF SameRows, Clean
  <2>6. NoOverlap'
    BY <2>2, <2>3, <2>4, <2>5 DEF NoOverlap, IInv
  <2> QED
    BY <1>2, <2>2, <2>3, <2>6, Kept DEF IInv, Open
<1>4. CASE CheckIfMatch(m) # "none"
  <2> DEFINE a == Answer(m, CheckIfMatch(m), NoRows)
  <2>1. net' = (net \ {m}) \union {a}
    BY <1>4 DEF Open, Becomes
  <2>2. CallOK(a) /\ a.st # "open"
    BY EmptyAnswerOK
  <2>3. NoOverlap'
    BY <1>2, <2>1, <2>2, NoneOpened
  <2> QED
    BY <1>2, <2>1, <2>2, <2>3, Kept DEF IInv, Open
<1> QED
  BY <1>3, <1>4

LEMMA RemoveKeeps ==
  ASSUME IInv, TypeOK', NEW m \in net, Remove(m)
  PROVE  IInv'
<1> DEFINE a == Answer(m, IF rec[m.row].live THEN "ok" ELSE "404", NoRows)
<1>1. net' = (net \ {m}) \union {a}
  BY DEF Remove, Becomes
<1>2. CallOK(a) /\ a.st # "open"
  BY EmptyAnswerOK
<1>3. SameRows
  BY DEF Remove, SameRows, IInv, TypeOK
<1>4. NoOverlap'
  BY <1>1, <1>2, <1>3, NoneOpened
<1> QED
  BY <1>1, <1>2, <1>3, <1>4, Kept DEF IInv, Remove

LEMMA LoseKeeps ==
  ASSUME IInv, TypeOK', NEW m \in net, Lose(m)
  PROVE  IInv'
<1>1. net' = (net \ {m}) \union {Answer(m, "lost", NoRows)}
  BY DEF Lose, Becomes
<1>2. SameRows
  BY DEF Lose, SameRows
<1>3. NoOverlap'
  BY <1>1, <1>2, EmptyAnswerOK, NoneOpened
<1> QED
  BY <1>1, <1>2, <1>3, EmptyAnswerOK, Kept DEF IInv, Lose

\* An automation, or an import, opens a transaction.
LEMMA BackgroundKeeps ==
  ASSUME IInv, TypeOK', NEW r \in Recs, NEW op \in {"auto", "import"}, Background(r, op)
  PROVE  IInv'
<1> DEFINE f == IF op = "auto" THEN "stage" ELSE "rest"
           call == Call(System, "gone", op, r)
           o == [call EXCEPT !.fields = {f}, !.pay[f] = calls + 1,
                             !.st = "open", !.snap = Row(r)]
<1>1. net' = net \union {o} /\ forked' = Forks(r)
  BY DEF Background
<1>2. /\ o.st = "open" /\ o.row = r /\ o.snap = Row(r) /\ o.rows = NoRows
      /\ o.op = op /\ o.ifm = 0 /\ o.page = "gone"
  BY DEF Call
<1>3. CallOK(o)
  BY <1>2, ZeroAgrees DEF CallOK, NoRows
<1>4. SameRows
  BY DEF Background, SameRows, Forks
<1>5. Clean(r)' => ~\E n \in net : n.st = "open" /\ n.row = r
  BY <1>1 DEF Clean, Forks
<1>6. \A x \in Recs : Clean(x)' => Clean(x)
  BY <1>4 DEF SameRows, Clean
<1>7. NoOverlap'
  <2> HIDE DEF o
  <2>1. ASSUME NEW x \in Recs, Clean(x)', NEW a \in net', NEW b \in net',
               a.st = "open", b.st = "open", a.row = x, b.row = x
        PROVE  a = b
    BY <1>1, <1>2, <1>5, <1>6, <2>1 DEF NoOverlap, IInv
  <2> QED
    BY <2>1 DEF NoOverlap
<1> QED
  BY <1>1, <1>3, <1>4, <1>7, Kept DEF IInv, Background
\* A commit.  The row is the one the transaction read, so its version rises
\* past whatever anybody holds, and the answer carries the row as it is now.
LEMMA CommitKeeps ==
  ASSUME IInv, TypeOK', NEW m \in net, Commit(m)
  PROVE  IInv'
<1> DEFINE old == rec[m.row]
           cont == [f \in Fields |->
                     IF f \in Written(m) THEN m.pay[f] ELSE old.cont[f]]
           ver == IF Bumps(m) THEN m.snap.ver + 1 ELSE old.ver
           rows == [NoRows EXCEPT ![m.row] = [ver |-> ver, cont |-> cont]]
           a == Answer(m, "ok", rows)
           agrees(r, v, k) == v <= rec'[r].ver /\ (v = rec'[r].ver => k = rec'[r].cont)
<1>1. /\ m \in CallType /\ m.row \in Recs /\ CallOK(m)
      /\ m.snap.ver \in Nat /\ rec \in [Recs -> [ver : Nat, cont : Contents, live : BOOLEAN]]
  BY DEF IInv, TypeOK, CallType, Rows
<1>2. \A r \in Recs : Clean(r)' => Clean(r)
  BY DEF Commit, Clean
<1>3. rec' = [rec EXCEPT ![m.row].ver = ver, ![m.row].cont = cont]
  BY DEF Commit
<1>4. /\ rec'[m.row].ver = ver /\ rec'[m.row].cont = cont
      /\ \A r \in Recs \ {m.row} : rec'[r] = rec[r]
  BY <1>1, <1>3
<1>5. ASSUME Clean(m.row)'
      PROVE  /\ m.op # "import" /\ m.snap = Row(m.row)
             /\ ver = rec[m.row].ver + 1
  BY <1>1, <1>2, <1>5 DEF Commit, Clean, CallOK, Bumps, Row
<1>6. ASSUME NEW r \in Recs, Clean(r)', NEW v \in Nat, NEW k, Agrees(r, v, k)
      PROVE  agrees(r, v, k)
  <2>1. CASE r = m.row
    <3>1. v <= rec[r].ver /\ rec'[r].ver = rec[r].ver + 1 /\ rec[r].ver \in Nat
      BY <1>1, <1>4, <1>5, <1>6, <2>1 DEF Agrees
    <3> QED
      BY <3>1
  <2>2. CASE r # m.row
    BY <1>4, <1>6, <2>2 DEF Agrees
  <2> QED
    BY <2>1, <2>2
<1>7. VersionsPositive'
  BY <1>1, <1>4 DEF IInv, VersionsPositive
<1>8. \A c \in Tabs : TabOK(tab[c])'
  <2> SUFFICES ASSUME NEW c \in Tabs, NEW r \in Recs, Clean(r)'
               PROVE  /\ tab[c].rebased \/ agrees(r, tab[c].copy[r].ver, tab[c].copy[r].cont)
                      /\ tab[c].own = r => agrees(r, tab[c].cache.ver, tab[c].cache.cont)
    BY DEF TabOK, Commit, Agrees
  <2>1. /\ tab[c].rebased \/ Agrees(r, tab[c].copy[r].ver, tab[c].copy[r].cont)
        /\ tab[c].own = r => Agrees(r, tab[c].cache.ver, tab[c].cache.cont)
    BY <1>2 DEF IInv, TabOK
  <2>2. tab[c].copy[r].ver \in Nat /\ tab[c].cache.ver \in Nat
    BY DEF IInv, TypeOK, TabType, Copies
  <2> QED
    BY <1>6, <2>1, <2>2
<1>9. net' = (net \ {m}) \union {a} \/ net' = net \ {m}
  BY DEF Commit, Becomes
<1>10. a.st = "answered" /\ a.rows = rows /\ a.op = m.op /\ a.row = m.row
       /\ a.rebased = m.rebased /\ a.ifm = m.ifm /\ a.base = m.base /\ a.by = m.by
       /\ a.page = m.page
  BY <1>1 DEF Answer, CallType
<1>11. \A r \in Recs : Clean(r)' => agrees(r, rows[r].ver, rows[r].cont)
  <2> SUFFICES ASSUME NEW r \in Recs, Clean(r)'
               PROVE  agrees(r, rows[r].ver, rows[r].cont)
    OBVIOUS
  <2>1. CASE r = m.row
    <3>1. rows[r] = [ver |-> ver, cont |-> cont]
      BY <1>1, <2>1 DEF NoRows
    <3>2. rec'[r].ver \in Nat
      BY DEF TypeOK
    <3> QED
      BY <1>4, <2>1, <3>1, <3>2
  <2>2. CASE r # m.row
    <3>1. rows[r] = NoRow
      BY <1>1, <2>2 DEF NoRows
    <3>2. Agrees(r, NoRow.ver, NoRow.cont) /\ NoRow.ver \in Nat
      BY ZeroAgrees DEF NoRow
    <3> QED
      BY <1>6, <3>1, <3>2
  <2> QED
    BY <2>1, <2>2
<1>12. ASSUME NEW n \in net, n # m, NEW r \in Recs, Clean(r)'
       PROVE  /\ agrees(r, n.rows[r].ver, n.rows[r].cont)
              /\ n.row = r => n.rebased \/ agrees(r, n.ifm, n.base)
              /\ n.row = r /\ n.st = "open" => n.snap = Row(r)'
  <2>1. CallOK(n) /\ Clean(r) /\ n.ifm \in Nat /\ n.rows[r].ver \in Nat
    BY <1>2, <1>12 DEF IInv, TypeOK, CallType, Rows
  <2>2. n.row = r /\ n.st = "open" => r # m.row
    BY <1>12, <2>1 DEF IInv, NoOverlap, Commit
  <2>3. r # m.row => Row(r)' = Row(r)
    BY <1>4 DEF Row
  <2> QED
    BY <1>6, <1>12, <2>1, <2>2, <2>3 DEF CallOK
<1>13. \A n \in net \ {m} : CallOK(n)'
  <2> SUFFICES ASSUME NEW n \in net, n # m PROVE CallOK(n)'
    OBVIOUS
  <2>1. CallOK(n)
    BY DEF IInv
  <2> QED
    BY <1>12, <2>1 DEF CallOK, Commit, Agrees
<1>14. ASSUME NEW x, x = a PROVE CallOK(x)'
  <2> HIDE DEF a, rows
  <2>1. ASSUME NEW r \in Recs, Clean(r)', m.row = r
        PROVE  m.rebased \/ agrees(r, m.ifm, m.base)
    <3>1. (m.rebased \/ Agrees(r, m.ifm, m.base)) /\ m.ifm \in Nat
      BY <1>1, <1>2, <2>1 DEF CallOK, CallType
    <3> QED
      BY <1>6, <2>1, <3>1
  <2>2. \A c \in Tabs :
          m.by = c /\ m.op = "save" /\ m.page # "gone" /\ Protocol[m.page].cached
            => m.row = tab'[c].own
    BY <1>1 DEF CallOK, Commit
  <2> QED
    BY <1>10, <1>11, <1>14, <2>1, <2>2 DEF CallOK, Agrees
<1>15. NoOverlap'
  <2> HIDE DEF a, rows
  <2> QED
    BY <1>2, <1>9, <1>10 DEF IInv, NoOverlap
<1>16. \A n \in net' : CallOK(n)'
  <2> HIDE DEF a
  <2> QED
    BY <1>9, <1>13, <1>14
<1> QED
  BY <1>7, <1>8, <1>15, <1>16 DEF IInv
\* A page's own fetch: a cached page takes the row into the cache, another
\* page takes every row the answer has.
LEMMA LoadedKeeps ==
  ASSUME IInv, TypeOK', NEW c \in Tabs, NEW m \in net, Loaded(c, m)
  PROVE  IInv'
<1> DEFINE t == tab[c]
           row == m.rows[t.own]
           fetched == [t EXCEPT !.copy = [r \in Recs |-> AsCopy(m.rows[r])],
                                !.form = IF P(c).list THEN Blank ELSE row.cont,
                                !.phase = "open", !.stuck = FALSE]
<1>1. /\ t \in TabType /\ TabOK(t) /\ CallOK(m) /\ m \in CallType
      /\ m.rows \in [Recs -> Rows]
  BY DEF IInv, TypeOK, CallType
<1>2. TabOK([t EXCEPT !.stuck = TRUE]) /\ [t EXCEPT !.stuck = TRUE].own = t.own
  BY <1>1 DEF TabOK, TabType
<1>3. \A p : TabOK([t EXCEPT !.phase = p]) /\ [t EXCEPT !.phase = p].own = t.own
  BY <1>1 DEF TabOK, TabType
<1>4. \A p : /\ TabOK([t EXCEPT !.cache = AsCopy(row), !.phase = p])
             /\ [t EXCEPT !.cache = AsCopy(row), !.phase = p].own = t.own
  BY <1>1 DEF TabOK, TabType, CallOK, AsCopy
<1>5. TabOK(fetched) /\ fetched.own = t.own
  BY <1>1 DEF TabOK, TabType, CallOK, AsCopy
<1>6. \A d \in Tabs : TabOK(tab'[d]) /\ tab'[d].own = tab[d].own
  <2> DEFINE here == m.page = t.page /\ t.phase # "left"
             failed == IF ~here THEN t
                       ELSE IF t.phase = "open" THEN [t EXCEPT !.stuck = TRUE]
                       ELSE [t EXCEPT !.phase = IF P(c).hides THEN "error" ELSE "open"]
             cached == [t EXCEPT !.cache = AsCopy(row),
                                 !.phase = IF here THEN "open" ELSE t.phase]
             u == IF m.page = "gone" THEN t
                  ELSE IF m.code # "ok" THEN failed
                  ELSE IF Protocol[m.page].cached THEN cached
                  ELSE IF ~here THEN t ELSE fetched
  <2>1. tab' = [tab EXCEPT ![c] = u]
    BY DEF Loaded
  <2>2. TabOK(failed) /\ failed.own = t.own
    BY <1>1, <1>2, <1>3
  <2>3. TabOK(cached) /\ cached.own = t.own
    BY <1>4
  <2>4. TabOK(u) /\ u.own = t.own
    BY <1>1, <1>5, <2>2, <2>3
  <2> QED
    BY <2>1, <2>4 DEF IInv, TypeOK
<1>7. net' = net \ {m} /\ UNCHANGED <<rec, forked, silent>>
  BY DEF Loaded
<1>8. SameRows
  BY <1>6, <1>7 DEF SameRows
<1>9. NoOverlap'
  BY <1>7, <1>8, NoneOpened
<1> QED
  BY <1>6, <1>7, <1>8, <1>9, Kept DEF IInv

\* A save that succeeded: its answer is of the row it saved, which for a
\* cached page is the page's own.
LEMMA SavedKeeps ==
  ASSUME IInv, TypeOK', NEW c \in Tabs, NEW m \in net, Saved(c, m)
  PROVE  IInv'
<1> DEFINE row == m.rows[m.row]
           p == Protocol[m.page]
           t == [tab[c] EXCEPT !.saved = row.ver]
<1>1. /\ m \in CallType /\ CallOK(m) /\ m.page \in Kinds /\ m.row \in Recs
      /\ tab[c] \in TabType /\ TabOK(tab[c]) /\ row \in Rows
  BY DEF IInv, TypeOK, CallType, Saved
<1>2. t \in TabType /\ TabOK(t) /\ t.own = tab[c].own
  <2>1. row.ver \in Nat
    BY <1>1 DEF Rows
  <2> QED
    BY <1>1, <2>1 DEF TabType, TabOK
<1>3. \A r \in Recs : Clean(r) => Agrees(r, m.rows[r].ver, m.rows[r].cont)
  BY <1>1 DEF CallOK
<1>4. UNCHANGED <<rec, forked, silent>>
  BY DEF Saved
<1>5. CASE p.next \in Kinds /\ Enter(c, p.next, t, net \ {m})
  BY <1>2, <1>4, <1>5, EnterKeeps
<1>6. CASE /\ p.done # "leave" \/ p.next = "none"
           /\ net' = net \ {m}
           /\ tab' = [tab EXCEPT ![c] =
                IF p.done = "leave" THEN [t EXCEPT !.phase = "left"]
                ELSE IF p.cached THEN [t EXCEPT !.cache = AsCopy(row)]
                ELSE IF p.done = "drop" THEN [t EXCEPT !.copy[m.row] = NoCopy]
                ELSE IF t.copy[m.row] = NoCopy THEN t
                ELSE [t EXCEPT !.copy[m.row] = AsCopy(row)]]
  <2> HIDE DEF t
  <2>1. TabOK([t EXCEPT !.phase = "left"]) /\ [t EXCEPT !.phase = "left"].own = t.own
    BY <1>2 DEF TabOK, TabType
  <2>2. p.cached => /\ TabOK([t EXCEPT !.cache = AsCopy(row)])
                    /\ [t EXCEPT !.cache = AsCopy(row)].own = t.own
    <3>1. p.cached => m.row = t.own
      BY <1>1, <1>2 DEF CallOK, Saved
    <3> QED
      BY <1>1, <1>2, <1>3, <3>1 DEF TabOK, TabType, AsCopy
  <2>3. \A k \in {NoCopy, AsCopy(row)} :
          /\ TabOK([t EXCEPT !.copy[m.row] = k])
          /\ [t EXCEPT !.copy[m.row] = k].own = t.own
    <3> SUFFICES ASSUME NEW k \in {NoCopy, AsCopy(row)}
                 PROVE  /\ TabOK([t EXCEPT !.copy[m.row] = k])
                        /\ [t EXCEPT !.copy[m.row] = k].own = t.own
      OBVIOUS
    <3>1. Clean(m.row) => Agrees(m.row, k.ver, k.cont)
      BY <1>1, <1>3, ZeroAgrees DEF AsCopy
    <3> DEFINE u == [t EXCEPT !.copy[m.row] = k]
    <3>2. /\ u.rebased = t.rebased /\ u.own = t.own /\ u.cache = t.cache
          /\ u.copy = [t.copy EXCEPT ![m.row] = k]
          /\ t.copy \in [Recs -> Copies]
      BY <1>2 DEF TabType
    <3> HIDE DEF u
    <3>3. \A r \in Recs : u.copy[r] = IF r = m.row THEN k ELSE t.copy[r]
      BY <1>1, <3>2
    <3>4. TabOK(u) /\ u.own = t.own
      BY <1>2, <3>1, <3>2, <3>3 DEF TabOK
    <3> QED
      BY <3>4 DEF u
  <2>4. PICK u : tab' = [tab EXCEPT ![c] = u] /\ TabOK(u) /\ u.own = t.own
    BY <1>2, <1>6, <2>1, <2>2, <2>3
  <2>5. \A d \in Tabs : TabOK(tab'[d]) /\ tab'[d].own = tab[d].own
    BY <1>2, <2>4 DEF IInv, TypeOK
  <2>6. SameRows
    BY <1>4, <2>5 DEF SameRows
  <2>7. NoOverlap'
    BY <1>6, <2>6, NoneOpened
  <2> QED
    BY <1>6, <2>5, <2>6, <2>7, Kept DEF IInv
<1>7. p.next \in Kinds \union {"none"}
  BY <1>1, Protocols
<1> QED
  BY <1>5, <1>6, <1>7 DEF Saved

\* The answers that only ask again, or say so, and the ones not waited for.
LEMMA OtherAnswersKeep ==
  ASSUME IInv, TypeOK', NEW c \in Tabs, NEW m \in net,
         Refused(c, m) \/ VersionFetched(c, m) \/ Deleted(c, m) \/ Unheard(m)
  PROVE  IInv'
<1>1. m \in CallType /\ m.row \in Recs /\ tab[c] \in TabType /\ TabOK(tab[c])
  BY DEF IInv, TypeOK, CallType
<1>2. UNCHANGED <<rec, forked, silent>>
  BY DEF Refused, VersionFetched, Deleted, Unheard
<1>3. \A n \in net' : n \in net \/ (CallOK(n) /\ n.st # "open")
  <2>1. CASE Refused(c, m)
    <3>1. m.page \in Kinds
      BY <1>1, <2>1 DEF Refused, CallType
    <3>2. /\ CallOK(Fetch(c, m.page)) /\ Fetch(c, m.page).st # "open"
          /\ CallOK(Call(c, m.page, "version", m.row))
          /\ Call(c, m.page, "version", m.row).st # "open"
      BY <1>1, <3>1, FetchOK, NewCallOK
    <3> QED
      BY <2>1, <3>2 DEF Refused, Sent
  <2>2. CASE Deleted(c, m)
    <3>1. CallOK(Fetch(c, m.page)) /\ Fetch(c, m.page).st # "open"
      BY <1>1, <2>2, FetchOK DEF Deleted, CallType
    <3> QED
      BY <2>2, <3>1 DEF Deleted, Sent
  <2>3. CASE VersionFetched(c, m) \/ Unheard(m)
    BY <2>3 DEF VersionFetched, Unheard
  <2> QED
    BY <2>1, <2>2, <2>3
<1>4. \A p : /\ TabOK([tab[c] EXCEPT !.phase = p])
             /\ [tab[c] EXCEPT !.phase = p].own = tab[c].own
  BY <1>1 DEF TabOK, TabType
<1>5. PICK u : (tab' = tab \/ tab' = [tab EXCEPT ![c] = u]) /\ TabOK(u) /\ u.own = tab[c].own
  <2>1. CASE Refused(c, m)
    BY <1>4, <2>1 DEF Refused
  <2>2. CASE VersionFetched(c, m)
    <3> DEFINE cp == [tab[c].copy[m.row] EXCEPT !.ver = m.rows[m.row].ver]
               u == [tab[c] EXCEPT !.copy = [tab[c].copy EXCEPT ![m.row] = cp],
                                   !.rebased = TRUE]
    <3>1. TabOK(u) /\ u.own = tab[c].own
      BY <1>1 DEF TabOK, TabType
    <3>2. tab' = tab \/ tab' = [tab EXCEPT ![c] = u]
      BY <2>2 DEF VersionFetched
    <3> QED
      BY <3>1, <3>2
  <2>3. CASE Deleted(c, m)
    <3> DEFINE u == [tab[c] EXCEPT !.copy[m.row] = NoCopy]
    <3>1. /\ u.rebased = tab[c].rebased /\ u.own = tab[c].own /\ u.cache = tab[c].cache
          /\ u.copy = [tab[c].copy EXCEPT ![m.row] = NoCopy]
          /\ tab[c].copy \in [Recs -> Copies]
      BY <1>1 DEF TabType
    <3>2. tab' = tab \/ tab' = [tab EXCEPT ![c] = u]
            \/ tab' = [tab EXCEPT ![c] = [tab[c] EXCEPT !.phase = "left"]]
      BY <2>3 DEF Deleted
    <3> HIDE DEF u
    <3>3. \A r \in Recs : u.copy[r] = IF r = m.row THEN NoCopy ELSE tab[c].copy[r]
      BY <1>1, <3>1
    <3>4. TabOK(u)
      BY <1>1, <3>1, <3>3, ZeroAgrees DEF TabOK
    <3> QED
      BY <1>1, <1>4, <3>1, <3>2, <3>4
  <2>4. CASE Unheard(m)
    BY <1>1, <2>4 DEF Unheard
  <2> QED
    BY <2>1, <2>2, <2>3, <2>4
<1>6. \A d \in Tabs : TabOK(tab'[d]) /\ tab'[d].own = tab[d].own
  BY <1>5 DEF IInv, TypeOK
<1>7. SameRows
  BY <1>2, <1>6 DEF SameRows
<1>8. NoOverlap'
  BY <1>3, <1>7, NoneOpened
<1> QED
  BY <1>3, <1>6, <1>7, <1>8, Kept DEF IInv
\* What a save sends: the version and the content its page holds of the row.
LEMMA SaveKeeps ==
  ASSUME IInv, TypeOK', NEW c \in Tabs, NEW r \in Recs, NEW s \in SUBSET Fields,
         Save(c, r, s)
  PROVE  IInv'
<1> DEFINE call == Call(c, tab[c].page, "save", r)
<1>1. /\ tab[c] \in TabType /\ TabOK(tab[c]) /\ tab[c].page \in Kinds
      /\ tab \in [Tabs -> TabType]
  BY DEF IInv, TypeOK, TabType
<1>2. PICK form \in {tab[c].form, [tab[c].form EXCEPT !["stage"] = calls + 1]} :
         /\ net' = Sent([call EXCEPT
                !.ifm = IF P(c).echoes THEN Held(c, r).ver ELSE 0,
                !.fields = s, !.base = Held(c, r).cont,
                !.rebased = tab[c].rebased,
                !.pay = IF IsForm(tab[c].page) THEN form
                        ELSE [g \in Fields |-> IF g \in s THEN calls + 1 ELSE 0]],
                {})
         /\ tab' = [tab EXCEPT ![c].form = form,
                  ![c].copy[r].guess = IF P(c).guesses THEN calls + 1 ELSE @]
  BY DEF Save
<1> DEFINE new == [call EXCEPT
                !.ifm = IF P(c).echoes THEN Held(c, r).ver ELSE 0,
                !.fields = s, !.base = Held(c, r).cont,
                !.rebased = tab[c].rebased,
                !.pay = IF IsForm(tab[c].page) THEN form
                        ELSE [g \in Fields |-> IF g \in s THEN calls + 1 ELSE 0]]
           guess == IF P(c).guesses THEN calls + 1 ELSE tab[c].copy[r].guess
           cp == [tab[c].copy[r] EXCEPT !.guess = guess]
           t == [tab[c] EXCEPT !.form = form, !.copy = [tab[c].copy EXCEPT ![r] = cp]]
<1>3. /\ new.st = "sent" /\ new.row = r /\ new.rows = NoRows /\ new.by = c
      /\ new.page = tab[c].page /\ new.base = Held(c, r).cont
      /\ new.rebased = tab[c].rebased
      /\ new.ifm = IF P(c).echoes THEN Held(c, r).ver ELSE 0
  BY DEF Call
<1>4. net' = net \union {new}
  BY <1>2 DEF Sent
<1>5. P(c).cached => r = tab[c].own
  BY <1>1, Protocols DEF Save, P
<1>6. tab[c].rebased \/ ~Clean(r) \/ Agrees(r, Held(c, r).ver, Held(c, r).cont)
  BY <1>1, <1>5 DEF Held, TabOK
<1>7. CallOK(new)
  <2> HIDE DEF new
  <2>1. ASSUME NEW x \in Recs
        PROVE  Agrees(x, new.rows[x].ver, new.rows[x].cont)
    BY <1>3, ZeroAgrees DEF NoRows
  <2>2. Clean(r) => new.rebased \/ Agrees(r, new.ifm, new.base)
    BY <1>3, <1>6, ZeroAgrees
  <2>3. \A d \in Tabs :
          new.by = d /\ new.page # "gone" /\ Protocol[new.page].cached
            => new.row = tab[d].own
    BY <1>3, <1>5 DEF P
  <2> QED
    BY <1>3, <2>1, <2>2, <2>3 DEF CallOK
<1>8. tab' = [tab EXCEPT ![c] = t]
  <2> DEFINE form1 == [tab EXCEPT ![c].form = form]
  <2>1. form1[c] = [tab[c] EXCEPT !.form = form] /\ form1[c].copy = tab[c].copy
    BY <1>1 DEF TabType
  <2>2. tab' = [form1 EXCEPT ![c].copy[r].guess = IF P(c).guesses THEN calls + 1 ELSE @]
    BY <1>2
  <2> QED
    BY <1>1, <2>1, <2>2 DEF TabType
<1>9. TabOK(t) /\ t.own = tab[c].own
  <2>1. /\ t.rebased = tab[c].rebased /\ t.own = tab[c].own /\ t.cache = tab[c].cache
        /\ t.copy = [tab[c].copy EXCEPT ![r] = cp]
        /\ tab[c].copy \in [Recs -> Copies]
    BY <1>1 DEF TabType
  <2>2. cp.ver = tab[c].copy[r].ver /\ cp.cont = tab[c].copy[r].cont
    BY <2>1 DEF Copies
  <2> HIDE DEF t, cp
  <2>3. \A x \in Recs : /\ t.copy[x].ver = tab[c].copy[x].ver
                        /\ t.copy[x].cont = tab[c].copy[x].cont
    BY <2>1, <2>2
  <2> QED
    BY <1>1, <2>1, <2>3 DEF TabOK
<1>10. \A d \in Tabs : TabOK(tab'[d]) /\ tab'[d].own = tab[d].own
  BY <1>1, <1>8, <1>9 DEF IInv
<1>11. SameRows /\ UNCHANGED rec
  BY <1>10 DEF Save, SameRows
<1>12. NoOverlap'
  BY <1>3, <1>4, <1>11, NoneOpened
<1> QED
  BY <1>4, <1>7, <1>10, <1>11, <1>12, Kept DEF IInv

\* A delete is sent, or the page of its edit form opened.
LEMMA UserKeeps ==
  ASSUME IInv, TypeOK', NEW c \in Tabs, User(c)
  PROVE  IInv'
<1>1. tab[c] \in TabType /\ TabOK(tab[c]) /\ tab[c].page \in Kinds
  BY DEF IInv, TypeOK, TabType
<1>2. CASE GoEdit(c)
  <2>1. P(c).next \in Kinds
    BY <1>1, <1>2, Protocols DEF GoEdit, P
  <2> QED
    BY <1>1, <1>2, <2>1, EnterKeeps DEF GoEdit
<1>3. ASSUME NEW r \in Recs, Delete(c, r) PROVE IInv'
  <2>1. /\ CallOK(Call(c, tab[c].page, "delete", r))
        /\ Call(c, tab[c].page, "delete", r).st # "open"
    BY <1>1, NewCallOK
  <2>2. net' = net \union {Call(c, tab[c].page, "delete", r)}
    BY <1>3 DEF Delete, Sent
  <2>3. SameRows
    BY <1>3 DEF Delete, SameRows
  <2>4. NoOverlap'
    BY <2>1, <2>2, <2>3, NoneOpened
  <2> QED
    BY <1>3, <2>1, <2>2, <2>3, <2>4, Kept DEF IInv, Delete
<1>4. ASSUME NEW r \in Recs, NEW s \in SUBSET Fields, Save(c, r, s) PROVE IInv'
  BY <1>4, SaveKeeps
<1> QED
  BY <1>2, <1>3, <1>4 DEF User

\* Every step keeps the invariant.
LEMMA NextIInv == IInv /\ [Next]_vars => IInv'
<1> SUFFICES ASSUME IInv, [Next]_vars PROVE IInv'
  OBVIOUS
<1>1. TypeOK'
  BY NextTypeOK DEF IInv
<1>2. ASSUME NEW m \in net, Server(m) \/ Lose(m) PROVE IInv'
  BY <1>1, <1>2, ReadKeeps, OpenKeeps, CommitKeeps, RemoveKeeps, LoseKeeps DEF Server
<1>3. ASSUME NEW c \in Tabs, NEW m \in net, Hear(c, m) PROVE IInv'
  BY <1>1, <1>3, LoadedKeeps, SavedKeeps, OtherAnswersKeep DEF Hear
<1>4. ASSUME NEW m \in net, Unheard(m) PROVE IInv'
  <2>1. SameRows
    BY <1>4 DEF Unheard, SameRows
  <2>2. NoOverlap'
    BY <1>4, <2>1, NoneOpened DEF Unheard
  <2> QED
    BY <1>1, <1>4, <2>1, <2>2, Kept DEF Unheard, IInv
<1>5. ASSUME NEW c \in Tabs, User(c) PROVE IInv'
  BY <1>1, <1>5, UserKeeps
<1>6. ASSUME NEW r \in Recs, NEW op \in {"auto", "import"}, Background(r, op)
      PROVE  IInv'
  BY <1>1, <1>6, BackgroundKeeps
<1>7. CASE UNCHANGED vars
  <2>1. SameRows
    BY <1>7 DEF vars, SameRows
  <2>2. NoOverlap'
    BY <1>7, <2>1, NoneOpened DEF vars
  <2> QED
    BY <1>1, <1>7, <2>1, <2>2, Kept DEF vars, IInv
<1> QED
  BY <1>2, <1>3, <1>4, <1>5, <1>6, <1>7 DEF Next

\* At first the rows have version 1, and nobody holds anything.
LEMMA InitIInv == Init => IInv
<1> SUFFICES ASSUME Init PROVE IInv
  OBVIOUS
<1>1. TypeOK
  BY InitTypeOK
<1>2. VersionsPositive
  BY DEF Init, VersionsPositive
<1>3. ASSUME NEW r \in Recs, NEW cont PROVE Agrees(r, 0, cont)
  BY DEF Init, Agrees
<1>4. \A m \in net : m.st = "sent" /\ m.rows = NoRows /\ m.ifm = 0 /\ m.op # "save"
  <2>1. PICK k \in Starts : net = {Fetch(c, k[c]) : c \in DOMAIN k}
    BY DEF Init
  <2>2. \A c, x : LET m == Fetch(c, x) IN
          m.st = "sent" /\ m.rows = NoRows /\ m.ifm = 0 /\ m.op # "save"
    BY DEF Fetch, Call
  <2> QED
    BY <2>1, <2>2
<1>5. \A m \in net : CallOK(m)
  BY <1>3, <1>4 DEF CallOK, NoRows, NoRow
<1>6. \A c \in Tabs : tab[c].copy = [r \in Recs |-> NoCopy] /\ tab[c].cache = NoCopy
  BY DEF Init
<1>7. \A c \in Tabs : TabOK(tab[c])
  BY <1>3, <1>6 DEF TabOK, NoCopy
<1>8. NoOverlap
  BY <1>4 DEF NoOverlap
<1> QED
  BY <1>1, <1>2, <1>5, <1>7, <1>8 DEF IInv

\* Whatever a page, the cache, a call or an answer holds under the version a
\* row has is what the row holds, and nobody is ahead of it, unless two
\* transactions overlapped on the row or an import touched it: what the
\* If-Match check of the PATCH handlers relies on.
THEOREM OneContentPerVersion == Spec => []SameVersionSameContent
<1>1. IInv => SameVersionSameContent
  BY DEF IInv, CallOK, TabOK, SameVersionSameContent
<1> QED
  BY <1>1, InitIInv, NextIInv, PTL DEF Spec

\* The histories only grow, and only a commit adds a loss.
LEMMA Histories ==
  ASSUME [Next]_vars
  PROVE  /\ forked \subseteq forked' /\ silent \subseteq silent'
         /\ UNCHANGED blind \/ \E m \in net : Commit(m)
<1>1. ASSUME NEW m \in net, Server(m) \/ Lose(m) \/ Unheard(m)
      PROVE  /\ forked \subseteq forked' /\ silent \subseteq silent'
             /\ UNCHANGED blind \/ Commit(m)
  <2>1. CASE Commit(m)
    BY <2>1 DEF Commit
  <2>2. CASE Open(m)
    BY <2>2 DEF Open, Forks
  <2> QED
    BY <1>1, <2>1, <2>2 DEF Server, Read, Remove, Lose, Unheard
<1>2. ASSUME NEW c \in Tabs, NEW m \in net, Hear(c, m)
      PROVE  UNCHANGED <<forked, silent, blind>>
  BY <1>2 DEF Hear, Loaded, Saved, Refused, VersionFetched, Deleted
<1>3. ASSUME NEW c \in Tabs, User(c) PROVE UNCHANGED <<forked, silent, blind>>
  BY <1>3 DEF User, GoEdit, Delete, Save
<1>4. ASSUME NEW r \in Recs, NEW op \in {"auto", "import"}, Background(r, op)
      PROVE  forked \subseteq forked' /\ UNCHANGED <<silent, blind>>
  BY <1>4 DEF Background, Forks
<1>5. CASE UNCHANGED vars
  BY <1>5 DEF vars
<1> QED
  BY <1>1, <1>2, <1>3, <1>4, <1>5 DEF Next

\* A commit overwrites only what its page showed, but for a form sent again
\* after a 412 and for a row that is not clean.
LEMMA NoNewLoss ==
  ASSUME IInv, LossAccounted, [Next]_vars
  PROVE  LossAccounted'
<1>1. \A r \in Recs : Clean(r)' => Clean(r)
  <2>1. forked \subseteq forked' /\ silent \subseteq silent'
    BY Histories
  <2> QED
    BY <2>1 DEF Clean
<1>2. ASSUME NEW m \in net, Commit(m) PROVE LossAccounted'
  <2> DEFINE old == rec[m.row]
             unseen == {f \in Written(m) : /\ old.cont[f] # m.base[f]
                                           /\ old.cont[f] # m.pay[f]}
  <2>1. m \in CallType /\ m.row \in Recs /\ m.st = "open" /\ CallOK(m)
    BY <1>2 DEF IInv, TypeOK, CallType, Commit
  <2>2. ASSUME m.op = "save", Clean(m.row)', ~m.rebased PROVE unseen = {}
    <3>1. Clean(m.row) /\ m.snap = Row(m.row) /\ m.ifm = m.snap.ver
      BY <1>1, <2>1, <2>2 DEF CallOK
    <3>2. m.ifm = rec[m.row].ver
      BY <3>1 DEF Row
    <3>3. m.base = old.cont
      BY <2>1, <2>2, <3>1, <3>2 DEF CallOK, Agrees
    <3> QED
      BY <3>3
  <2>3. blind' = blind \/ /\ m.op = "save" /\ unseen # {}
                          /\ blind' = blind \union {[row |-> m.row, rebased |-> m.rebased]}
    BY <1>2 DEF Commit
  <2>4. \A b \in blind : b.row \in Recs
    BY DEF IInv, TypeOK
  <2>5. \A b \in blind : b.rebased \/ ~Clean(b.row)'
    BY <1>1, <2>4 DEF LossAccounted
  <2> QED
    BY <2>1, <2>2, <2>3, <2>5 DEF LossAccounted, CallType
<1>3. CASE UNCHANGED blind
  <2>1. \A b \in blind : b.row \in Recs
    BY DEF IInv, TypeOK
  <2> QED
    BY <1>1, <1>3, <2>1 DEF LossAccounted
<1> QED
  BY <1>2, <1>3, Histories

\* A save that overwrites a value its page never showed is a form sent again
\* after a 412, or meets a row two transactions overlapped on or an import
\* changed: there is no fourth way, from any page.
THEOREM LossesAreKnown == Spec => []LossAccounted
<1>1. Init => LossAccounted
  BY DEF Init, LossAccounted
<1>2. IInv /\ LossAccounted /\ [Next]_vars => LossAccounted'
  BY NoNewLoss
<1> QED
  BY <1>1, <1>2, InitIInv, NextIInv, PTL DEF Spec
-----------------------------------------------------------------------------
(* A guess of the board ends.  Only the board guesses, every failed move of *)
(* the board lists again, and a page other than a detail page hears only    *)
(* what it asked for itself.                                                *)

\* What a call that is not of a detail page comes from: the page of its tab.
CallsOfPage ==
  \A m \in net : m.by \in Tabs /\ m.page # "gone" /\ ~Protocol[m.page].cached
                   => m.page = tab[m.by].page

\* The move that made guess g, still to be answered or heard.
Moving(c, r, g) ==
  \E m \in net : /\ m.id = g /\ m.op = "save"
                 /\ m.by = c /\ m.page = "board" /\ m.row = r

Guessed(c, r) ==
  tab[c].copy[r].guess # 0 =>
    /\ tab[c].page = "board" /\ tab[c].phase = "open"
    /\ \/ Moving(c, r, tab[c].copy[r].guess)
       \/ InFlight(c, {"list"}) # {}
       \/ tab[c].stuck

GuessInv == CallsOfPage /\ \A c \in Tabs, r \in Recs : Guessed(c, r)

\* What the protocols do with an answer, and the board's own.
LEMMA Reactions ==
  ASSUME NEW k \in Kinds
  PROVE  /\ Protocol[k].guesses => k = "board"
         /\ Protocol[k].cached => /\ Protocol[k].conflict = "toast"
                                  /\ Protocol[k].failure = "toast"
                                  /\ Protocol[k].done = "keep"
                                  /\ Protocol[k].deletes = "leave"
         /\ ~Protocol[k].cached => Protocol[k].deletes # "leave"
         /\ k = "board" => /\ ~Protocol[k].cached /\ Protocol[k].list
                           /\ Protocol[k].done = "keep"
                           /\ Protocol[k].conflict = "relist"
                           /\ Protocol[k].failure = "relist"
                           /\ Protocol[k].deletes = "drop"
<1>1. Kinds = {"lead_edit", "customer_edit", "company_edit", "product_edit",
               "deal_edit", "deal_page", "lead_page", "board", "tasks", "hoje"}
  BY DEF Kinds, Protocol
<1>2. CASE k \in {"lead_edit", "customer_edit", "company_edit", "product_edit", "deal_edit"}
  <2>1. ASSUME NEW p \in {LeadEditPage, CustomerEditPage, CompanyEditPage,
                          ProductEditPage, DealEditPage}
        PROVE  ~p.guesses /\ ~p.cached /\ p.deletes = "no"
    <3>1. CASE p \in {CustomerEditPage, CompanyEditPage}
      BY <3>1 DEF CustomerEditPage, CompanyEditPage, EditPage
    <3>2. CASE p = LeadEditPage
      BY <3>2 DEF LeadEditPage, EditPage
    <3>3. CASE p = ProductEditPage
      BY <3>3 DEF ProductEditPage, EditPage
    <3>4. CASE p = DealEditPage
      BY <3>4 DEF DealEditPage, EditPage
    <3> QED
      BY <3>1, <3>2, <3>3, <3>4
  <2>2. Protocol[k] \in {LeadEditPage, CustomerEditPage, CompanyEditPage,
                         ProductEditPage, DealEditPage}
    BY <1>2 DEF Protocol
  <2> QED
    BY <1>2, <2>1, <2>2
<1>3. CASE k \in {"deal_page", "lead_page"}
  <2>1. CASE k = "deal_page"
    <3>1. Protocol[k] = DealPage
      BY <2>1 DEF Protocol
    <3> QED
      BY <2>1, <3>1 DEF DealPage, EditPage
  <2>2. CASE k = "lead_page"
    <3>1. Protocol[k] = LeadPage
      BY <2>2 DEF Protocol
    <3> QED
      BY <2>2, <3>1 DEF LeadPage, DealPage, EditPage
  <2> QED
    BY <1>3, <2>1, <2>2
<1>4. CASE k = "board"
  <2>1. Protocol[k] = Board
    BY <1>4 DEF Protocol
  <2> QED
    BY <1>4, <2>1 DEF Board, EditPage
<1>5. CASE k \in {"tasks", "hoje"}
  <2>1. Protocol[k] \in {TasksPage, HojePage}
    BY <1>5 DEF Protocol
  <2> QED
    BY <1>5, <2>1 DEF TasksPage, HojePage, Board, EditPage
<1> QED
  BY <1>1, <1>2, <1>3, <1>4, <1>5

\* Opening a page: its copies are empty, and what its tab asked for from a
\* page that is left is not waited for.
LEMMA EnterGuessed ==
  ASSUME TypeOK, GuessInv, NEW c \in Tabs, NEW k \in Kinds, NEW t \in TabType,
         NEW n \in SUBSET net, \A m \in net \ n : m.by = c, Enter(c, k, t, n)
  PROVE  GuessInv'
<1> DEFINE gone(m) == IF m.by = c /\ m.page # "gone" /\ ~Protocol[m.page].cached
                        THEN [m EXCEPT !.page = "gone"] ELSE m
           left == {gone(m) : m \in n}
           warm == Protocol[k].cached /\ t.cache # NoCopy
           u == [t EXCEPT !.page = k, !.form = Blank, !.rebased = FALSE, !.stuck = FALSE,
                          !.copy = [r \in Recs |-> NoCopy],
                          !.phase = IF warm THEN "open" ELSE "loading"]
<1>1. tab' = [tab EXCEPT ![c] = u] /\ (net' = left \union {Fetch(c, k)} \/ net' = left)
  BY DEF Enter
<1>2. tab'[c].page = k /\ \A r \in Recs : tab'[c].copy[r].guess = 0
  BY <1>1 DEF TypeOK, TabType, NoCopy
<1>3. \A d \in Tabs \ {c} : tab'[d] = tab[d]
  BY <1>1 DEF TypeOK
<1>4. ASSUME NEW m \in left
      PROVE  \/ m \in net /\ (m.by = c => m.page = "gone" \/ Protocol[m.page].cached)
             \/ m.by = c /\ m.page = "gone"
  <2>1. PICK o \in n : m = gone(o)
    OBVIOUS
  <2>2. o \in CallType
    BY DEF TypeOK
  <2>3. CASE m = o
    BY <2>1, <2>2, <2>3 DEF CallType
  <2>4. CASE m # o
    BY <2>1, <2>2, <2>4 DEF CallType
  <2> QED
    BY <2>3, <2>4
<1>5. Fetch(c, k).by = c /\ Fetch(c, k).page = k
  BY DEF Fetch, Call
<1>6. CallsOfPage'
  <2> SUFFICES ASSUME NEW m \in net', m.by \in Tabs, m.page # "gone",
                      ~Protocol[m.page].cached
               PROVE  m.page = tab'[m.by].page
    BY DEF CallsOfPage
  <2>1. CASE m = Fetch(c, k)
    BY <1>2, <1>5, <2>1
  <2>2. CASE m \in left
    BY <1>3, <1>4, <2>2 DEF GuessInv, CallsOfPage
  <2> QED
    BY <1>1, <2>1, <2>2
<1>7. \A m \in net : m.by # c => m \in net'
  BY <1>1
<1>8. ASSUME NEW d \in Tabs, NEW r \in Recs PROVE Guessed(d, r)'
  <2>1. CASE d = c
    BY <1>2, <2>1 DEF Guessed
  <2>2. CASE d # c
    <3>1. Guessed(d, r) /\ tab'[d] = tab[d]
      BY <1>3, <2>2 DEF GuessInv
    <3> QED
      BY <1>7, <2>2, <3>1 DEF Guessed, Moving, InFlight
  <2> QED
    BY <2>1, <2>2
<1> QED
  BY <1>6, <1>8 DEF GuessInv

\* The steps that leave the tabs on their pages: every guess they leave had
\* its reason before, and keeps it.
LEMMA GuessKept ==
  ASSUME GuessInv,
         \A d \in Tabs : tab'[d].page = tab[d].page,
         \A m \in net' : m \in net \/ m.by \notin Tabs \/ m.page = "gone"
                           \/ Protocol[m.page].cached \/ m.page = tab[m.by].page,
         \A d \in Tabs, r \in Recs :
           Guessed(d, r) /\ tab'[d].copy[r].guess # 0 => Guessed(d, r)'
  PROVE  GuessInv'
<1>1. CallsOfPage'
  BY DEF GuessInv, CallsOfPage
<1>2. \A d \in Tabs, r \in Recs : Guessed(d, r)'
  BY DEF GuessInv, Guessed
<1> QED
  BY <1>1, <1>2 DEF GuessInv

\* A step of the server, or a loss: the call goes on as it was.
LEMMA ServerGuessed ==
  ASSUME IInv, GuessInv, NEW m \in net, Server(m) \/ Lose(m)
  PROVE  GuessInv'
<1>1. tab' = tab
  BY DEF Server, Read, Open, Commit, Remove, Lose
<1>2. m \in CallType /\ CallOK(m)
  BY DEF IInv, TypeOK
<1>3. \A code, rows : /\ Answer(m, code, rows).id = m.id
                      /\ Answer(m, code, rows).by = m.by
                      /\ Answer(m, code, rows).page = m.page
                      /\ Answer(m, code, rows).op = m.op
                      /\ Answer(m, code, rows).row = m.row
  BY <1>2 DEF Answer, CallType
<1>4. LET o == [m EXCEPT !.st = "open", !.snap = Row(m.row)] IN
        /\ o.id = m.id /\ o.by = m.by /\ o.page = m.page
        /\ o.op = m.op /\ o.row = m.row
  BY <1>2 DEF CallType
<1>5. \/ net' = net \ {m} /\ m.op \in {"auto", "import"}
      \/ \E n : /\ net' = (net \ {m}) \union {n}
                /\ n.id = m.id /\ n.by = m.by /\ n.page = m.page
                /\ n.op = m.op /\ n.row = m.row
  <2>1. CASE Read(m)
    <3>1. \E code, rows : net' = (net \ {m}) \union {Answer(m, code, rows)}
      BY <2>1 DEF Read, Becomes
    <3> QED
      BY <1>3, <3>1
  <2>2. CASE Open(m)
    <3>1. \/ net' = (net \ {m}) \union {Answer(m, CheckIfMatch(m), NoRows)}
          \/ net' = (net \ {m}) \union {[m EXCEPT !.st = "open", !.snap = Row(m.row)]}
      BY <2>2 DEF Open, Becomes
    <3>2. CASE net' = (net \ {m}) \union {Answer(m, CheckIfMatch(m), NoRows)}
      BY <1>3, <3>2
    <3>3. CASE net' = (net \ {m}) \union {[m EXCEPT !.st = "open", !.snap = Row(m.row)]}
      BY <1>4, <3>3
    <3> QED
      BY <3>1, <3>2, <3>3
  <2>3. CASE Commit(m)
    <3>1. m.op \in {"save", "auto", "import"}
      BY <1>2, <2>3 DEF Commit, CallOK
    <3>2. CASE m.op = "save"
      <4>1. \E code, rows : net' = (net \ {m}) \union {Answer(m, code, rows)}
        BY <2>3, <3>2 DEF Commit, Becomes
      <4> QED
        BY <1>3, <4>1
    <3>3. CASE m.op # "save"
      BY <2>3, <3>1, <3>3 DEF Commit
    <3> QED
      BY <3>2, <3>3
  <2>4. CASE Remove(m)
    BY <1>3, <2>4 DEF Remove, Becomes
  <2>5. CASE Lose(m)
    BY <1>3, <2>5 DEF Lose, Becomes
  <2> QED
    BY <2>1, <2>2, <2>3, <2>4, <2>5 DEF Server
<1>6. ASSUME NEW d \in Tabs, NEW r \in Recs, Guessed(d, r) PROVE Guessed(d, r)'
  <2>1. \A g : Moving(d, r, g) => Moving(d, r, g)'
    BY <1>5 DEF Moving
  <2>2. InFlight(d, {"list"}) # {} => InFlight(d, {"list"})' # {}
    BY <1>1, <1>5 DEF InFlight
  <2> QED
    BY <1>1, <1>6, <2>1, <2>2 DEF Guessed
<1>7. \A n \in net' : n \in net \/ n.by \notin Tabs \/ n.page = "gone"
                        \/ Protocol[n.page].cached \/ n.page = tab[n.by].page
  BY <1>5 DEF GuessInv, CallsOfPage
<1> QED
  BY <1>1, <1>6, <1>7, GuessKept

\* A page's own fetch: a listing shows what it has in place of every guess,
\* one that failed leaves them and is said to be stuck.
LEMMA LoadedGuessed ==
  ASSUME IInv, GuessInv, NEW c \in Tabs, NEW m \in net, Loaded(c, m)
  PROVE  GuessInv'
<1> DEFINE t == tab[c]
           row == m.rows[t.own]
           here == m.page = t.page /\ t.phase # "left"
           fetched == [t EXCEPT !.copy = [r \in Recs |-> AsCopy(m.rows[r])],
                                !.form = IF P(c).list THEN Blank ELSE row.cont,
                                !.phase = "open", !.stuck = FALSE]
           shown == [t EXCEPT !.phase = IF P(c).hides THEN "error" ELSE "open"]
           cached == [t EXCEPT !.cache = AsCopy(row),
                               !.phase = IF here THEN "open" ELSE t.phase]
           u == IF m.page = "gone" THEN t
                ELSE IF m.code # "ok"
                  THEN IF ~here THEN t
                       ELSE IF t.phase = "open" THEN [t EXCEPT !.stuck = TRUE] ELSE shown
                ELSE IF Protocol[m.page].cached THEN cached
                ELSE IF ~here THEN t ELSE fetched
<1>1. /\ t \in TabType /\ m \in CallType /\ t.page \in Kinds
      /\ tab \in [Tabs -> TabType]
  BY DEF IInv, TypeOK, TabType
<1>2. tab' = [tab EXCEPT ![c] = u] /\ net' = net \ {m} /\ m.by = c
  BY DEF Loaded
<1>3. /\ fetched.page = t.page /\ \A r \in Recs : fetched.copy[r].guess = 0
      /\ cached.page = t.page /\ cached.copy = t.copy /\ cached.stuck = t.stuck
      /\ t.phase = "open" => cached.phase = "open"
      /\ shown.page = t.page /\ shown.copy = t.copy
  BY <1>1 DEF TabType, AsCopy
<1>4. /\ [t EXCEPT !.stuck = TRUE].page = t.page /\ [t EXCEPT !.stuck = TRUE].copy = t.copy
      /\ [t EXCEPT !.stuck = TRUE].phase = t.phase /\ [t EXCEPT !.stuck = TRUE].stuck
  BY <1>1 DEF TabType
<1>5. tab'[c] = u /\ u.page = t.page /\ \A d \in Tabs \ {c} : tab'[d] = tab[d]
  <2> HIDE DEF fetched, cached, shown
  <2> QED
    BY <1>1, <1>2, <1>3, <1>4
<1>6. ASSUME NEW r \in Recs, Guessed(c, r), tab'[c].copy[r].guess # 0
      PROVE  Guessed(c, r)'
  <2> HIDE DEF fetched, cached, shown
  <2>1. u.copy[r].guess = t.copy[r].guess /\ t.page = "board" /\ t.phase = "open"
    BY <1>3, <1>4, <1>5, <1>6 DEF Guessed
  <2>2. CASE m.page = t.page /\ m.code # "ok"
    <3>1. u = [t EXCEPT !.stuck = TRUE]
      BY <1>1, <2>1, <2>2 DEF Kinds, Protocol
    <3> QED
      BY <1>4, <1>5, <2>1, <3>1 DEF Guessed
  <2>3. CASE m.page = t.page /\ m.code = "ok"
    <3>1. u = fetched
      BY <1>1, <2>1, <2>3, Reactions
    <3>2. tab'[c] = fetched
      BY <1>5, <3>1
    <3> QED
      BY <1>3, <1>6, <3>2
  <2>4. CASE m.page # t.page
    <3>1. u = t \/ u = cached
      BY <2>4
    <3>2. u.page = t.page /\ u.phase = t.phase /\ u.copy = t.copy /\ u.stuck = t.stuck
      BY <1>3, <2>1, <3>1
    <3>3. \A n \in net : n.page = "board" => n \in net'
      BY <1>2, <2>1, <2>4
    <3> QED
      BY <1>5, <1>6, <2>1, <3>2, <3>3 DEF Guessed, Moving, InFlight
  <2> QED
    BY <2>2, <2>3, <2>4
<1>7. ASSUME NEW d \in Tabs, d # c, NEW r \in Recs, Guessed(d, r) PROVE Guessed(d, r)'
  <2>1. tab'[d] = tab[d] /\ \A n \in net : n.by = d => n \in net'
    BY <1>2, <1>5, <1>7
  <2> QED
    BY <1>7, <2>1 DEF Guessed, Moving, InFlight
<1>8. /\ \A d \in Tabs : tab'[d].page = tab[d].page
      /\ net' \subseteq net
  <2> HIDE DEF u
  <2> QED
    BY <1>2, <1>5
<1>9. \A d \in Tabs, r \in Recs : Guessed(d, r) /\ tab'[d].copy[r].guess # 0 => Guessed(d, r)'
  <2> HIDE DEF u
  <2> QED
    BY <1>6, <1>7
<1> HIDE DEF t, row, here, fetched, shown, cached, u
<1> QED
  BY <1>8, <1>9, GuessKept

\* A save that succeeded: the row it moved shows the answer.
LEMMA SavedGuessed ==
  ASSUME IInv, GuessInv, NEW c \in Tabs, NEW m \in net, Saved(c, m)
  PROVE  GuessInv'
<1> DEFINE row == m.rows[m.row]
           p == Protocol[m.page]
           t == [tab[c] EXCEPT !.saved = row.ver]
           u == IF p.done = "leave" THEN [t EXCEPT !.phase = "left"]
                ELSE IF p.cached THEN [t EXCEPT !.cache = AsCopy(row)]
                ELSE IF p.done = "drop" THEN [t EXCEPT !.copy[m.row] = NoCopy]
                ELSE IF t.copy[m.row] = NoCopy THEN t
                ELSE [t EXCEPT !.copy[m.row] = AsCopy(row)]
<1>1. /\ m \in CallType /\ m.page \in Kinds /\ m.row \in Recs /\ row \in Rows
      /\ tab[c] \in TabType /\ tab \in [Tabs -> TabType] /\ m.by = c
  BY DEF IInv, TypeOK, CallType, Saved
<1>2. t \in TabType
  <2>1. row.ver \in Nat
    BY <1>1 DEF Rows
  <2> QED
    BY <1>1, <2>1 DEF TabType
<1>3. CASE p.next \in Kinds /\ Enter(c, p.next, t, net \ {m})
  BY <1>1, <1>2, <1>3, EnterGuessed DEF IInv
<1>4. CASE net' = net \ {m} /\ tab' = [tab EXCEPT ![c] = u]
  <2>1. /\ t.page = tab[c].page /\ t.phase = tab[c].phase /\ t.copy = tab[c].copy
        /\ t.stuck = tab[c].stuck
    BY <1>1 DEF TabType
  <2>2. \A v \in {AsCopy(row), NoCopy} :
          /\ [t EXCEPT !.copy[m.row] = v].page = t.page
          /\ [t EXCEPT !.copy[m.row] = v].phase = t.phase
          /\ [t EXCEPT !.copy[m.row] = v].stuck = t.stuck
          /\ [t EXCEPT !.copy[m.row] = v].copy = [t.copy EXCEPT ![m.row] = v]
    BY <1>2 DEF TabType
  <2>3. AsCopy(row).guess = 0 /\ NoCopy.guess = 0 /\ t.copy \in [Recs -> Copies]
    BY <1>2 DEF AsCopy, NoCopy, TabType
  <2>4. ASSUME NEW v \in {AsCopy(row), NoCopy}
        PROVE  [t EXCEPT !.copy[m.row] = v].copy[m.row].guess = 0
               /\ \A r \in Recs \ {m.row} : [t EXCEPT !.copy[m.row] = v].copy[r] = t.copy[r]
    BY <1>1, <2>2, <2>3
  <2>5. /\ [t EXCEPT !.phase = "left"].page = t.page
        /\ [t EXCEPT !.phase = "left"].copy = t.copy
        /\ [t EXCEPT !.cache = AsCopy(row)].page = t.page
        /\ [t EXCEPT !.cache = AsCopy(row)].phase = t.phase
        /\ [t EXCEPT !.cache = AsCopy(row)].stuck = t.stuck
        /\ [t EXCEPT !.cache = AsCopy(row)].copy = t.copy
    BY <1>2 DEF TabType
  <2>6. u.page = t.page
    <3> HIDE DEF t
    <3> QED
      BY <2>2, <2>5
  <2>7. tab'[c] = u /\ \A d \in Tabs \ {c} : tab'[d] = tab[d]
    BY <1>1, <1>4
  <2>8. ASSUME NEW r \in Recs, Guessed(c, r), u.copy[r].guess # 0 PROVE Guessed(c, r)'
    <3> HIDE DEF t
    <3>1. u.copy[r] = t.copy[r]
      BY <2>2, <2>4, <2>5, <2>8
    <3>2. t.page = "board" /\ t.phase = "open"
      BY <2>1, <2>8, <3>1 DEF Guessed
    <3>3. CASE m.page = "board"
      <4>1. u = IF t.copy[m.row] = NoCopy THEN t ELSE [t EXCEPT !.copy[m.row] = AsCopy(row)]
        BY <1>1, <3>3, Reactions
      <4>2. r # m.row
        BY <2>3, <2>4, <2>8, <4>1
      <4>3. u.phase = t.phase /\ u.stuck = t.stuck
        BY <2>2, <4>1
      <4>4. \A n \in net : n.row = r \/ n.op = "list" => n \in net'
        BY <1>4, <4>2 DEF Saved
      <4> HIDE DEF u
      <4> QED
        BY <2>1, <2>6, <2>7, <2>8, <3>1, <4>3, <4>4 DEF Guessed, Moving, InFlight
    <3>4. CASE m.page # "board"
      <4>1. p.cached
        BY <1>1, <2>1, <3>2, <3>4 DEF GuessInv, CallsOfPage, Saved
      <4>2. u = [t EXCEPT !.cache = AsCopy(row)]
        BY <1>1, <4>1, Reactions
      <4>3. \A n \in net : n.page = "board" => n \in net'
        BY <1>4, <3>4
      <4>4. u.phase = t.phase /\ u.stuck = t.stuck
        BY <2>5, <4>2
      <4> HIDE DEF u
      <4> QED
        BY <2>1, <2>6, <2>7, <2>8, <3>1, <3>2, <4>3, <4>4 DEF Guessed, Moving, InFlight
    <3> QED
      BY <3>3, <3>4
  <2>9. ASSUME NEW d \in Tabs, d # c, NEW r \in Recs, Guessed(d, r) PROVE Guessed(d, r)'
    <3>1. tab'[d] = tab[d] /\ \A n \in net : n.by = d => n \in net'
      BY <1>1, <1>4, <2>7, <2>9
    <3> QED
      BY <2>9, <3>1 DEF Guessed, Moving, InFlight
  <2> HIDE DEF u, t
  <2> QED
    BY <1>4, <2>1, <2>6, <2>7, <2>8, <2>9, GuessKept
<1>5. p.next \in Kinds \union {"none"}
  BY <1>1, Protocols
<1> QED
  BY <1>3, <1>4, <1>5 DEF Saved

\* A save that failed: the board has a listing under way from then on.
LEMMA RefusedGuessed ==
  ASSUME IInv, GuessInv, NEW c \in Tabs, NEW m \in net, Refused(c, m)
  PROVE  GuessInv'
<1> DEFINE p == Protocol[m.page]
           then == IF m.code = "412" THEN p.conflict ELSE p.failure
           cut == IF then = "refetch" THEN InFlight(c, {"list"}) ELSE {}
           call == IF then = "version" THEN Call(c, m.page, "version", m.row)
                   ELSE Fetch(c, m.page)
<1>1. /\ m \in CallType /\ m.page \in Kinds /\ m.row \in Recs /\ m.by = c
      /\ tab \in [Tabs -> TabType] /\ tab[c].page \in Kinds /\ m.page # "gone"
  BY DEF IInv, TypeOK, CallType, TabType, Refused
<1>2. /\ Fetch(c, m.page).by = c /\ Fetch(c, m.page).page = m.page
      /\ Fetch(c, m.page).op = IF p.list THEN "list" ELSE "load"
      /\ Call(c, m.page, "version", m.row).by = c
      /\ Call(c, m.page, "version", m.row).page = m.page
  BY DEF Fetch, Call
<1>3. /\ \/ then = "toast" /\ net' = net \ {m}
         \/ then # "toast" /\ net' = (net \ (cut \union {m})) \union {call}
      /\ tab' = tab \/ (IsForm(m.page) /\ tab' = [tab EXCEPT ![c].phase = "error"])
  <2>1. tab' = tab \/ (IsForm(m.page) /\ tab' = [tab EXCEPT ![c].phase = "error"])
    BY DEF Refused
  <2>2. \/ then = "toast" /\ net' = net \ {m}
        \/ then # "toast" /\ net' = Sent(call, cut \union {m})
    BY DEF Refused
  <2> QED
    BY <2>1, <2>2 DEF Sent
<1>4. p.cached => then = "toast"
  BY <1>1, Reactions
<1>5. ~p.cached => m.page = tab[c].page
  BY <1>1 DEF GuessInv, CallsOfPage
<1>6. tab[c].page = "board" =>
        /\ tab' = tab
        /\ m.page = "board" => then = "relist"
  BY <1>1, <1>3, <1>4, <1>5, Reactions DEF IsForm
<1>7. \A d \in Tabs : /\ tab'[d].page = tab[d].page /\ tab'[d].copy = tab[d].copy
                      /\ d # c => tab'[d] = tab[d]
  BY <1>1, <1>3 DEF TabType
<1>8. \A n \in net' : n \in net \/ n.page = tab[n.by].page
  BY <1>2, <1>3, <1>4, <1>5
<1>9. ASSUME NEW r \in Recs, Guessed(c, r), tab'[c].copy[r].guess # 0
      PROVE  Guessed(c, r)'
  <2>1. tab[c].page = "board" /\ tab[c].phase = "open" /\ tab' = tab
    BY <1>6, <1>7, <1>9 DEF Guessed
  <2>2. CASE m.page = "board"
    <3>1. net' = (net \ (cut \union {m})) \union {Fetch(c, m.page)}
      BY <1>3, <1>6, <2>1, <2>2
    <3>2. Fetch(c, m.page) \in InFlight(c, {"list"})'
      BY <1>1, <1>2, <2>1, <2>2, <3>1, Reactions DEF InFlight
    <3> QED
      BY <1>9, <2>1, <3>2 DEF Guessed
  <2>3. CASE m.page # "board"
    <3>1. net' = net \ {m}
      BY <1>3, <1>4, <1>5, <2>1, <2>3
    <3>2. \A n \in net : n.page = "board" => n \in net'
      BY <2>3, <3>1
    <3> QED
      BY <1>9, <2>1, <3>2 DEF Guessed, Moving, InFlight
  <2> QED
    BY <2>2, <2>3
<1>10. ASSUME NEW d \in Tabs, d # c, NEW r \in Recs, Guessed(d, r) PROVE Guessed(d, r)'
  <2>1. tab'[d] = tab[d] /\ \A n \in net : n.by = d => n \in net'
    BY <1>1, <1>3, <1>7, <1>10 DEF InFlight
  <2> QED
    BY <1>10, <2>1 DEF Guessed, Moving, InFlight
<1> QED
  BY <1>7, <1>8, <1>9, <1>10, GuessKept

\* The answers that take a row off the page, or only its version.
LEMMA OtherAnswersGuessed ==
  ASSUME IInv, GuessInv, NEW c \in Tabs, NEW m \in net,
         VersionFetched(c, m) \/ Deleted(c, m) \/ Unheard(m)
  PROVE  GuessInv'
<1>1. /\ m \in CallType /\ m.row \in Recs /\ m.rows[m.row].ver \in Nat
      /\ tab \in [Tabs -> TabType] /\ tab[c].page \in Kinds
      /\ \A d \in Tabs : tab[d].copy \in [Recs -> Copies]
  BY DEF IInv, TypeOK, CallType, TabType, Rows
<1>2. CASE VersionFetched(c, m)
  <2> DEFINE cp == [tab[c].copy[m.row] EXCEPT !.ver = m.rows[m.row].ver]
             u == [tab[c] EXCEPT !.copy = [tab[c].copy EXCEPT ![m.row] = cp],
                                 !.rebased = TRUE]
  <2>1. /\ u.page = tab[c].page /\ u.phase = tab[c].phase /\ u.stuck = tab[c].stuck
        /\ u.copy = [tab[c].copy EXCEPT ![m.row] = cp] /\ cp.guess = tab[c].copy[m.row].guess
    BY <1>1 DEF TabType, Copies
  <2>2. tab' = tab \/ tab' = [tab EXCEPT ![c] = u]
    BY <1>2 DEF VersionFetched
  <2> HIDE DEF u, cp
  <2>3. \A d \in Tabs : /\ tab'[d].page = tab[d].page /\ tab'[d].phase = tab[d].phase
                        /\ tab'[d].stuck = tab[d].stuck
                        /\ \A r \in Recs : tab'[d].copy[r].guess = tab[d].copy[r].guess
    BY <1>1, <2>1, <2>2
  <2>4. net' = net \ {m} /\ m.op = "version"
    BY <1>2 DEF VersionFetched
  <2>5. ASSUME NEW d \in Tabs, NEW r \in Recs, Guessed(d, r) PROVE Guessed(d, r)'
    BY <2>3, <2>4, <2>5 DEF Guessed, Moving, InFlight
  <2> QED
    BY <2>3, <2>4, <2>5, GuessKept
<1>3. CASE Unheard(m)
  <2>1. net' = net \ {m} /\ tab' = tab /\ m.page = "gone"
    BY <1>3 DEF Unheard
  <2>2. ASSUME NEW d \in Tabs, NEW r \in Recs, Guessed(d, r) PROVE Guessed(d, r)'
    <3>1. \A n \in net : n.page = "board" => n \in net'
      BY <2>1
    <3> QED
      BY <2>1, <2>2, <3>1 DEF Guessed, Moving, InFlight
  <2> QED
    BY <2>1, <2>2, GuessKept
<1>4. CASE Deleted(c, m)
  <2> DEFINE does == IF m.code = "ok" THEN Protocol[m.page].deletes ELSE "no"
  <2>1. m.by = c /\ m.op = "delete" /\ m.page \in Kinds /\ m.page # "gone"
    BY <1>1, <1>4 DEF Deleted, CallType
  <2>2. does = "refetch" => m.page = tab[c].page /\ m.page # "board"
    BY <2>1, Reactions DEF GuessInv, CallsOfPage
  <2>3. Fetch(c, m.page).by = c /\ Fetch(c, m.page).page = m.page
    BY DEF Fetch, Call
  <2>4. CASE does = "refetch"
    <3>1. /\ net' = (net \ (InFlight(c, {"list"}) \union {m})) \union {Fetch(c, m.page)}
          /\ tab' = tab
      BY <1>4, <2>4 DEF Deleted, Sent
    <3>2. ASSUME NEW d \in Tabs, NEW r \in Recs, Guessed(d, r), tab'[d].copy[r].guess # 0
          PROVE  Guessed(d, r)'
      <4>1. tab[d].page = "board"
        BY <3>1, <3>2 DEF Guessed
      <4>2. \A n \in net : n.by = d => n \in net'
        BY <2>1, <2>2, <2>4, <3>1, <4>1 DEF InFlight
      <4> QED
        BY <3>1, <3>2, <4>2 DEF Guessed, Moving, InFlight
    <3> QED
      BY <2>2, <2>3, <2>4, <3>1, <3>2, GuessKept
  <2>5. CASE does # "refetch"
    <3> DEFINE u == [tab[c] EXCEPT !.copy[m.row] = NoCopy]
    <3>1. /\ net' = net \ {m}
          /\ \/ tab' = tab
             \/ tab' = [tab EXCEPT ![c] = u]
             \/ does = "leave" /\ m.page = tab[c].page /\ tab' = [tab EXCEPT ![c].phase = "left"]
      BY <1>4, <2>5 DEF Deleted
    <3>2. /\ u.page = tab[c].page /\ u.phase = tab[c].phase /\ u.stuck = tab[c].stuck
          /\ u.copy = [tab[c].copy EXCEPT ![m.row] = NoCopy] /\ NoCopy.guess = 0
      BY <1>1 DEF TabType, NoCopy
    <3>3. does = "leave" => m.page # "board"
      BY <2>1, Reactions
    <3> HIDE DEF u
    <3>4. \A d \in Tabs : tab'[d].page = tab[d].page
      BY <1>1, <3>1, <3>2 DEF TabType
    <3>5. \A d \in Tabs, r \in Recs :
            tab'[d].copy[r].guess \in {0, tab[d].copy[r].guess}
      BY <1>1, <3>1, <3>2 DEF TabType
    <3>6. \A d \in Tabs : tab[d].page = "board" =>
            tab'[d].phase = tab[d].phase /\ tab'[d].stuck = tab[d].stuck
      BY <1>1, <3>1, <3>2, <3>3
    <3>7. ASSUME NEW d \in Tabs, NEW r \in Recs, Guessed(d, r), tab'[d].copy[r].guess # 0
          PROVE  Guessed(d, r)'
      <4>1. tab[d].page = "board" /\ tab'[d].copy[r].guess = tab[d].copy[r].guess
        BY <3>5, <3>7 DEF Guessed
      <4> QED
        BY <2>1, <3>1, <3>4, <3>6, <3>7, <4>1 DEF Guessed, Moving, InFlight
    <3> QED
      BY <3>1, <3>4, <3>7, GuessKept
  <2> QED
    BY <2>4, <2>5
<1> QED
  BY <1>2, <1>3, <1>4

\* What a user does: a move shows its guess from the call it sends.
LEMMA UserGuessed ==
  ASSUME IInv, GuessInv, NEW c \in Tabs, User(c)
  PROVE  GuessInv'
<1>1. /\ tab[c] \in TabType /\ tab[c].page \in Kinds /\ tab \in [Tabs -> TabType]
      /\ \A d \in Tabs : tab[d].copy \in [Recs -> Copies]
  BY DEF IInv, TypeOK, TabType
<1>2. CASE GoEdit(c)
  <2>1. P(c).next \in Kinds
    BY <1>1, <1>2, Protocols DEF GoEdit, P
  <2>2. Enter(c, P(c).next, tab[c], net)
    BY <1>2 DEF GoEdit
  <2> QED
    BY <1>1, <2>1, <2>2, EnterGuessed DEF IInv
<1>3. ASSUME NEW r \in Recs, Delete(c, r) PROVE GuessInv'
  <2>1. tab' = tab /\ net' = net \union {Call(c, tab[c].page, "delete", r)}
    BY <1>3 DEF Delete, Sent
  <2>2. Call(c, tab[c].page, "delete", r).by = c
        /\ Call(c, tab[c].page, "delete", r).page = tab[c].page
    BY DEF Call
  <2>3. ASSUME NEW d \in Tabs, NEW x \in Recs, Guessed(d, x) PROVE Guessed(d, x)'
    BY <2>1, <2>3 DEF Guessed, Moving, InFlight
  <2> QED
    BY <2>1, <2>2, <2>3, GuessKept
<1>4. ASSUME NEW r \in Recs, NEW s \in SUBSET Fields, Save(c, r, s) PROVE GuessInv'
  <2> DEFINE call == Call(c, tab[c].page, "save", r)
             ifm == IF P(c).echoes THEN Held(c, r).ver ELSE 0
             pay(form) == IF IsForm(tab[c].page) THEN form
                          ELSE [g \in Fields |-> IF g \in s THEN calls + 1 ELSE 0]
             new(form) == [call EXCEPT !.ifm = ifm, !.fields = s,
                             !.base = Held(c, r).cont, !.rebased = tab[c].rebased,
                             !.pay = pay(form)]
             guess == IF P(c).guesses THEN calls + 1 ELSE tab[c].copy[r].guess
             cp == [tab[c].copy[r] EXCEPT !.guess = guess]
             t(form) == [tab[c] EXCEPT !.form = form, !.copy = [tab[c].copy EXCEPT ![r] = cp]]
  <2>1. PICK form : /\ net' = net \union {new(form)}
                    /\ tab' = [tab EXCEPT ![c].form = form,
                         ![c].copy[r].guess = IF P(c).guesses THEN calls + 1 ELSE @]
    BY <1>4 DEF Save, Sent
  <2>2. /\ new(form).id = calls + 1 /\ new(form).by = c /\ new(form).op = "save"
        /\ new(form).page = tab[c].page /\ new(form).row = r
    BY DEF Call
  <2>3. tab' = [tab EXCEPT ![c] = t(form)]
    <3> DEFINE form1 == [tab EXCEPT ![c].form = form]
    <3>1. form1[c] = [tab[c] EXCEPT !.form = form] /\ form1[c].copy = tab[c].copy
      BY <1>1 DEF TabType
    <3>2. tab' = [form1 EXCEPT ![c].copy[r].guess = IF P(c).guesses THEN calls + 1 ELSE @]
      BY <2>1
    <3> QED
      BY <1>1, <3>1, <3>2 DEF TabType
  <2>4. /\ t(form).page = tab[c].page /\ t(form).phase = tab[c].phase
        /\ t(form).stuck = tab[c].stuck
        /\ t(form).copy = [tab[c].copy EXCEPT ![r] = cp]
        /\ cp.guess = guess
    BY <1>1 DEF TabType, Copies
  <2> HIDE DEF new, t, cp
  <2>5. /\ \A d \in Tabs \ {c} : tab'[d] = tab[d]
        /\ tab'[c].page = tab[c].page /\ tab'[c].phase = tab[c].phase
        /\ tab'[c].stuck = tab[c].stuck
        /\ \A x \in Recs : tab'[c].copy[x].guess = IF x = r THEN guess ELSE tab[c].copy[x].guess
    BY <1>1, <2>3, <2>4
  <2>6. ASSUME NEW d \in Tabs, NEW x \in Recs, Guessed(d, x),
               tab'[d].copy[x].guess = tab[d].copy[x].guess, tab'[d].page = tab[d].page,
               tab'[d].phase = tab[d].phase, tab'[d].stuck = tab[d].stuck
        PROVE  Guessed(d, x)'
    BY <2>1, <2>6 DEF Guessed, Moving, InFlight
  <2>7. CASE ~P(c).guesses
    <3>1. ASSUME NEW d \in Tabs, NEW x \in Recs, Guessed(d, x) PROVE Guessed(d, x)'
      BY <2>5, <2>6, <2>7, <3>1
    <3> QED
      BY <2>1, <2>2, <2>5, <3>1, GuessKept
  <2>8. CASE P(c).guesses
    <3>1. tab[c].page = "board" /\ tab[c].phase = "open"
      BY <1>1, <1>4, <2>8, Reactions DEF P, Save
    <3>2. Guessed(c, r)'
      BY <2>1, <2>2, <2>5, <2>8, <3>1 DEF Guessed, Moving
    <3>3. ASSUME NEW d \in Tabs, NEW x \in Recs, Guessed(d, x) PROVE Guessed(d, x)'
      BY <2>5, <2>6, <3>2, <3>3
    <3> QED
      BY <2>1, <2>2, <2>5, <3>3, GuessKept
  <2> QED
    BY <2>7, <2>8
<1> QED
  BY <1>2, <1>3, <1>4 DEF User

\* Every step keeps the reason of every guess.
LEMMA NextGuessInv == IInv /\ GuessInv /\ [Next]_vars => GuessInv'
<1> SUFFICES ASSUME IInv, GuessInv, [Next]_vars PROVE GuessInv'
  OBVIOUS
<1>1. ASSUME NEW m \in net, Server(m) \/ Lose(m) PROVE GuessInv'
  BY <1>1, ServerGuessed
<1>2. ASSUME NEW c \in Tabs, NEW m \in net, Hear(c, m) PROVE GuessInv'
  BY <1>2, LoadedGuessed, SavedGuessed, RefusedGuessed, OtherAnswersGuessed DEF Hear
<1>3. ASSUME NEW m \in net, Unheard(m) PROVE GuessInv'
  <2>1. CASE Tabs = {}
    <3>1. \A n \in net' : n.by \notin Tabs
      BY <2>1
    <3> QED
      BY <2>1 DEF GuessInv, CallsOfPage
  <2>2. CASE Tabs # {}
    BY <1>3, <2>2, OtherAnswersGuessed
  <2> QED
    BY <2>1, <2>2
<1>4. ASSUME NEW c \in Tabs, User(c) PROVE GuessInv'
  BY <1>4, UserGuessed
<1>5. ASSUME NEW r \in Recs, NEW op \in {"auto", "import"}, Background(r, op)
      PROVE  GuessInv'
  <2> DEFINE f == IF op = "auto" THEN "stage" ELSE "rest"
             o == [Call(System, "gone", op, r) EXCEPT
                     !.fields = {f}, !.pay[f] = calls + 1, !.st = "open", !.snap = Row(r)]
  <2>1. tab' = tab /\ net' = net \union {o} /\ o.page = "gone"
    BY <1>5 DEF Background, Call
  <2> HIDE DEF o
  <2>2. ASSUME NEW d \in Tabs, NEW x \in Recs, Guessed(d, x) PROVE Guessed(d, x)'
    BY <2>1, <2>2 DEF Guessed, Moving, InFlight
  <2> QED
    BY <2>1, <2>2, GuessKept
<1>6. CASE UNCHANGED vars
  BY <1>6 DEF vars, GuessInv, CallsOfPage, Guessed, Moving, InFlight
<1> QED
  BY <1>1, <1>2, <1>3, <1>4, <1>5, <1>6 DEF Next

\* A card of the board that shows a move before its answer never keeps it for
\* good: the move is under way, or a listing that will show the rows as they
\* are, or the last listing failed and said so, for any tabs and any losses.
THEOREM GuessesAnswered == Spec => []GuessesEnd
<1>1. Init => GuessInv
  <2> SUFFICES ASSUME Init PROVE GuessInv
    OBVIOUS
  <2>1. \A c \in Tabs, r \in Recs : tab[c].copy[r].guess = 0
    BY DEF Init, NoCopy
  <2>2. CallsOfPage
    <3>1. PICK k \in Starts :
            /\ \A c \in Tabs : tab[c].page = IF c \in DOMAIN k THEN k[c] ELSE "hoje"
            /\ net = {Fetch(c, k[c]) : c \in DOMAIN k}
      BY DEF Init
    <3>2. \A c, x : Fetch(c, x).by = c /\ Fetch(c, x).page = x
      BY DEF Fetch, Call
    <3> QED
      BY <3>1, <3>2 DEF CallsOfPage
  <2> QED
    BY <2>1, <2>2 DEF GuessInv, Guessed
<1>2. GuessInv => GuessesEnd
  BY DEF GuessInv, Guessed, GuessesEnd, Moving
<1> QED
  BY <1>1, <1>2, InitIInv, NextIInv, NextGuessInv, PTL DEF Spec
=============================================================================
