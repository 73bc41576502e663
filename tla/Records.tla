------------------------------ MODULE Records ------------------------------
(***************************************************************************)
(* Optimistic locking, from the pages to the rows.  A lead, a customer, a  *)
(* company, a product, a deal and a task carry a version; a PATCH or a     *)
(* move echoes in If-Match the version its page last read, and the server  *)
(* answers 428 without it and 412 when it is not the row's.  The server    *)
(* reads the row, checks, and updates it later in the same transaction,    *)
(* without a lock, so two transactions may both pass the check.            *)
(*                                                                         *)
(* A page is described by a record (what it sends, what it does with each  *)
(* answer) and one set of actions runs every page from its record.  The    *)
(* columns of a row are two: "stage", which the boards and the buttons     *)
(* patch, and "rest"; an edit form sends both.  A value is the number of   *)
(* the call that wrote it.                                                 *)
(***************************************************************************)
EXTENDS Naturals, FiniteSets

CONSTANTS
  Recs,       \* rows of one entity
  Tabs,       \* browser tabs
  Starts,     \* the pages the tabs may be on first: functions from the tabs
              \* that are open to Kinds
  System,     \* the author of what no tab sends: automations and imports
  MaxCalls,   \* bound: calls made, by all
  MaxFaults   \* bound: calls or answers the network loses

ASSUME RecordsAssumption ==
  /\ System \notin Tabs
  /\ MaxCalls \in Nat
  /\ MaxFaults \in Nat

VARIABLES
  rec,      \* rec[r]: the row: version, content, not soft-deleted
  tab,      \* tab[c]: page, what it holds, and the tab's query cache
  net,      \* calls sent, in a transaction, or answered and not yet handled
  calls,    \* calls made so far
  faults,   \* calls lost so far
  forked,   \* history: rows two open transactions were going to update
  silent,   \* history: rows an import changed without a new version
  blind     \* history: saves that overwrote a value their page never showed

vars == <<rec, tab, net, calls, faults, forked, silent, blind>>

Fields == {"stage", "rest"}
Contents == [Fields -> Nat]
Blank == [f \in Fields |-> 0]        \* an empty form
First == [f \in Fields |-> 1]        \* what the rows hold at first

Rows == [ver : Nat, cont : Contents]
NoRow == [ver |-> 0, cont |-> Blank]
Row(r) == [ver |-> rec[r].ver, cont |-> rec[r].cont]

(***************************************************************************)
(* The pages.  list: it holds every row, else its own; patches: the sets   *)
(* of columns its saves send ({}: the follow-up, which no form carries);   *)
(* locks: its control is disabled while the call runs; echoes: it sends    *)
(* If-Match; hides: an error replaces the form; conflict and failure: what *)
(* it does on 412 and on another error; guesses: it shows the change       *)
(* before the answer; done and deletes: what a successful save or delete   *)
(* does; next: where a save leads; cached: it shows the query cache.       *)
(***************************************************************************)
EditPage ==
  [list |-> FALSE, patches |-> {Fields}, locks |-> TRUE, echoes |-> TRUE,
   hides |-> TRUE, conflict |-> "version", failure |-> "toast",
   guesses |-> FALSE, done |-> "leave", deletes |-> "no", next |-> "none",
   cached |-> FALSE]

\* The error a failed save sets replaces the whole form.
LeadEditPage == [EditPage EXCEPT !.next = "lead_page"]
CustomerEditPage == EditPage
CompanyEditPage == EditPage

\* Here the form stays under the error, with the version just fetched.
ProductEditPage == [EditPage EXCEPT !.hides = FALSE]
DealEditPage == [EditPage EXCEPT !.hides = FALSE, !.next = "deal_page"]

\* The stage buttons and the follow-up form, each disabled while pending.
DealPage ==
  [EditPage EXCEPT !.patches = {{"stage"}, {}}, !.conflict = "toast",
                   !.done = "keep", !.deletes = "leave",
                   !.next = "deal_edit", !.cached = TRUE]

\* The stage buttons of a lead: useUpdateLead passes no version.
LeadPage ==
  [DealPage EXCEPT !.patches = {{"stage"}}, !.echoes = FALSE,
                   !.next = "lead_edit"]

\* Mutant: the board lists again on 412 only.
BoardRelistsOnConflict ==
  [EditPage EXCEPT !.list = TRUE, !.patches = {{"stage"}}, !.locks = FALSE,
                   !.hides = FALSE, !.conflict = "relist", !.guesses = TRUE,
                   !.done = "keep", !.deletes = "drop"]

\* The kanban: a drop moves the card at once, and any failure lists again.
Board ==
  [EditPage EXCEPT !.list = TRUE, !.patches = {{"stage"}}, !.locks = FALSE,
                   !.hides = FALSE, !.conflict = "relist",
                   !.failure = "relist", !.guesses = TRUE, !.done = "keep",
                   !.deletes = "drop"]

\* The task list: a conflict invalidates the query, another error nothing.
TasksPage ==
  [Board EXCEPT !.conflict = "refetch", !.failure = "toast",
                !.guesses = FALSE, !.deletes = "refetch"]

\* Today's tasks: marking one done takes it off the page.
HojePage ==
  [TasksPage EXCEPT !.locks = TRUE, !.hides = TRUE, !.conflict = "toast",
                    !.done = "drop", !.deletes = "no"]

Protocol ==
  [lead_edit |-> LeadEditPage, customer_edit |-> CustomerEditPage,
   company_edit |-> CompanyEditPage, product_edit |-> ProductEditPage,
   deal_edit |-> DealEditPage, deal_page |-> DealPage,
   lead_page |-> LeadPage, board |-> Board, tasks |-> TasksPage,
   hoje |-> HojePage]

Kinds == DOMAIN Protocol
ASSUME StartsAssumption ==
  \A k \in Starts : DOMAIN k \subseteq Tabs /\ k \in [DOMAIN k -> Kinds]

P(c) == Protocol[tab[c].page]
IsForm(k) == Protocol[k].conflict = "version"

(***************************************************************************)
(* Calls.                                                                  *)
(***************************************************************************)
Ops == {"load", "list", "version", "save", "delete", "auto", "import"}
Copies == [ver : Nat, cont : Contents, guess : Nat]
NoCopy == [ver |-> 0, cont |-> Blank, guess |-> 0]
AsCopy(row) == [ver |-> row.ver, cont |-> row.cont, guess |-> 0]
NoRows == [r \in Recs |-> NoRow]

Call(c, p, op, r) ==
  [id |-> calls + 1, by |-> c, page |-> p, op |-> op, row |-> r, ifm |-> 0,
   fields |-> {}, pay |-> Blank, base |-> Blank, rebased |-> FALSE,
   st |-> "sent", snap |-> NoRow, code |-> "none", rows |-> NoRows]

CallType ==
  [id : Nat, by : Tabs \union {System}, page : Kinds \union {"gone"}, op : Ops, row : Recs,
   ifm : Nat, fields : SUBSET Fields, pay : Contents, base : Contents,
   rebased : BOOLEAN, st : {"sent", "open", "answered"}, snap : Rows,
   code : {"none", "ok", "404", "412", "428", "lost"},
   rows : [Recs -> Rows]]

Answer(m, code, rows) ==
  [m EXCEPT !.st = "answered", !.code = code, !.rows = rows]
Becomes(m, n) == net' = (net \ {m}) \union {n}

(***************************************************************************)
(* The server.                                                             *)
(***************************************************************************)
\* A GET of the row, or of the list; soft-deleted rows are left out.
Read(m) ==
  /\ m.st = "sent" /\ m.op \in {"load", "list", "version"}
  /\ LET seen == {r \in Recs : rec[r].live /\ (m.op = "list" \/ r = m.row)}
         code == IF m.op # "list" /\ seen = {} THEN "404" ELSE "ok"
     IN  Becomes(m, Answer(m, code,
                           [r \in Recs |-> IF r \in seen THEN Row(r) ELSE NoRow]))
  /\ UNCHANGED <<rec, tab, calls, faults, forked, silent, blind>>

\* The start of a PATCH, a move or a follow-up: read the row, check If-Match.
\* Mutant: any version will do.
CheckIfMatchPresent(m) ==
  IF ~rec[m.row].live THEN "404" ELSE IF m.ifm = 0 THEN "428" ELSE "none"

CheckIfMatch(m) ==
  LET row == rec[m.row] IN
  IF ~row.live THEN "404"
  ELSE IF m.ifm = 0 THEN "428"
  ELSE IF m.ifm # row.ver THEN "412" ELSE "none"

\* Opening a transaction on row r beside an open one.
Forks(r) ==
  IF \E n \in net : n.st = "open" /\ n.row = r THEN forked \union {r} ELSE forked

Open(m) ==
  /\ m.st = "sent" /\ m.op = "save"
  /\ LET code == CheckIfMatch(m) IN
       IF code = "none"
         THEN /\ Becomes(m, [m EXCEPT !.st = "open", !.snap = Row(m.row)])
              /\ forked' = Forks(m.row)
         ELSE Becomes(m, Answer(m, code, NoRows)) /\ UNCHANGED forked
  /\ UNCHANGED <<rec, tab, calls, faults, silent, blind>>

\* The commit.  The UPDATE names the columns that differ from the row the
\* transaction read, and the version that row had, plus one; an import's
\* names no version.
Written(m) == {f \in m.fields : m.pay[f] # m.snap.cont[f]}

\* Mutant: an automation's stage change keeps the version.
BumpsSaves(m) == m.op = "save"

Bumps(m) == m.op # "import"

Commit(m) ==
  /\ m.st = "open"
  /\ LET old == rec[m.row]
         cont == [f \in Fields |->
                    IF f \in Written(m) THEN m.pay[f] ELSE old.cont[f]]
         ver == IF Bumps(m) THEN m.snap.ver + 1 ELSE old.ver
         unseen == {f \in Written(m) : /\ old.cont[f] # m.base[f]
                                       /\ old.cont[f] # m.pay[f]}
     IN  /\ rec' = [rec EXCEPT ![m.row].ver = ver, ![m.row].cont = cont]
         /\ blind' = IF m.op = "save" /\ unseen # {}
                       THEN blind \union {[row |-> m.row, rebased |-> m.rebased]}
                       ELSE blind
         /\ IF m.op = "save"
              THEN Becomes(m, Answer(m, "ok",
                     [NoRows EXCEPT ![m.row] = [ver |-> ver, cont |-> cont]]))
              ELSE net' = net \ {m}
  /\ silent' = IF m.op = "import" THEN silent \union {m.row} ELSE silent
  /\ UNCHANGED <<tab, calls, faults, forked>>

\* DELETE marks the row; it checks no version and writes none.
Remove(m) ==
  /\ m.st = "sent" /\ m.op = "delete"
  /\ Becomes(m, Answer(m, IF rec[m.row].live THEN "ok" ELSE "404", NoRows))
  /\ rec' = [rec EXCEPT ![m.row].live = FALSE]
  /\ UNCHANGED <<tab, calls, faults, forked, silent, blind>>

\* A call fails before it changes anything, or the answer of one that changed
\* the row is lost on the way back.
Lose(m) ==
  /\ faults < MaxFaults
  /\ m.by \in Tabs /\ m.code # "lost"
  /\ m.st = "sent" \/ (m.op \in {"save", "delete"} /\ m.code = "ok")
  /\ Becomes(m, Answer(m, "lost", NoRows))
  /\ faults' = faults + 1
  /\ UNCHANGED <<rec, tab, calls, forked, silent, blind>>

\* A background writer: a change_stage automation of a deal, or a row of an
\* upsert import of leads or customers.  Each reads the row and checks nothing.
Background(r, op) ==
  /\ calls < MaxCalls
  /\ calls' = calls + 1
  /\ rec[r].live
  /\ LET f == IF op = "auto" THEN "stage" ELSE "rest" IN
       net' = net \union {[Call(System, "gone", op, r) EXCEPT
                             !.fields = {f}, !.pay[f] = calls + 1,
                             !.st = "open", !.snap = Row(r)]}
  /\ forked' = Forks(r)
  /\ UNCHANGED <<rec, tab, faults, silent, blind>>

(***************************************************************************)
(* The tabs.  A call carries the page that made it: what a detail page     *)
(* asked for lands in the query cache wherever the tab is by then, what    *)
(* another page asked for is lost once the page is left.                   *)
(***************************************************************************)
Held(c, r) == IF P(c).cached THEN tab[c].cache ELSE tab[c].copy[r]

InFlight(c, ops) ==
  {m \in net : m.by = c /\ m.page = tab[c].page /\ m.op \in ops}

Fetch(c, k) == Call(c, k, IF Protocol[k].list THEN "list" ELSE "load", tab[c].own)

\* The net with one more call, without those of gone.
Sent(call, gone) == (net \ gone) \union {call}

\* Tab c, as t so far, opens page k, while n is in flight.  A detail page
\* whose row is in the cache shows it, and fetches it only past the stale time.
Enter(c, k, t, n) ==
  /\ calls < MaxCalls
  /\ LET left == {IF m.by = c /\ m.page # "gone" /\ ~Protocol[m.page].cached
                    THEN [m EXCEPT !.page = "gone"] ELSE m : m \in n}
         warm == Protocol[k].cached /\ t.cache # NoCopy
     IN  /\ tab' = [tab EXCEPT ![c] =
                      [t EXCEPT !.page = k, !.form = Blank, !.rebased = FALSE, !.stuck = FALSE,
                                !.copy = [r \in Recs |-> NoCopy],
                                !.phase = IF warm THEN "open" ELSE "loading"]]
         /\ \/ net' = left \union {Fetch(c, k)} /\ calls' = calls + 1
            \/ warm /\ net' = left /\ calls' = calls

\* The Edit link of a detail page.
GoEdit(c) ==
  /\ P(c).cached /\ tab[c].phase = "open"
  /\ Enter(c, P(c).next, tab[c], net)
  /\ UNCHANGED <<rec, faults, forked, silent, blind>>

\* The answer of a page's own fetch; a failed one leaves what is shown.
Loaded(c, m) ==
  /\ m.by = c /\ m.st = "answered" /\ m.op \in {"load", "list"}
  /\ net' = net \ {m}
  /\ LET row == m.rows[tab[c].own]
         here == m.page = tab[c].page /\ tab[c].phase # "left"
         t == tab[c]
     IN  tab' = [tab EXCEPT ![c] =
           IF m.page = "gone" THEN t
           ELSE IF m.code # "ok"
             THEN IF ~here THEN t
                  ELSE IF t.phase = "open" THEN [t EXCEPT !.stuck = TRUE]
                  ELSE [t EXCEPT !.phase = IF P(c).hides THEN "error" ELSE "open"]
           ELSE IF Protocol[m.page].cached
             THEN [t EXCEPT !.cache = AsCopy(row),
                            !.phase = IF here THEN "open" ELSE @]
           ELSE IF ~here THEN t
           ELSE [t EXCEPT !.copy = [r \in Recs |-> AsCopy(m.rows[r])],
                          !.form = IF P(c).list THEN Blank ELSE row.cont,
                          !.phase = "open", !.stuck = FALSE]]
  /\ UNCHANGED <<rec, calls, faults, forked, silent, blind>>

\* A save: the form's submit, a stage button, a drop on the board, a toggle.
\* A form whose load failed may be submitted too, empty and with no version;
\* between two submits of a form its user may have picked another stage.
Save(c, r, s) ==
  /\ tab[c].phase = "open" /\ s \in P(c).patches
  /\ P(c).list \/ r = tab[c].own
  /\ IsForm(tab[c].page) \/ Held(c, r).ver # 0
  /\ P(c).locks => {m \in InFlight(c, {"save", "version"}) :
                      m.row = r /\ (m.fields = s \/ m.op = "version")} = {}
  /\ calls < MaxCalls /\ calls' = calls + 1
  /\ \E form \in {tab[c].form, [tab[c].form EXCEPT !["stage"] = calls + 1]} :
       /\ IsForm(tab[c].page) \/ form = Blank
       /\ net' = Sent([Call(c, tab[c].page, "save", r) EXCEPT
                  !.ifm = IF P(c).echoes THEN Held(c, r).ver ELSE 0,
                  !.fields = s, !.base = Held(c, r).cont,
                  !.rebased = tab[c].rebased,
                  !.pay = IF IsForm(tab[c].page) THEN form
                          ELSE [g \in Fields |-> IF g \in s THEN calls + 1 ELSE 0]],
                  {})
       /\ tab' = [tab EXCEPT ![c].form = form,
                    ![c].copy[r].guess = IF P(c).guesses THEN calls + 1 ELSE @]
  /\ UNCHANGED <<rec, faults, forked, silent, blind>>

\* The save succeeded: a form leaves for the page it leads to, a detail page
\* caches the answer, a list puts it in the row's place, today's list drops it.
Saved(c, m) ==
  /\ m.by = c /\ m.st = "answered" /\ m.op = "save"
  /\ m.code = "ok" /\ m.page # "gone"
  /\ LET row == m.rows[m.row]
         p == Protocol[m.page]
         t == [tab[c] EXCEPT !.saved = row.ver]
     IN  \/ /\ p.done = "leave" /\ p.next # "none"
            /\ Enter(c, p.next, t, net \ {m})
         \/ /\ p.done # "leave" \/ p.next = "none"
            /\ net' = net \ {m} /\ UNCHANGED calls
            /\ tab' = [tab EXCEPT ![c] =
                 IF p.done = "leave" THEN [t EXCEPT !.phase = "left"]
                 ELSE IF p.cached THEN [t EXCEPT !.cache = AsCopy(row)]
                 ELSE IF p.done = "drop" THEN [t EXCEPT !.copy[m.row] = NoCopy]
                 ELSE IF t.copy[m.row] = NoCopy THEN t
                 ELSE [t EXCEPT !.copy[m.row] = AsCopy(row)]]
  /\ UNCHANGED <<rec, faults, forked, silent, blind>>

\* The save failed.  Forms show the error, those that hide in its place; on
\* 412 they fetch the version alone.  The board lists again, the task list
\* only on 412, and the others only say so.
Refused(c, m) ==
  /\ m.by = c /\ m.st = "answered" /\ m.op = "save"
  /\ m.code # "ok" /\ m.page # "gone"
  /\ LET p == Protocol[m.page]
         then == IF m.code = "412" THEN p.conflict ELSE p.failure
         cut == IF then = "refetch" THEN InFlight(c, {"list"}) ELSE {}
     IN  /\ \/ /\ then = "toast"
               /\ net' = net \ {m} /\ UNCHANGED calls
            \/ /\ then # "toast"
               /\ calls < MaxCalls /\ calls' = calls + 1
               /\ net' = Sent(IF then = "version"
                                THEN Call(c, m.page, "version", m.row)
                                ELSE Fetch(c, m.page), cut \union {m})
         /\ tab' = IF IsForm(m.page) /\ p.hides
                     THEN [tab EXCEPT ![c].phase = "error"] ELSE tab
  /\ UNCHANGED <<rec, faults, forked, silent, blind>>

\* The version fetched after a 412: the form keeps what it shows.
VersionFetched(c, m) ==
  /\ m.by = c /\ m.st = "answered" /\ m.op = "version" /\ m.page # "gone"
  /\ net' = net \ {m}
  /\ tab' = IF m.code # "ok" THEN tab
            ELSE [tab EXCEPT ![c].copy[m.row].ver = m.rows[m.row].ver,
                             ![c].rebased = TRUE]
  /\ UNCHANGED <<rec, calls, faults, forked, silent, blind>>

Delete(c, r) ==
  /\ tab[c].phase = "open" /\ P(c).deletes # "no"
  /\ P(c).list \/ r = tab[c].own
  /\ Held(c, r).ver # 0
  /\ calls < MaxCalls /\ calls' = calls + 1
  /\ net' = Sent(Call(c, tab[c].page, "delete", r), {})
  /\ UNCHANGED <<rec, tab, faults, forked, silent, blind>>

\* The board filters the row out, the task list lists again, a detail page
\* leaves; an error is only shown.
Deleted(c, m) ==
  /\ m.by = c /\ m.st = "answered" /\ m.op = "delete" /\ m.page # "gone"
  /\ LET does == IF m.code = "ok" THEN Protocol[m.page].deletes ELSE "no" IN
       \/ /\ does = "refetch"
          /\ calls < MaxCalls /\ calls' = calls + 1
          /\ net' = Sent(Fetch(c, m.page), InFlight(c, {"list"}) \union {m})
          /\ UNCHANGED tab
       \/ /\ does # "refetch"
          /\ net' = net \ {m} /\ UNCHANGED calls
          /\ tab' = CASE does = "drop" ->
                          [tab EXCEPT ![c].copy[m.row] = NoCopy]
                      [] does = "leave" /\ m.page = tab[c].page ->
                          [tab EXCEPT ![c].phase = "left"]
                      [] OTHER -> tab
  /\ UNCHANGED <<rec, faults, forked, silent, blind>>

\* An answer nobody waits for any more.
Unheard(m) ==
  /\ m.st = "answered" /\ m.page = "gone"
  /\ m.op \notin {"load", "list"}
  /\ net' = net \ {m}
  /\ UNCHANGED <<rec, tab, calls, faults, forked, silent, blind>>

Init ==
  /\ rec = [r \in Recs |-> [ver |-> 1, cont |-> First, live |-> TRUE]]
  /\ calls = 1
  /\ \E k \in Starts, own \in [Tabs -> Recs] :
     /\ tab = [c \in Tabs |->
               [page |-> IF c \in DOMAIN k THEN k[c] ELSE "hoje",
                phase |-> IF c \in DOMAIN k THEN "loading" ELSE "left",
                own |-> own[c], copy |-> [r \in Recs |-> NoCopy], form |-> Blank,
                rebased |-> FALSE, cache |-> NoCopy, saved |-> 0,
                stuck |-> FALSE]]
     /\ net = {Fetch(c, k[c]) : c \in DOMAIN k}
  /\ faults = 0
  /\ forked = {} /\ silent = {} /\ blind = {}

Server(m) == Read(m) \/ Open(m) \/ Commit(m) \/ Remove(m)
Hear(c, m) ==
  \/ Loaded(c, m) \/ Saved(c, m) \/ Refused(c, m)
  \/ VersionFetched(c, m) \/ Deleted(c, m)
User(c) ==
  \/ GoEdit(c)
  \/ \E r \in Recs : Delete(c, r) \/ \E s \in SUBSET Fields : Save(c, r, s)

Next ==
  \/ \E m \in net : Server(m) \/ Lose(m) \/ Unheard(m)
  \/ \E c \in Tabs : User(c) \/ \E m \in net : Hear(c, m)
  \/ \E r \in Recs, op \in {"auto", "import"} : Background(r, op)

Spec == Init /\ [][Next]_vars

(***************************************************************************)
(* Properties.                                                             *)
(***************************************************************************)
TabType ==
  [page : Kinds, phase : {"loading", "open", "error", "left"},
   own : Recs, copy : [Recs -> Copies], form : Contents, rebased : BOOLEAN,
   cache : Copies, saved : Nat, stuck : BOOLEAN]

\* Every variable has its type (rows, tabs, calls, histories).
TypeOK ==
  /\ rec \in [Recs -> [ver : Nat, cont : Contents, live : BOOLEAN]]
  /\ tab \in [Tabs -> TabType]
  /\ net \subseteq CallType
  /\ calls \in Nat /\ faults \in Nat
  /\ forked \subseteq Recs /\ silent \subseteq Recs
  /\ blind \subseteq [row : Recs, rebased : BOOLEAN]

Clean(r) == r \notin forked /\ r \notin silent

\* A pair of version and content is one the row had: older, or the row's.
Agrees(r, ver, cont) ==
  /\ ver <= rec[r].ver
  /\ ver = rec[r].ver => cont = rec[r].cont

\* A version names one content: as long as no two transactions overlapped on
\* a row and no import touched it, whatever a page, the cache or a call holds
\* with the row's version is what the row holds, and nothing is ahead of it.
\* It is what the If-Match check of the server relies on.
SameVersionSameContent ==
  \A r \in Recs : Clean(r) =>
    /\ \A c \in Tabs :
         /\ tab[c].rebased \/ Agrees(r, tab[c].copy[r].ver, tab[c].copy[r].cont)
         /\ tab[c].own = r => Agrees(r, tab[c].cache.ver, tab[c].cache.cont)
    /\ \A m \in net :
         /\ Agrees(r, m.rows[r].ver, m.rows[r].cont)
         /\ m.row = r => m.rebased \/ Agrees(r, m.ifm, m.base)
         /\ m.row = r /\ m.st = "open" => m.snap = Row(r)

\* A save that overwrites a value its page never showed is one of three: a
\* form sent again after a 412 (the pages that keep the form take the new
\* version without the new content), a save of a row on which two
\* transactions overlapped, or of one that an import changed.
LossAccounted ==
  \A b \in blind : b.rebased \/ ~Clean(b.row)

\* A card of the board shows a guess only while its move or a new listing is
\* under way, or when the listing failed (onDragEnd does not catch that).
GuessesEnd ==
  \A c \in Tabs, r \in Recs :
    LET g == tab[c].copy[r].guess IN
    g # 0 /\ tab[c].phase = "open" =>
      \/ \E m \in net : m.id = g /\ m.op = "save"
      \/ InFlight(c, {"list"}) # {}
      \/ tab[c].stuck
=============================================================================
