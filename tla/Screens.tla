------------------------------ MODULE Screens ------------------------------
(***************************************************************************)
(* One open screen of the frontend, and the server behind it.  Every       *)
(* screen works the same way: it lists, its controls send calls, several   *)
(* may be in flight, and their answers come back in any order, each to the *)
(* handler of its call.  Pages holds the screens, described by records.    *)
(*                                                                         *)
(* A row has a version, raised by every change, and the number of its      *)
(* one-time secret, raised whenever that is set.                           *)
(***************************************************************************)
EXTENDS ScreenShapes

CONSTANTS
  Pages,       \* the screens
  Rows,        \* rows of the list
  Params,      \* filters, searches, threads
  Nobody,      \* the row of an idle flag, of a listing, and of a row to come
  MaxActs      \* bound: what the user, the timers and the network do

\* What the screens have in common.  A plain flag disables its own control;
\* one that is cleared on failure only belongs to a form that leaves; a flag
\* is the id of a row for all its operations or for none, and so is the flag of
\* a control that can be put away.
Rowless == {"create", "all", "order"}
FlagsFit(p) ==
  \A op \in p.ops :
    /\ op.kind \notin {"list", "more"}
    /\ op.lock # "none" /\ op.slot \in {"no", "away"} => op.lock \in op.needs
    /\ op.slot \in {"plain", "latest"} => op.kind \notin Rowless
    /\ op.slot = "away" <=> op.after = "refresh"
    /\ op.slot = "away" => op.frees = "always"
    /\ op.frees = "failure" =>
         op.lock # "none" /\ op.after = "leave" /\ op.error = "say"
    /\ op.frees = "listed" => op.after = "await"
    /\ \A o \in p.ops : o.lock = op.lock =>
         /\ o.slot = "no" <=> op.slot = "no"
         /\ o.slot = "away" <=> op.slot = "away"

\* A screen with a list does something about what it changed there.  A change
\* shown early is put right by every answer.  A secret is that of a row, and
\* worthless once the row is gone.
ListFits(p) ==
  \A op \in p.ops :
    /\ p.lists /\ op.kind \in {"create", "change", "all", "remove"} => op.after # "none"
    /\ op.early => /\ op.kind \in {"change", "remove"} /\ op.error = "reload"
                   /\ op.after \in {"splice", "reload", "await"}
    /\ op.secret => p.lists /\ op.kind \notin {"all", "order"} /\ op.ends = "no"
    /\ op.ends # "no" => op.kind \in {"change", "remove"}
    /\ op.kind = "remove" /\ op.ends = "no" => \A o \in p.ops : ~o.secret

\* The screens on the query cache invalidate, and are the only ones that do
\* or have a Load more.  Those that drop late answers list only for a filter.
Lists(op) == op.after \in {"reload", "await"} \/ op.error = "reload"
Invalidates(op) ==
  op.after \in {"refresh", "invalidate"} \/ op.error = "invalidate"
CacheFits(p) ==
  /\ p.filter = "keyed" => \A op \in p.ops : op.after # "splice"
  /\ p.filter = "keyed" \/ (\E op \in p.ops : Invalidates(op)) =>
       /\ p.filter \in {"fixed", "keyed"} /\ p.polls = "no"
       /\ \A op \in p.ops : ~Lists(op)
  /\ p.filter = "flag" => \A op \in p.ops : ~Lists(op)
  /\ p.more => p.filter \in {"fixed", "keyed"}

ASSUME ScreensAssumption ==
  /\ \A p \in Pages :
       p \in PageType /\ FlagsFit(p) /\ ListFits(p) /\ CacheFits(p)
  /\ IsFiniteSet(Rows) /\ Nobody \notin Rows
  /\ Params # {}
  /\ MaxActs \in Nat

VARIABLES
  page,     \* the screen that is open, and
  open,     \* whether it still is, or waits for the next one
  param,    \* its filter
  shown,    \* shown[p]: what it shows, or has cached, for a filter
  busy,     \* its flags
  secret,   \* the one-time secret it shows
  net,      \* calls in flight
  server,   \* the rows
  acts,     \* what the user and the timers did so far
  sent,     \* calls sent so far
  acked,    \* history: versions this screen was told of
  mixed,    \* history: rows whose secret two calls set at once, or whose
            \* secret was lost on its way
  left      \* history: calls sent when a form that leaves the page succeeded

vars == <<page, open, param, shown, busy, secret, net, server, acts, sent,
          acked, mixed, left>>

Here == open # "no"
Zero == [r \in Rows |-> 0]
Blank == [known |-> FALSE, valid |-> FALSE, failed |-> FALSE, late |-> FALSE,
          param |-> CHOOSE p \in Params : TRUE, ver |-> Zero, there |-> {},
          guess |-> {}]
Idle == [row |-> Nobody, id |-> 0]
NoSecret == [row |-> Nobody, key |-> 0]

\* Only a query cache has a place for every filter.
Place(p) == IF page.filter = "keyed" THEN p ELSE Blank.param
Copy == shown[Place(param)]

\* A call, and the flags it holds: those its answer clears.
Call(op, r, p) ==
  [id |-> sent + 1, op |-> op, row |-> r, param |-> p, holds |-> {},
   st |-> "sent", ok |-> FALSE, key |-> 0, ver |-> Zero, there |-> {},
   passed |-> FALSE]
Hold(op, r) ==
  IF op.lock = "none" THEN {}
  ELSE {[lock |-> op.lock, id |-> sent + 1, row |-> r, slot |-> op.slot,
         frees |-> op.frees, ousted |-> FALSE]}
List(p) == Call(Op("list", "none"), Nobody, p)
IsList(m) == m.op.kind \in {"list", "more"}
Changes(m) == m.op.kind \in {"create", "change", "all", "remove"}
Held(calls) == UNION {m.holds : m \in calls}
AnyRow == Rows \union {Nobody}

\* The rows the answer of m is about, and whether two calls are about one row.
Told(m) == IF m.op.kind = "all" THEN m.there ELSE {m.row}
Meet(m, n) == m.row = n.row \/ "all" \in {m.op.kind, n.op.kind}

\* Listings of filter p in flight.
Listings(p) == {m \in net : IsList(m) /\ m.param = p}

(***************************************************************************)
(* The server.  A call is served, or refused: by a check, by the network   *)
(* on its way, or since its row is gone.  An answer may be lost.           *)
(***************************************************************************)
Answer(m, ok) == [m EXCEPT !.st = "answered", !.ok = ok]
Becomes(m, n) == net' = (net \ {m}) \union {n}
Mixed(m) == IF m.op.secret THEN mixed \union {m.row} ELSE mixed

\* The next page is appended to those the screen had when it asked.
NextPage(m) ==
  [ver |-> [r \in Rows |-> IF r \in m.there THEN m.ver[r] ELSE server.ver[r]],
   there |-> m.there \union server.there]

\* The rows a served call changes.  Setting a secret, and ending it, makes the
\* former one worthless.
Changed(m, r) ==
  CASE m.op.kind = "all" -> server.there
    [] m.op.kind \in {"create", "change", "remove"} -> {r}
    [] OTHER -> {}
Ended(m, r) ==
  CASE m.op.secret -> server.ended \ {r}
    [] m.op.ends # "no" -> server.ended \union {r}
    [] OTHER -> server.ended

Serve(m) ==
  /\ m.st = "sent"
  /\ \E r \in AnyRow :
       /\ IF m.op.kind = "create" THEN r \in Rows /\ server.ver[r] = 0
          ELSE r = m.row
       /\ m.op.kind \in {"change", "remove"} => r \in server.there
       /\ LET ver == [x \in Rows |-> IF x \in Changed(m, r)
                                      THEN server.ver[x] + 1 ELSE server.ver[x]]
              there == CASE m.op.kind = "create" -> server.there \union {r}
                         [] m.op.kind = "remove" -> server.there \ {r}
                         [] OTHER -> server.there
              key == IF m.op.secret \/ m.op.ends # "no"
                       THEN [server.key EXCEPT ![r] = @ + 1] ELSE server.key
              seen == CASE m.op.kind \in {"list", "all"} -> [ver |-> ver, there |-> there]
                        [] m.op.kind = "more" -> NextPage(m)
                        [] OTHER -> [ver |-> [x \in Rows |-> IF x = r THEN ver[x] ELSE 0],
                                     there |-> {r} \intersect there]
          IN  /\ server' = [ver |-> ver, there |-> there, key |-> key,
                            ended |-> Ended(m, r)]
              /\ Becomes(m, [Answer(m, TRUE) EXCEPT !.row = r,
                   !.key = IF m.op.secret THEN key[r] ELSE 0,
                   !.ver = seen.ver, !.there = seen.there])
  /\ UNCHANGED <<page, open, param, shown, busy, secret, acts, sent, acked, mixed, left>>

Refuse(m) ==
  /\ m.st = "sent"
  /\ Becomes(m, Answer(m, FALSE))
  /\ UNCHANGED <<page, open, param, shown, busy, secret, server, acts, sent,
                 acked, mixed, left>>

Lose(m) ==
  /\ m.ok /\ acts < MaxActs /\ acts' = acts + 1
  /\ Becomes(m, Answer(m, FALSE))
  /\ mixed' = Mixed(m)
  /\ UNCHANGED <<page, open, param, shown, busy, secret, server, sent, acked, left>>

(***************************************************************************)
(* The user and the timers.                                                *)
(***************************************************************************)
\* Mutant: the control does not look at the flag it sets.
OwnFlagIgnored(op, r) == \A l \in op.needs \ {op.lock} : busy[l] = Idle

\* A control is disabled by any flag it needs; by the id of a row, only for
\* that row.
Enabled(op, r) ==
  \A l \in op.needs :
    IF op.slot \in {"plain", "latest"} THEN busy[l].row # r ELSE busy[l] = Idle

\* The calls for `rows` lose the flags `locks`, where these are ids of rows or
\* of a control that can be put away.
Oust(calls, locks, rows) ==
  {[m EXCEPT !.holds =
      {[h EXCEPT !.ousted =
          @ \/ (h.slot # "no" /\ h.lock \in locks /\ h.row \in rows)] : h \in @}] :
     m \in calls}

\* A control is used.  One that can be put away is there while rows are chosen;
\* the form of a new row with a secret may take that of another off the screen.
Start(op, r) ==
  /\ Here /\ op \in page.ops
  /\ op.kind \in {"change", "remove", "ask"} /\ page.lists
       => r \in shown[Place(param)].there
  /\ op.kind \in Rowless <=> r = Nobody
  /\ op.slot = "away" => Copy.there # {}
  /\ Enabled(op, r)
  /\ acts < MaxActs /\ acts' = acts + 1
  /\ sent' = sent + 1
  /\ net' = Oust(net, {op.lock}, Rows \ {r}) \union
               {[Call(op, r, param) EXCEPT !.holds = Hold(op, r)]}
  /\ busy' = IF op.lock = "none" THEN busy
             ELSE [busy EXCEPT ![op.lock] = [row |-> r, id |-> sent + 1]]
  /\ shown' = IF op.early /\ r \in Rows
                THEN [shown EXCEPT ![Place(param)].guess = @ \union {r}]
                ELSE shown
  /\ mixed' = IF op.secret /\ r \in Rows /\ \E m \in net : m.op.secret /\ m.row = r
                THEN mixed \union {r} ELSE mixed
  /\ secret' = secret \/ (op.secret /\ op.kind = "create" /\ secret' = NoSecret)
  /\ UNCHANGED <<page, open, param, server, acked, left>>

\* Mutant: the effect that lists has no clean-up.
DropNothing == {}

\* The listings a new filter makes the screen ignore.
Dropped == IF page.filter = "flag" THEN {m \in net : IsList(m) /\ m.holds = {}} ELSE {}

\* What can be put away is; its call goes on, and its flag is gone with it.
Away == {op.lock : op \in {o \in page.ops : o.slot = "away"}}
PutAway ==
  /\ Here /\ \E l \in Away : busy[l] # Idle
  /\ acts < MaxActs /\ acts' = acts + 1
  /\ busy' = [l \in Locks |-> IF l \in Away THEN Idle ELSE busy[l]]
  /\ net' = Oust(net, Away, AnyRow)
  /\ UNCHANGED <<page, open, param, shown, secret, server, sent, acked, mixed, left>>

\* The secret is taken off the screen.
Hide ==
  /\ Here /\ secret # NoSecret /\ secret' = NoSecret
  /\ acts < MaxActs /\ acts' = acts + 1
  /\ UNCHANGED <<page, open, param, shown, busy, net, server, sent, acked, mixed, left>>

\* Another filter, which first puts away what can be.  A cached answer is good
\* for a while.
Filter(p) ==
  /\ Here /\ page.filter # "fixed" /\ p # param
  /\ \A l \in Away : busy[l] = Idle
  /\ acts < MaxActs /\ acts' = acts + 1
  /\ param' = p
  /\ \/ /\ page.filter = "keyed" => Listings(p) = {}
        /\ net' = (net \ Dropped) \union {List(p)} /\ sent' = sent + 1
     \/ /\ page.filter = "keyed" /\ (Listings(p) # {} \/ shown[p].valid)
        /\ UNCHANGED <<net, sent>>
  /\ UNCHANGED <<page, open, shown, busy, secret, server, acked, mixed, left>>

\* Load more, disabled while a next page is on its way; fetchNextPage cancels
\* any other listing of the query.
More ==
  /\ Here /\ page.more /\ Copy.known
  /\ \A m \in Listings(param) : m.op.kind # "more"
  /\ acts < MaxActs /\ acts' = acts + 1
  /\ net' = (net \ Listings(param)) \union
       {[Call(Op("more", "none"), Nobody, param) EXCEPT
           !.holds = Held(Listings(param)),
           !.passed = Listings(param) # {} \/ Copy.failed \/ Copy.late,
           !.ver = Copy.ver, !.there = Copy.there]}
  /\ sent' = sent + 1
  /\ UNCHANGED <<page, open, param, shown, busy, secret, server, acked, mixed, left>>

\* A timer lists; or the list is opened, and asked for until one has come.
Poll ==
  /\ Here
  /\ \/ page.polls = "timer"
     \/ page.polls = "first" /\ ~Copy.known /\ ~Copy.failed
  /\ acts < MaxActs /\ acts' = acts + 1
  /\ net' = net \union {List(param)} /\ sent' = sent + 1
  /\ UNCHANGED <<page, open, param, shown, busy, secret, server, acked, mixed, left>>

\* The screen is left: its calls go on, and nobody hears their answers.
Leave ==
  /\ Here /\ open' = "no" /\ net' = {}
  /\ UNCHANGED <<page, param, shown, busy, secret, server, acts, sent, acked,
                 mixed, left>>

(***************************************************************************)
(* The handlers of the answers.                                            *)
(***************************************************************************)
\* Mutant: the flag is cleared where the call succeeds, not in a finally.
ClearsOnSuccess(m, h) == m.ok

\* Mutant: a form clears its flag in a finally.
ClearsFinally(m, h) == h.slot = "plain" \/ busy[h.lock].id = h.id

\* Whether the answer of m clears the flag of h: a mutation's is that of the
\* latest one.  A control that can be put away is, once a call of it succeeded,
\* whichever instance of it that was.
Clears(m, h) ==
  /\ CASE h.frees = "always" -> TRUE
       [] h.frees = "failure" -> ~m.ok
       [] h.frees = "listed" -> ~IsList(m) \/ m.ok
  /\ h.slot = "plain" \/ busy[h.lock].id = h.id \/ (h.slot = "away" /\ m.ok)

Cleared(m) == {h.lock : h \in {h \in m.holds : Clears(m, h)}}
Clear(locks) == busy' = [l \in Locks |-> IF l \in locks THEN Idle ELSE busy[l]]

\* Once m is answered and the flags `locks` are cleared, those in flight have
\* lost these, the calls of its row have been passed, and so have the listings
\* sent before.
Passed(calls, m) ==
  {[n EXCEPT !.passed =
      @ \/ IF IsList(n) THEN ~IsList(m) \/ n.id < m.id
           ELSE ~IsList(m) /\ Meet(n, m)] : n \in calls}
After(m, locks) == Passed(Oust(net \ {m}, locks, AnyRow), m)

\* A load fails: the list is kept, or gone.
Failing(copy, gone) ==
  [copy EXCEPT !.failed = TRUE, !.there = IF gone THEN {} ELSE @]

\* A listing comes back.
Listed(m) ==
  /\ Here /\ IsList(m) /\ m.st = "answered"
  /\ net' = After(m, Cleared(m))
  /\ Clear(Cleared(m))
  /\ \E gone \in BOOLEAN :
       /\ gone => page.fails # "keep"
       /\ ~gone => page.fails # "empty"
       /\ shown' = [shown EXCEPT ![Place(m.param)] =
            IF m.ok
              THEN [known |-> TRUE, valid |-> TRUE, failed |-> FALSE,
                    late |-> m.passed, param |-> m.param, ver |-> m.ver,
                    there |-> m.there, guess |-> {}]
            ELSE Failing(@, gone)]
  /\ UNCHANGED <<page, open, param, secret, server, acts, sent, acked, mixed, left>>

\* Mutant: the handler of a success forgets to list again.
NeverAgain(m, locks) == net' = After(m, locks) /\ UNCHANGED sent

\* The screen lists again, under the filter it had when the operation was
\* started; flags that are not cleared wait for it.
Again(m, locks) ==
  /\ net' = After(m, locks) \union
       {[List(m.param) EXCEPT !.holds = {h \in m.holds : h.lock \notin locks},
                              !.passed = m.param # param]}
  /\ sent' = sent + 1

\* A listing came back without what the operation that holds its flag waits
\* for: the next one is asked for.  (The code gives up after twenty of them,
\* and takes what the last one listed.)
LookAgain(m) ==
  /\ Here /\ IsList(m) /\ m.st = "answered" /\ m.ok
  /\ \E op \in page.ops : op.frees = "listed"
  /\ \E h \in m.holds : h.frees = "listed"
  /\ acts < MaxActs /\ acts' = acts + 1
  /\ Again(m, {})
  /\ UNCHANGED <<page, open, param, shown, busy, secret, server, acked, mixed, left>>

\* invalidateQueries: the listing of the open query starts anew, unless it is
\* the first and still under way; flags that are not cleared wait for it.
Invalidate(m, locks) ==
  LET old == {n \in After(m, locks) : IsList(n) /\ n.param = param}
      rest == After(m, locks) \ old
      held == {h \in m.holds \union Held(old) : h.lock \notin locks}
  IN  IF ~Copy.known /\ old # {}
        THEN /\ net' = rest \union {[n EXCEPT !.holds = held] : n \in old}
             /\ UNCHANGED sent
        ELSE /\ net' = rest \union {[List(param) EXCEPT !.holds = held]}
             /\ sent' = sent + 1

Stale == [p \in Params |-> [shown[p] EXCEPT !.valid = FALSE]]

\* Mutant: what is shown once is not shown again.
SecretOnce(m) ==
  IF m.op.secret /\ secret = NoSecret THEN [row |-> m.row, key |-> m.key]
  ELSE secret

Secret(m) ==
  CASE m.op.secret -> [row |-> m.row, key |-> m.key]
    [] m.op.ends = "hidden" -> NoSecret
    [] OTHER -> secret

\* The answer of m takes the place of its row in the list, or changes them all.
Spliced(copy, m) ==
  [copy EXCEPT !.ver = [r \in Rows |-> IF r \in Told(m) THEN m.ver[r] ELSE @[r]],
               !.there = (@ \ {m.row}) \union ({m.row} \intersect m.there),
               !.late = @ \/ m.passed,
               !.guess = @ \ {m.row}]

\* An operation succeeded.
Done(m) ==
  /\ Here /\ ~IsList(m) /\ m.st = "answered" /\ m.ok
  /\ LET locks == IF m.op.after \in {"await", "invalidate"} THEN {}
                  ELSE Cleared(m)
         place == Place(param)
     IN  /\ Clear(locks)
         /\ CASE m.op.after \in {"reload", "await"} -> Again(m, locks)
              [] m.op.after \in {"refresh", "invalidate"} -> Invalidate(m, locks)
              [] OTHER -> net' = After(m, locks) /\ UNCHANGED sent
         /\ shown' =
              CASE m.op.after = "splice" /\ shown[place].known /\ Changes(m) ->
                     [shown EXCEPT ![place] = Spliced(@, m)]
                [] m.op.after \in {"refresh", "invalidate"} -> Stale
                [] OTHER -> shown
  /\ open' = IF m.op.after = "leave" THEN "leaving" ELSE open
  /\ secret' = Secret(m)
  /\ acked' = [r \in Rows |->
                 IF Changes(m) /\ r \in Told(m) /\ m.ver[r] > acked[r]
                   THEN m.ver[r] ELSE acked[r]]
  /\ left' = IF m.op.after = "leave" /\ m.op.frees = "failure"
               THEN [left EXCEPT ![m.op.lock] = sent] ELSE left
  /\ UNCHANGED <<page, param, server, acts, mixed>>

\* An operation failed.
Failed(m) ==
  /\ Here /\ ~IsList(m) /\ m.st = "answered" /\ ~m.ok
  /\ \/ m.op.error = "reload" /\ Again(m, {}) /\ UNCHANGED <<shown, busy>>
     \/ /\ m.op.error = "invalidate"
        /\ Invalidate(m, {}) /\ shown' = Stale /\ UNCHANGED busy
     \/ /\ m.op.error = "say"
        /\ net' = After(m, Cleared(m)) /\ Clear(Cleared(m))
        /\ UNCHANGED <<shown, sent>>
  /\ UNCHANGED <<page, open, param, secret, server, acts, acked, mixed, left>>

Init ==
  /\ page \in Pages
  /\ open = "yes"
  /\ param = Blank.param
  /\ shown = [p \in Params |-> Blank]
  /\ busy = [l \in Locks |-> Idle]
  /\ secret = NoSecret
  /\ \E there \in SUBSET Rows \ {{}} :
       server = [ver |-> [r \in Rows |-> IF r \in there THEN 1 ELSE 0],
                 there |-> there, key |-> Zero, ended |-> {}]
  /\ acts = 0 /\ sent = 1
  /\ net = IF page.lists
             THEN {[List(param) EXCEPT !.id = 1]}
             ELSE {}
  /\ acked = Zero /\ mixed = {} /\ left = [l \in Locks |-> 0]

Work(m) == Serve(m) \/ Refuse(m)
Hear(m) == Listed(m) \/ LookAgain(m) \/ Done(m) \/ Failed(m)
User ==
  \/ \E op \in page.ops, r \in Rows \union {Nobody} : Start(op, r)
  \/ \E p \in Params : Filter(p)
  \/ More \/ Poll \/ PutAway \/ Hide \/ Leave

Next == User \/ \E m \in net : Work(m) \/ Hear(m) \/ Lose(m)

Spec == Init /\ [][Next]_vars

(***************************************************************************)
(* Properties.                                                             *)
(***************************************************************************)
HoldType ==
  [lock : Locks, id : Nat, row : Rows \union {Nobody},
   slot : {"no", "plain", "latest", "away"},
   frees : {"always", "failure", "listed"}, ousted : BOOLEAN]
CallType ==
  [id : Nat, op : OpType, row : Rows \union {Nobody}, param : Params,
   holds : SUBSET HoldType, st : {"sent", "answered"}, ok : BOOLEAN, key : Nat,
   ver : [Rows -> Nat], there : SUBSET Rows, passed : BOOLEAN]
CopyType ==
  [known : BOOLEAN, valid : BOOLEAN, failed : BOOLEAN, late : BOOLEAN,
   param : Params, ver : [Rows -> Nat], there : SUBSET Rows, guess : SUBSET Rows]

\* Every variable has its type.
TypeOK ==
  /\ page \in PageType /\ open \in {"yes", "leaving", "no"} /\ param \in Params
  /\ shown \in [Params -> CopyType]
  /\ busy \in [Locks -> [row : Rows \union {Nobody}, id : Nat]]
  /\ secret \in [row : Rows \union {Nobody}, key : Nat]
  /\ net \subseteq CallType
  /\ server \in [ver : [Rows -> Nat], there : SUBSET Rows, key : [Rows -> Nat],
                 ended : SUBSET Rows]
  /\ acts \in Nat /\ sent \in Nat
  /\ acked \in [Rows -> Nat] /\ mixed \subseteq Rows
  /\ left \in [Locks -> Nat]

Quiet == open = "yes" /\ net = {}

\* A screen at rest shows every change of its own that it was told of, and no
\* guess, unless its listing failed, or the last answer it put there had been
\* passed by another (reloads are not cancelled, so the older may come last)
\* or had cut short the listing after the change (Load more).
OwnChangesShown ==
  Quiet /\ page.lists /\ ~Copy.failed /\ ~Copy.late =>
    /\ \A r \in Rows : Copy.ver[r] >= acked[r]
    /\ Copy.guess = {}

\* A screen at rest shows what its filter asks for, unless that listing
\* failed; only the screens without a clean-up and without a query cache may
\* end on the answer of an older filter, which came last or was asked for by
\* an operation started under that filter.
FilterShown ==
  Quiet /\ page.lists /\ ~Copy.failed =>
    Copy.param = param \/ (page.filter = "free" /\ Copy.late)

\* A flag keeps its operations apart: no two calls hold it at once, the
\* listing an operation waits for included.  A flag that is the id of a row
\* keeps apart the calls for one row, until a call for another row takes it
\* over or clears it.  The bar that tags the chosen rows keeps its calls apart
\* until it is put away (its "clear selection" is never disabled): the next
\* one sends beside the call of the last.  The billing page has a button that
\* no flag disables.
NeverTwice ==
  Here => \A g, h \in Held(net) :
    g.id # h.id /\ g.lock = h.lock =>
      \/ g.slot # "no" /\ (g.ousted \/ h.ousted)
      \/ g.slot \in {"plain", "latest"} /\ g.row # h.row
      \/ \E op \in page.ops : op.lock = g.lock /\ op.lock \notin op.needs

\* No control stays disabled: a flag is set only while a call that clears it
\* is under way, except that of the PDF buttons, whose listing may throw.
LocksEnd ==
  open = "yes" => \A l \in Locks :
    \/ busy[l] = Idle
    \/ \E h \in Held(net) : h.lock = l /\ h.id = busy[l].id
    \/ \E op \in page.ops : op.lock = l /\ op.frees = "listed"

\* A form that clears its flag on failure only is not sent again once it
\* succeeded, while the next page is on its way.
SavedOnce ==
  \A m \in net :
    m.op.frees = "failure" /\ m.op.slot = "no" /\ left[m.op.lock] > 0 =>
      m.id <= left[m.op.lock]

\* The one-time secret on the screen is the one the server accepts, or is
\* about to be replaced, unless its key was revoked or its row deleted (the
\* cards leave the banner of a revoked key, a deleted endpoint and a revoked
\* invitation as it is), two calls set it at once, or a newer one was lost.
SecretCurrent ==
  Here /\ secret.row \in Rows \ (mixed \union server.ended) =>
    \/ server.key[secret.row] = secret.key
    \/ \E m \in net : m.op.secret /\ m.row = secret.row
=============================================================================
