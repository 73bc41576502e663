---------------------------- MODULE Screens_proofs ----------------------------
(***************************************************************************)
(* Theorems about Screens, for every set of screens that fits the          *)
(* assumption, any rows and filters, and any number of acts.               *)
(***************************************************************************)
EXTENDS Screens, TLAPS

(***************************************************************************)
(* The inductive invariant.                                                *)
(***************************************************************************)
\* The hold of an operation's own call.
OwnHold(m) ==
  IF m.op.lock = "none" THEN m.holds = {}
  ELSE \E h \in m.holds :
         /\ m.holds = {h}
         /\ h.lock = m.op.lock /\ h.slot = m.op.slot /\ h.frees = m.op.frees

\* The row of a call: that of a create comes with its answer.
RowFits(m) ==
  (m.op.kind = "create" /\ m.ok) \/ m.op.kind \notin Rowless => m.row \in Rows

\* What a call is, and what its holds are.
Fits(m) ==
  /\ m.id <= sent
  /\ m.ok => m.st = "answered"
  /\ IsList(m) => /\ ~m.op.secret /\ m.op.ends = "no" /\ m.op.frees # "failure"
                  /\ \A h \in m.holds : h.frees # "failure"
  /\ ~IsList(m) =>
       m.op \in page.ops /\ OwnHold(m) /\ RowFits(m)
  /\ \A h \in m.holds :
       /\ h.id \in 1..sent
       /\ h.slot = "no" => ~h.ousted
       /\ h.slot \in {"plain", "latest"} => h.row \in Rows
       /\ \E op \in page.ops : h.lock = op.lock /\ h.slot = op.slot /\ h.frees = op.frees

TypeInv == TypeOK /\ page \in Pages /\ \A m \in net : Fits(m)

\* Flags.
Querying == page.filter = "keyed" \/ \E op \in page.ops : Invalidates(op)
OneListing ==
  Querying => \A m, n \in net : IsList(m) /\ IsList(n) /\ m.param = n.param => m = n

Guarded(l) == \A op \in page.ops : op.lock = l => l \in op.needs
HoldsApart ==
  \A m, n \in net : \A g \in m.holds, h \in n.holds : g.id = h.id => m = n /\ g = h
FlagsHeld ==
  \A m \in net : \A h \in m.holds :
    ~h.ousted /\ Guarded(h.lock) => busy[h.lock] = [row |-> h.row, id |-> h.id]
FormsLeft ==
  \A l \in Locks : left[l] > 0 /\ (\A op \in page.ops : op.lock = l => op.slot = "no") =>
    /\ busy[l] # Idle
    /\ \A h \in Held(net) : h.lock # l
FlagInv == OneListing /\ HoldsApart /\ FlagsHeld /\ FormsLeft /\ LocksEnd

\* Secrets.
Existing == {r \in Rows : server.ver[r] > 0}
Secrets(r) == {m \in net : m.op.secret /\ m.row = r}
RowsExist ==
  /\ server.there \subseteq Existing
  /\ \A p \in Params : shown[p].there \subseteq Existing
  /\ \A m \in net : m.there \subseteq Existing
  /\ \A r \in Rows : Secrets(r) # {} \/ secret.row = r => r \in Existing
SecretInv ==
  /\ RowsExist
  /\ \A r \in Rows \ mixed :
       /\ \A m, n \in Secrets(r) : m = n
       /\ \A m \in Secrets(r) :
            m.ok => server.key[r] = m.key \/ r \in server.ended
       /\ Here /\ secret.row = r =>
            \/ server.key[r] = secret.key \/ r \in server.ended
            \/ \E m \in Secrets(r) : m.ok

\* Lists.  The server is ahead of what the screen was told of; what it is told
\* and no answer has passed is up to date, and so is what it shows, unless it
\* says so or another listing is on its way.
UpToDate(ver) == \A r \in Rows : ver[r] >= acked[r]
AheadInv ==
  /\ UpToDate(server.ver)
  /\ \A m \in net : m.ok /\ Changes(m) =>
       \A r \in Told(m) : m.ver[r] <= server.ver[r]
CopyInv ==
  /\ \A p \in Params : shown[p].valid => shown[p].known
  /\ page.filter = "keyed" => \A p \in Params : shown[p].guess = {}
Fresh(m) ==
  /\ m.ok /\ Changes(m) => \A r \in Told(m) : m.ver[r] >= acked[r]
  /\ m.ok /\ IsList(m) => UpToDate(m.ver)
  /\ m.op.kind = "more" => \A r \in m.there : m.ver[r] >= acked[r]
Coming(p) == \E n \in net : IsList(n) /\ Place(n.param) = p
Settled(p) ==
  \/ shown[p].failed \/ Coming(p)
  \/ shown[p].known /\ (shown[p].late \/ UpToDate(shown[p].ver))
InUse(p) == p = Place(param) \/ (page.filter = "keyed" /\ shown[p].valid)
Guessing(r) ==
  \E m \in net : ~IsList(m) /\ m.op.kind # "create" /\ m.op.early /\ m.row = r
GuessesOwned ==
  \/ Copy.failed \/ Coming(Place(param))
  \/ \A r \in Copy.guess : Guessing(r)
ShownInv ==
  open = "yes" /\ page.lists =>
    /\ \A m \in net : ~m.passed => Fresh(m)
    /\ \A p \in Params : InUse(p) => Settled(p)
    /\ GuessesOwned

\* Filters.
FixedInv ==
  page.filter = "fixed" =>
    /\ param = Blank.param
    /\ \A m \in net : m.param = param
    /\ \A p \in Params : shown[p].param = param
KeyedInv ==
  page.filter = "keyed" => \A p \in Params : shown[p].known => shown[p].param = p
FlagPageInv ==
  page.filter = "flag" =>
    /\ \A n \in net : IsList(n) => n.holds = {} /\ n.param = param
    /\ Copy.param = param \/ Copy.failed \/ \E n \in net : IsList(n)
FreeInv ==
  page.filter = "free" =>
    /\ \A n \in net : IsList(n) =>
         \/ n.param = param \/ n.passed
         \/ \E k \in Listings(param) : k.id > n.id
    /\ Copy.param = param \/ Copy.failed \/ Copy.late \/ Listings(param) # {}
FilterInv == Here => KeyedInv /\ FlagPageInv /\ FreeInv

(***************************************************************************)
(* Operations, screens, and calls that stay under way.                     *)
(***************************************************************************)
LEMMA ListOps ==
  ASSUME NEW kind \in {"list", "more"}
  PROVE  /\ Op(kind, "none") \in OpType /\ Op(kind, "none").kind = kind
         /\ ~Op(kind, "none").secret /\ Op(kind, "none").frees = "always"
         /\ Op(kind, "none").ends = "no"
BY DEF Op, OpType, Locks

LEMMA BlankIs ==
  /\ Blank.param \in Params
  /\ Blank \in CopyType
  /\ ~Blank.known /\ ~Blank.valid /\ ~Blank.failed /\ ~Blank.late
  /\ Blank.there = {} /\ Blank.guess = {}
<1>1. \E x \in Params : TRUE
  BY ScreensAssumption
<1>2. (CHOOSE p \in Params : TRUE) \in Params
  BY <1>1
<1>. QED
  BY <1>2 DEF Blank, CopyType, Zero

LEMMA PageFits ==
  ASSUME page \in Pages
  PROVE  /\ page \in PageType /\ page.ops \subseteq OpType
         /\ FlagsFit(page) /\ ListFits(page) /\ CacheFits(page)
BY ScreensAssumption DEF PageType

\* What is left of a hold, and of a call, when m is answered and the flags
\* `locks` are cleared.
Mark(h, locks, rows) ==
  [h EXCEPT !.ousted =
     @ \/ (h.slot # "no" /\ h.lock \in locks /\ h.row \in rows)]
Marked(k, locks, rows) ==
  [k EXCEPT !.holds = {Mark(h, locks, rows) : h \in @}]
Later(k, m, locks) ==
  [Marked(k, locks, AnyRow) EXCEPT !.passed =
     k.passed \/ IF IsList(k) THEN ~IsList(m) \/ k.id < m.id
                 ELSE ~IsList(m) /\ Meet(k, m)]

LEMMA MarkFields ==
  ASSUME NEW h \in HoldType, NEW locks, NEW rows
  PROVE  /\ Mark(h, locks, rows) \in HoldType
         /\ Mark(h, locks, rows).lock = h.lock /\ Mark(h, locks, rows).id = h.id
         /\ Mark(h, locks, rows).row = h.row /\ Mark(h, locks, rows).slot = h.slot
         /\ Mark(h, locks, rows).frees = h.frees
         /\ Mark(h, locks, rows).ousted =
              (h.ousted \/ (h.slot # "no" /\ h.lock \in locks /\ h.row \in rows))
         /\ h.lock \notin locks => Mark(h, locks, rows) = h
<1>. DEFINE b == h.ousted \/ (h.slot # "no" /\ h.lock \in locks /\ h.row \in rows)
<1>1. b \in BOOLEAN
  BY DEF HoldType
<1>2. Mark(h, locks, rows) = [h EXCEPT !.ousted = b]
  BY DEF Mark
<1>3. h.lock \notin locks => b = h.ousted
  BY DEF HoldType
<1>. HIDE DEF b
<1>4. b = h.ousted => [h EXCEPT !.ousted = b] = h
  BY DEF HoldType
<1>5. [h EXCEPT !.ousted = b] \in HoldType /\ [h EXCEPT !.ousted = b].ousted = b
  BY <1>1 DEF HoldType
<1>. QED
  BY <1>2, <1>3, <1>4, <1>5 DEF HoldType, b

LEMMA MarkedFields ==
  ASSUME NEW k \in CallType, NEW locks, NEW rows, NEW n,
         n = Marked(k, locks, rows)
  PROVE  /\ n \in CallType
         /\ n.id = k.id /\ n.op = k.op /\ n.row = k.row /\ n.param = k.param
         /\ n.st = k.st /\ n.ok = k.ok /\ n.key = k.key /\ n.ver = k.ver
         /\ n.there = k.there /\ n.passed = k.passed
         /\ n.holds = {Mark(h, locks, rows) : h \in k.holds}
<1>. DEFINE s == {Mark(h, locks, rows) : h \in k.holds}
<1>1. s \subseteq HoldType
  BY MarkFields DEF CallType
<1>2. n = [k EXCEPT !.holds = s]
  BY DEF Marked
<1>. HIDE DEF s
<1>3. n \in CallType /\ n.holds = s
  BY <1>1, <1>2 DEF CallType
<1>4. /\ n.id = k.id /\ n.op = k.op /\ n.row = k.row /\ n.param = k.param
      /\ n.st = k.st /\ n.ok = k.ok /\ n.key = k.key /\ n.ver = k.ver
      /\ n.there = k.there /\ n.passed = k.passed
  BY <1>2 DEF CallType
<1>. QED
  BY <1>3, <1>4 DEF s

LEMMA LaterFields ==
  ASSUME NEW k \in CallType, NEW m, NEW locks, NEW n, n = Later(k, m, locks)
  PROVE  /\ n \in CallType
         /\ n.id = k.id /\ n.op = k.op /\ n.row = k.row /\ n.param = k.param
         /\ n.st = k.st /\ n.ok = k.ok /\ n.key = k.key /\ n.ver = k.ver
         /\ n.there = k.there
         /\ n.holds = {Mark(h, locks, AnyRow) : h \in k.holds}
         /\ k.passed => n.passed
         /\ IsList(k) /\ (~IsList(m) \/ k.id < m.id) => n.passed
         /\ ~IsList(k) /\ ~IsList(m) /\ Meet(k, m) => n.passed
         /\ ~IsList(k) /\ IsList(m) => n.passed = k.passed
<1>. DEFINE x == Marked(k, locks, AnyRow)
            b == k.passed \/ IF IsList(k) THEN ~IsList(m) \/ k.id < m.id
                             ELSE ~IsList(m) /\ Meet(k, m)
<1>1. /\ x \in CallType
      /\ x.id = k.id /\ x.op = k.op /\ x.row = k.row /\ x.param = k.param
      /\ x.st = k.st /\ x.ok = k.ok /\ x.key = k.key /\ x.ver = k.ver
      /\ x.there = k.there /\ x.passed = k.passed
      /\ x.holds = {Mark(h, locks, AnyRow) : h \in k.holds}
  BY MarkedFields
<1>2. b \in BOOLEAN /\ k.passed \in BOOLEAN
  BY DEF CallType, IsList, Meet
<1>3. n = [x EXCEPT !.passed = b]
  BY DEF Later
<1>. HIDE DEF x
<1>4. /\ k.passed => b
      /\ IsList(k) /\ (~IsList(m) \/ k.id < m.id) => b
      /\ ~IsList(k) /\ ~IsList(m) /\ Meet(k, m) => b
      /\ ~IsList(k) /\ IsList(m) => b = k.passed
  BY <1>2
<1>. HIDE DEF b
<1>5. n \in CallType /\ n.passed = b
  BY <1>1, <1>2, <1>3 DEF CallType
<1>6. /\ n.id = x.id /\ n.op = x.op /\ n.row = x.row /\ n.param = x.param
      /\ n.st = x.st /\ n.ok = x.ok /\ n.key = x.key /\ n.ver = x.ver
      /\ n.there = x.there /\ n.holds = x.holds
  BY <1>1, <1>3 DEF CallType
<1>. QED
  BY <1>1, <1>4, <1>5, <1>6

LEMMA AfterIsLater ==
  ASSUME net \subseteq CallType, NEW m, NEW locks
  PROVE  After(m, locks) = {Later(k, m, locks) : k \in net \ {m}}
<1>. DEFINE O == Oust(net \ {m}, locks, AnyRow)
            P(n) == [n EXCEPT !.passed =
                       @ \/ IF IsList(n) THEN ~IsList(m) \/ n.id < m.id
                            ELSE ~IsList(m) /\ Meet(n, m)]
<1>1. O = {Marked(k, locks, AnyRow) : k \in net \ {m}}
  BY DEF Oust, Marked, Mark
<1>2. After(m, locks) = {P(n) : n \in O}
  BY DEF After, Passed
<1>3. ASSUME NEW k \in net \ {m} PROVE P(Marked(k, locks, AnyRow)) = Later(k, m, locks)
  <2>. DEFINE x == Marked(k, locks, AnyRow)
  <2>1. k \in CallType
    OBVIOUS
  <2>2. x.id = k.id /\ x.op = k.op /\ x.row = k.row /\ x.passed = k.passed
    BY <2>1, MarkedFields
  <2>. QED
    BY <2>2 DEF Later, IsList, Meet
<1>. HIDE DEF P, O
<1>4. {P(n) : n \in O} = {P(Marked(k, locks, AnyRow)) : k \in net \ {m}}
  BY <1>1
<1>5. {P(Marked(k, locks, AnyRow)) : k \in net \ {m}}
        = {Later(k, m, locks) : k \in net \ {m}}
  BY <1>3
<1>. QED
  BY <1>2, <1>4, <1>5

LEMMA PlainList ==
  ASSUME sent \in Nat, NEW p \in Params
  PROVE  /\ List(p) \in CallType /\ IsList(List(p)) /\ List(p).op = Op("list", "none")
         /\ List(p).op.kind = "list" /\ ~List(p).op.secret /\ List(p).op.ends = "no"
         /\ List(p).op.frees = "always"
         /\ List(p).id = sent + 1 /\ List(p).row = Nobody
         /\ List(p).param = p /\ List(p).st = "sent" /\ ~List(p).ok
         /\ List(p).there = {} /\ List(p).holds = {} /\ List(p).passed = FALSE
<1>. DEFINE o == Op("list", "none")
<1>1. Zero \in [Rows -> Nat]
  BY DEF Zero
<1>2. o \in OpType /\ ~o.secret /\ o.ends = "no" /\ o.frees = "always"
  BY ListOps
<1>3. o.kind = "list"
  BY DEF Op
<1>4. List(p) = [id |-> sent + 1, op |-> o, row |-> Nobody, param |-> p, holds |-> {},
                 st |-> "sent", ok |-> FALSE, key |-> 0, ver |-> Zero, there |-> {},
                 passed |-> FALSE]
  BY DEF List, Call
<1>. HIDE DEF o
<1>5. List(p) \in CallType
  BY <1>1, <1>2, <1>4 DEF CallType
<1>6. /\ List(p).op = o /\ List(p).id = sent + 1 /\ List(p).row = Nobody
      /\ List(p).param = p /\ List(p).st = "sent" /\ ~List(p).ok
      /\ List(p).there = {} /\ List(p).holds = {} /\ List(p).passed = FALSE
  BY <1>4
<1>. QED
  BY <1>2, <1>3, <1>5, <1>6 DEF IsList, o

Listing(p, hs) == [List(p) EXCEPT !.holds = hs, !.passed = p # param]

LEMMA NewList ==
  ASSUME sent \in Nat, NEW p \in Params, NEW hs, hs \subseteq HoldType,
         NEW n, n = Listing(p, hs)
  PROVE  /\ n \in CallType /\ IsList(n) /\ n.op = Op("list", "none")
         /\ n.op.kind = "list" /\ ~n.op.secret /\ n.op.ends = "no" /\ n.op.frees = "always"
         /\ n.id = sent + 1 /\ n.row = Nobody
         /\ n.param = p /\ n.st = "sent" /\ ~n.ok /\ n.there = {}
         /\ n.holds = hs /\ n.passed = (p # param)
<1>. DEFINE x == List(p)
            b == p # param
<1>1. /\ x \in CallType /\ IsList(x) /\ x.op = Op("list", "none")
      /\ x.op.kind = "list" /\ ~x.op.secret /\ x.op.ends = "no" /\ x.op.frees = "always"
      /\ x.id = sent + 1 /\ x.row = Nobody
      /\ x.param = p /\ x.st = "sent" /\ ~x.ok /\ x.there = {}
  BY PlainList
<1>2. n = [x EXCEPT !.holds = hs, !.passed = b]
  BY DEF Listing
<1>2b. b \in BOOLEAN
  OBVIOUS
<1>. HIDE DEF x, b
<1>3. /\ n \in CallType /\ n.op = x.op /\ n.id = x.id /\ n.row = x.row
      /\ n.param = x.param /\ n.st = x.st /\ n.ok = x.ok /\ n.there = x.there
      /\ n.holds = hs /\ n.passed = b
  BY <1>1, <1>2, <1>2b DEF CallType
<1>. QED
  BY <1>1, <1>3 DEF IsList, b

(***************************************************************************)
(* Whatever the answer, the handler of m clears some flags, drops some     *)
(* calls, and sends one listing that takes over their holds, or none.      *)
(***************************************************************************)
Relists(m) ==
  /\ ~IsList(m)
  /\ IF m.ok THEN m.op.after \in {"reload", "await", "refresh", "invalidate"}
     ELSE m.op.error # "say"
HeardAs(m, locks, gone, add) ==
  /\ gone \subseteq net /\ m \in gone
  /\ \A k \in gone \ {m} : IsList(k) /\ k.param = param
  /\ net' = {Later(k, m, locks) : k \in net \ gone} \union add
  /\ busy' = [l \in Locks |-> IF l \in locks THEN Idle ELSE busy[l]]
  /\ locks \subseteq Cleared(m)
  /\ add = {} => gone = {m} /\ locks = Cleared(m) /\ ~Relists(m)
  /\ ~Querying => gone = {m}
  /\ sent' \in {sent, sent + 1}
  /\ \A n \in add :
       /\ add = {n} /\ n \in CallType /\ IsList(n)
       /\ ~n.op.secret /\ n.op.ends = "no" /\ n.op.frees # "failure"
       /\ n.id <= sent' /\ (n.ok => n.st = "answered")
       /\ n.there = {} \/ \E k \in net : n.there = k.there
       /\ n.holds = {h \in Held(gone) : h.lock \notin locks}
       /\ \A h \in n.holds : h.frees # "failure"
       /\ page.filter # "flag" /\ n.param \in {param, m.param}
       /\ n.passed \/ (n.op.kind = "list" /\ ~n.ok /\ n.param = param)
       /\ Querying => /\ n.param = param
                      /\ \A k \in net \ gone : ~(IsList(k) /\ k.param = param)

LEMMA AgainHeard ==
  ASSUME TypeInv, NEW m \in net, NEW locks \in SUBSET Cleared(m), Again(m, locks),
         ~Querying, page.filter # "flag", \A h \in m.holds : h.frees # "failure",
         busy' = [l \in Locks |-> IF l \in locks THEN Idle ELSE busy[l]]
  PROVE  \E add : HeardAs(m, locks, {m}, add)
<1>. DEFINE hs == {h \in m.holds : h.lock \notin locks}
            n == Listing(m.param, hs)
<1>1. m \in CallType /\ sent \in Nat /\ net \subseteq CallType
  BY DEF TypeInv, TypeOK
<1>2. /\ hs \subseteq HoldType /\ m.param \in Params
      /\ \A h \in hs : h.frees # "failure"
  BY <1>1 DEF CallType
<1>. HIDE DEF hs
<1>4. /\ n \in CallType /\ IsList(n) /\ ~n.op.secret /\ n.op.ends = "no" /\ n.op.frees = "always"
      /\ n.id = sent + 1 /\ ~n.ok /\ n.there = {} /\ n.holds = hs
      /\ n.op.kind = "list" /\ n.param = m.param /\ n.passed = (m.param # param)
  <2>1. n = Listing(m.param, hs)
    OBVIOUS
  <2>. HIDE DEF n
  <2>. QED
    BY <1>1, <1>2, <2>1, NewList
<1>. HIDE DEF n
<1>5. After(m, locks) = {Later(k, m, locks) : k \in net \ {m}}
  BY <1>1, AfterIsLater
<1>6. net' = After(m, locks) \union {n}
  BY Zenon DEF Again, Listing, hs, n
<1>7. sent' = sent + 1
  BY Zenon DEF Again
<1>8. n.holds = {h \in Held({m}) : h.lock \notin locks}
  <2>1. Held({m}) = m.holds
    BY DEF Held
  <2>2. hs = {h \in Held({m}) : h.lock \notin locks}
    BY <2>1 DEF hs
  <2>. QED
    BY <2>2, <1>4
<1>9. net' = {Later(k, m, locks) : k \in net \ {m}} \union {n}
  BY <1>5, <1>6, Zenon
<1>10. n.id <= sent' /\ sent' \in {sent, sent + 1}
  BY <1>1, <1>4, <1>7
<1>11. HeardAs(m, locks, {m}, {n})
  BY <1>2, <1>4, <1>8, <1>9, <1>10 DEF HeardAs
<1>. QED
  BY <1>11

LEMMA InvalidateHeard ==
  ASSUME TypeInv, OneListing, Querying, NEW m \in net, ~IsList(m),
         NEW locks \in SUBSET Cleared(m), Invalidate(m, locks),
         \A h \in m.holds : h.frees # "failure",
         busy' = [l \in Locks |-> IF l \in locks THEN Idle ELSE busy[l]]
  PROVE  \E gone, add : HeardAs(m, locks, gone, add)
<1>. DEFINE olds == Listings(param)
            gone == {m} \union olds
            old == {n \in After(m, locks) : IsList(n) /\ n.param = param}
            rest == After(m, locks) \ old
            held == {h \in m.holds \union Held(old) : h.lock \notin locks}
<1>1. m \in CallType /\ sent \in Nat /\ net \subseteq CallType /\ param \in Params
  BY DEF TypeInv, TypeOK
<1>2. gone \subseteq net /\ m \in gone
      /\ \A k \in gone \ {m} : IsList(k) /\ k.param = param
  BY DEF Listings
<1>13. page.filter # "flag"
  BY PageFits DEF TypeInv, Querying, CacheFits
<1>3. After(m, locks) = {Later(k, m, locks) : k \in net \ {m}}
  BY <1>1, AfterIsLater
<1>4. \A k \in net \ {m} : /\ IsList(Later(k, m, locks)) <=> IsList(k)
                           /\ Later(k, m, locks).param = k.param
                           /\ {h \in Later(k, m, locks).holds : h.lock \notin locks}
                                = {h \in k.holds : h.lock \notin locks}
                           /\ Later(k, m, locks) \in CallType
                           /\ Later(k, m, locks).there = k.there
                           /\ Later(k, m, locks).op = k.op
                           /\ Later(k, m, locks).id = k.id
                           /\ Later(k, m, locks).ok = k.ok
                           /\ Later(k, m, locks).st = k.st
                           /\ IsList(k) => Later(k, m, locks).passed
  <2>. SUFFICES ASSUME NEW k \in net \ {m}, NEW n, n = Later(k, m, locks)
                PROVE  /\ IsList(n) <=> IsList(k)
                       /\ n.param = k.param
                       /\ {h \in n.holds : h.lock \notin locks}
                            = {h \in k.holds : h.lock \notin locks}
                       /\ n \in CallType /\ n.there = k.there /\ n.op = k.op
                       /\ n.id = k.id /\ n.ok = k.ok /\ n.st = k.st
                       /\ IsList(k) => n.passed
    BY ZenonT(40)
  <2>1. k \in CallType
    BY <1>1
  <2>2. /\ n \in CallType /\ n.op = k.op /\ n.param = k.param /\ n.there = k.there
        /\ n.id = k.id /\ n.ok = k.ok /\ n.st = k.st
        /\ n.holds = {Mark(h, locks, AnyRow) : h \in k.holds}
        /\ IsList(k) => n.passed
    BY <2>1, LaterFields
  <2>3. \A h \in k.holds : /\ Mark(h, locks, AnyRow).lock = h.lock
                           /\ h.lock \notin locks => Mark(h, locks, AnyRow) = h
    BY <2>1, MarkFields DEF CallType
  <2>4. {h \in n.holds : h.lock \notin locks} = {h \in k.holds : h.lock \notin locks}
    BY <2>2, <2>3
  <2>. QED
    BY <2>2, <2>4 DEF IsList
<1>5. old = {Later(k, m, locks) : k \in olds}
  <2>1. \A k \in net \ {m} : Later(k, m, locks) \in old <=> k \in olds
    BY <1>3, <1>4 DEF Listings
  <2>2. olds \subseteq net \ {m}
    BY DEF Listings
  <2>. QED
    BY <1>3, <2>1, <2>2
<1>6. rest = {Later(k, m, locks) : k \in net \ gone}
  <2>1. \A k \in net \ {m} : Later(k, m, locks) \in old <=> k \in olds
    BY <1>3, <1>4 DEF Listings
  <2>. QED
    BY <1>3, <2>1
<1>7. held = {h \in Held(gone) : h.lock \notin locks}
  <2>1. \A k \in olds : k \in net \ {m}
    BY DEF Listings
  <2>2. {h \in Held(old) : h.lock \notin locks}
          = {h \in Held(olds) : h.lock \notin locks}
    BY <1>4, <1>5, <2>1 DEF Held
  <2>3. Held(gone) = m.holds \union Held(olds)
    BY DEF Held
  <2>. QED
    BY <2>2, <2>3
<1>8. held \subseteq HoldType /\ \A h \in held : h.frees # "failure"
  <2>1. \A k \in olds : k \in net /\ k.holds \subseteq HoldType
                        /\ \A h \in k.holds : h.frees # "failure"
    BY <1>1 DEF Listings, TypeInv, Fits, CallType
  <2>2. m.holds \subseteq HoldType
    BY <1>1 DEF CallType
  <2>. QED
    BY <2>1, <2>2, <1>7 DEF Held
<1>9. \A k \in net \ gone : ~(IsList(k) /\ k.param = param)
  BY DEF Listings
<1>10. held = {h \in Held(gone) : h.lock \notin locks}
  BY <1>7
<1>11. CASE ~Copy.known /\ old # {}
  <2>1. /\ net' = rest \union {[n EXCEPT !.holds = held] : n \in old}
        /\ sent' = sent
    BY <1>11, Zenon DEF Invalidate
  <2>2. PICK k \in olds : TRUE
    BY <1>5, <1>11
  <2>3. olds = {k}
    BY <2>2 DEF OneListing, Listings
  <2>4. PICK o : o = Later(k, m, locks)
    OBVIOUS
  <2>5. old = {o}
    BY <2>3, <2>4, <1>5
  <2>6. PICK n : n = [o EXCEPT !.holds = held]
    OBVIOUS
  <2>7. net' = rest \union {n}
    <3>. HIDE DEF rest, held, old
    <3>. QED
      BY <2>1, <2>5, <2>6
  <2>8. k \in net \ {m} /\ IsList(k) /\ k.param = param
    BY <2>2 DEF Listings
  <2>9. /\ o \in CallType /\ IsList(o) /\ o.param = param /\ o.there = k.there
        /\ o.op = k.op /\ o.id = k.id /\ o.ok = k.ok /\ o.st = k.st /\ o.passed
    BY <2>4, <2>8, <1>4
  <2>10. Fits(k)
    BY <2>8 DEF TypeInv
  <2>. HIDE DEF rest, held, old, gone
  <2>11. /\ n \in CallType /\ n.holds = held /\ n.op = o.op /\ n.param = o.param
         /\ n.there = o.there /\ n.id = o.id /\ n.ok = o.ok /\ n.st = o.st
         /\ n.passed = o.passed
    BY <2>6, <2>9, <1>8 DEF CallType
  <2>12. /\ IsList(n) /\ ~n.op.secret /\ n.op.ends = "no" /\ n.op.frees # "failure" /\ n.id <= sent
         /\ n.ok => n.st = "answered"
    BY <2>8, <2>9, <2>10, <2>11 DEF Fits, IsList
  <2>13. HeardAs(m, locks, gone, {n})
    BY <1>2, <1>6, <1>8, <1>9, <1>10, <1>13, <2>1, <2>7, <2>8, <2>9, <2>11, <2>12 DEF HeardAs
  <2>. QED
    BY <2>13
<1>12. CASE ~(~Copy.known /\ old # {})
  <2>1. /\ net' = rest \union {[List(param) EXCEPT !.holds = held]}
        /\ sent' = sent + 1
    BY <1>12, Zenon DEF Invalidate
  <2>2. PICK n : n = Listing(param, held)
    OBVIOUS
  <2>. HIDE DEF rest, held, old, gone
  <2>3. /\ n \in CallType /\ IsList(n) /\ ~n.op.secret /\ n.op.ends = "no" /\ n.op.frees = "always"
        /\ n.id = sent + 1 /\ ~n.ok /\ n.there = {} /\ n.holds = held
        /\ n.param = param /\ n.op.kind = "list"
    BY <1>1, <1>8, <2>2, NewList
  <2>4. n = [List(param) EXCEPT !.holds = held]
    <3>1. List(param) \in CallType /\ List(param).passed = FALSE
      BY <1>1, PlainList
    <3>2. (param # param) = FALSE
      OBVIOUS
    <3>3. n = [List(param) EXCEPT !.holds = held, !.passed = FALSE]
      BY <2>2, <3>2, Zenon DEF Listing
    <3>. QED
      BY <3>1, <3>3 DEF CallType
  <2>5. net' = rest \union {n}
    BY <2>1, <2>4
  <2>6. n.id <= sent' /\ sent' \in {sent, sent + 1}
    BY <1>1, <2>1, <2>3
  <2>7. HeardAs(m, locks, gone, {n})
    BY <1>2, <1>6, <1>8, <1>9, <1>10, <1>13, <2>3, <2>5, <2>6 DEF HeardAs
  <2>. QED
    BY <2>7
<1>. QED
  BY <1>11, <1>12

LEMMA FormsSay ==
  ASSUME TypeInv, NEW m \in net, ~IsList(m), NEW h \in m.holds, h.frees = "failure"
  PROVE  m.op.frees = "failure" /\ m.op.after = "leave" /\ m.op.error = "say"
<1>1. m.op \in page.ops /\ OwnHold(m)
  BY DEF TypeInv, Fits
<1>2. m.op.frees = "failure"
  BY <1>1 DEF OwnHold
<1>. QED
  BY <1>1, <1>2, PageFits DEF TypeInv, FlagsFit

LEMMA AnswerHeard ==
  ASSUME TypeInv, OneListing, NEW m \in net, Hear(m)
  PROVE  \E locks, gone, add : HeardAs(m, locks, gone, add)
<1>1. net \subseteq CallType /\ sent \in Nat
      /\ busy \in [Locks -> [row : Rows \union {Nobody}, id : Nat]]
  BY DEF TypeInv, TypeOK
<1>2. FlagsFit(page) /\ CacheFits(page)
  BY PageFits DEF TypeInv
<1>3. ASSUME NEW locks, locks = Cleared(m), net' = After(m, locks), Clear(locks),
             sent' = sent, ~Relists(m)
      PROVE  HeardAs(m, locks, {m}, {})
  <2>1. net' = {Later(k, m, locks) : k \in net \ {m}}
    BY <1>1, <1>3, AfterIsLater
  <2>. QED
    BY <1>3, <2>1 DEF HeardAs, Clear
<1>4. CASE Listed(m)
  <2>1. /\ net' = After(m, Cleared(m)) /\ Clear(Cleared(m)) /\ sent' = sent
        /\ IsList(m)
    BY <1>4, Zenon DEF Listed
  <2>. QED
    BY <1>3, <2>1 DEF Relists
<1>5. CASE Done(m)
  <2>. DEFINE locks == IF m.op.after \in {"await", "invalidate"} THEN {} ELSE Cleared(m)
  <2>1. /\ ~IsList(m) /\ m.ok /\ Clear(locks)
        /\ CASE m.op.after \in {"reload", "await"} -> Again(m, locks)
             [] m.op.after \in {"refresh", "invalidate"} -> Invalidate(m, locks)
             [] OTHER -> net' = After(m, locks) /\ UNCHANGED sent
    BY <1>5, Zenon DEF Done
  <2>2. m.op \in page.ops
    BY <2>1 DEF TypeInv, Fits
  <2>3. CASE m.op.after \in {"reload", "await"}
    <3>1. Again(m, locks)
      BY <2>1, <2>3
    <3>2. ~Querying /\ page.filter # "flag"
      BY <1>2, <2>2, <2>3 DEF Querying, CacheFits, Lists
    <3>3. locks \in SUBSET Cleared(m)
      OBVIOUS
    <3>4. busy' = [l \in Locks |-> IF l \in locks THEN Idle ELSE busy[l]]
      BY <2>1, Zenon DEF Clear
    <3>5. \A h \in m.holds : h.frees # "failure"
      BY <2>1, <2>3, FormsSay
    <3>. HIDE DEF locks
    <3>. QED
      BY <3>1, <3>2, <3>3, <3>4, <3>5, AgainHeard
  <2>4. CASE m.op.after \in {"refresh", "invalidate"}
    <3>1. Invalidate(m, locks) /\ locks \in SUBSET Cleared(m)
      BY <2>1, <2>4
    <3>2. Querying
      BY <2>2, <2>4 DEF Querying, Invalidates
    <3>3. busy' = [l \in Locks |-> IF l \in locks THEN Idle ELSE busy[l]]
      BY <2>1, Zenon DEF Clear
    <3>4. \A h \in m.holds : h.frees # "failure"
      BY <2>1, <2>4, FormsSay
    <3>. HIDE DEF locks
    <3>. QED
      BY <2>1, <3>1, <3>2, <3>3, <3>4, InvalidateHeard
  <2>5. CASE m.op.after \notin {"reload", "await", "refresh", "invalidate"}
    <3>1. net' = After(m, locks) /\ sent' = sent /\ locks = Cleared(m)
      BY <2>1, <2>5
    <3>2. ~Relists(m)
      BY <2>1, <2>5 DEF Relists
    <3>. QED
      BY <1>3, <2>1, <3>1, <3>2
  <2>. QED
    BY <2>3, <2>4, <2>5
<1>6. CASE Failed(m)
  <2>1. ~IsList(m) /\ ~m.ok
    BY <1>6, Zenon DEF Failed
  <2>2. m.op \in page.ops
    BY <2>1 DEF TypeInv, Fits
  <2>3. UNCHANGED busy => busy' = [l \in Locks |-> IF l \in {} THEN Idle ELSE busy[l]]
    BY <1>1
  <2>4. CASE m.op.error = "reload" /\ Again(m, {}) /\ UNCHANGED busy
    <3>1. ~Querying /\ page.filter # "flag"
      BY <1>2, <2>2, <2>4 DEF Querying, CacheFits, Lists
    <3>2. \A h \in m.holds : h.frees # "failure"
      BY <2>1, <2>4, FormsSay
    <3>. QED
      BY <2>3, <2>4, <3>1, <3>2, AgainHeard
  <2>5. CASE m.op.error = "invalidate" /\ Invalidate(m, {}) /\ UNCHANGED busy
    <3>1. Querying
      BY <2>2, <2>5 DEF Querying, Invalidates
    <3>2. \A h \in m.holds : h.frees # "failure"
      BY <2>1, <2>5, FormsSay
    <3>. QED
      BY <2>1, <2>3, <2>5, <3>1, <3>2, InvalidateHeard
  <2>6. CASE /\ net' = After(m, Cleared(m)) /\ Clear(Cleared(m)) /\ UNCHANGED sent
             /\ m.op.error = "say"
    BY <1>3, <2>1, <2>6 DEF Relists
  <2>. QED
    BY <1>6, <2>4, <2>5, <2>6, Zenon DEF Failed
<1>7. CASE LookAgain(m)
  <2>1. /\ IsList(m) /\ Again(m, {}) /\ UNCHANGED busy
        /\ \E op \in page.ops : op.frees = "listed"
    BY <1>7, Zenon DEF LookAgain
  <2>2. ~Querying /\ page.filter # "flag"
    BY <1>2, <2>1 DEF FlagsFit, Querying, CacheFits, Lists
  <2>3. \A h \in m.holds : h.frees # "failure"
    BY <2>1 DEF TypeInv, Fits
  <2>4. busy' = [l \in Locks |-> IF l \in {} THEN Idle ELSE busy[l]]
    BY <1>1, <2>1
  <2>. QED
    BY <2>1, <2>2, <2>3, <2>4, AgainHeard
<1>. QED
  BY <1>4, <1>5, <1>6, <1>7 DEF Hear

(***************************************************************************)
(* Every other step but Start replaces some calls by one that takes over   *)
(* their holds, or leaves the calls alone, or ends them all.               *)
(***************************************************************************)
SwapAs(gone, n) ==
  /\ gone \subseteq net /\ net' = (net \ gone) \union {n}
  /\ sent' \in {sent, sent + 1}
  /\ n \in CallType /\ n.holds = Held(gone) /\ n.id <= sent'
  /\ n.ok => n.st = "answered"
  /\ IsList(n) => /\ ~n.op.secret /\ n.op.ends = "no" /\ n.op.frees # "failure"
                  /\ \A h \in n.holds : h.frees # "failure"
  /\ ~IsList(n) => n.op \in page.ops /\ OwnHold(n) /\ RowFits(n)
  /\ Querying /\ IsList(n) =>
       \A k \in net \ gone : ~(IsList(k) /\ k.param = n.param)

Served(m, r, key, ver, there) ==
  [Answer(m, TRUE) EXCEPT !.row = r, !.key = key, !.ver = ver, !.there = there]

LEMMA RefusedFields ==
  ASSUME NEW m \in CallType, NEW n, n = Answer(m, FALSE)
  PROVE  /\ n \in CallType /\ n.st = "answered" /\ ~n.ok
         /\ n.id = m.id /\ n.op = m.op /\ n.row = m.row /\ n.param = m.param
         /\ n.holds = m.holds /\ n.key = m.key /\ n.ver = m.ver /\ n.there = m.there
         /\ n.passed = m.passed
BY DEF Answer, CallType

\* What Serve(m) does: n is the answered call, about row r.
Whole(m) == m.op.kind \in {"list", "all"}
ServedAs(m, n, r) ==
  /\ m.st = "sent" /\ r \in AnyRow
  /\ m.op.kind = "create" => r \in Rows /\ server.ver[r] = 0
  /\ m.op.kind # "create" => r = m.row
  /\ m.op.kind \in {"change", "remove"} => r \in server.there
  /\ Changes(m) /\ m.op.kind # "all" => r \in Rows
  /\ m.op.secret \/ m.op.ends # "no" => r \in Rows
  /\ net' = (net \ {m}) \union {n}
  /\ n \in CallType /\ n.st = "answered" /\ n.ok
  /\ n.id = m.id /\ n.op = m.op /\ n.row = r /\ n.param = m.param
  /\ n.holds = m.holds /\ n.passed = m.passed
  /\ n.key = IF m.op.secret THEN server'.key[r] ELSE 0
  /\ server' \in [ver : [Rows -> Nat], there : SUBSET Rows, key : [Rows -> Nat],
                  ended : SUBSET Rows]
  /\ server'.ver = [x \in Rows |-> IF x \in Changed(m, r) THEN server.ver[x] + 1
                                    ELSE server.ver[x]]
  /\ server'.key = IF m.op.secret \/ m.op.ends # "no"
                     THEN [server.key EXCEPT ![r] = @ + 1] ELSE server.key
  /\ server'.ended = Ended(m, r)
  /\ server'.there = CASE m.op.kind = "create" -> server.there \union {r}
                       [] m.op.kind = "remove" -> server.there \ {r}
                       [] OTHER -> server.there
  /\ Whole(m) => n.ver = server'.ver /\ n.there = server'.there
  /\ m.op.kind = "more" =>
       /\ n.ver = [q \in Rows |-> IF q \in m.there THEN m.ver[q] ELSE server.ver[q]]
       /\ n.there = m.there \union server.there
  /\ ~Whole(m) /\ m.op.kind # "more" =>
       /\ n.ver = [x \in Rows |-> IF x = r THEN server'.ver[x] ELSE 0]
       /\ n.there = {r} \intersect server'.there
  /\ UNCHANGED <<page, open, param, shown, busy, secret, acts, sent, acked, mixed, left>>

LEMMA ServeFacts ==
  ASSUME TypeInv, NEW m \in net, Serve(m)
  PROVE  \E n, r : ServedAs(m, n, r)
<1>1. /\ m \in CallType /\ Fits(m)
      /\ server \in [ver : [Rows -> Nat], there : SUBSET Rows, key : [Rows -> Nat],
                     ended : SUBSET Rows]
  BY DEF TypeInv, TypeOK
<1>. DEFINE ver(r) == [x \in Rows |-> IF x \in Changed(m, r)
                                       THEN server.ver[x] + 1 ELSE server.ver[x]]
            there(r) == CASE m.op.kind = "create" -> server.there \union {r}
                          [] m.op.kind = "remove" -> server.there \ {r}
                          [] OTHER -> server.there
            key(r) == IF m.op.secret \/ m.op.ends # "no"
                        THEN [server.key EXCEPT ![r] = @ + 1] ELSE server.key
            seen(r) == CASE m.op.kind \in {"list", "all"} ->
                              [ver |-> ver(r), there |-> there(r)]
                         [] m.op.kind = "more" -> NextPage(m)
                         [] OTHER -> [ver |-> [x \in Rows |-> IF x = r THEN ver(r)[x] ELSE 0],
                                      there |-> {r} \intersect there(r)]
            ans(r) == [Answer(m, TRUE) EXCEPT !.row = r,
                         !.key = IF m.op.secret THEN key(r)[r] ELSE 0,
                         !.ver = seen(r).ver, !.there = seen(r).there]
<1>2. PICK r \in AnyRow :
        /\ IF m.op.kind = "create" THEN r \in Rows /\ server.ver[r] = 0
           ELSE r = m.row
        /\ m.op.kind \in {"change", "remove"} => r \in server.there
        /\ server' = [ver |-> ver(r), there |-> there(r), key |-> key(r),
                      ended |-> Ended(m, r)]
        /\ Becomes(m, ans(r))
  BY Zenon DEF Serve
<1>3. /\ m.st = "sent"
      /\ UNCHANGED <<page, open, param, shown, busy, secret, acts, sent, acked,
                     mixed, left>>
  BY Zenon DEF Serve
<1>4. /\ m.op.kind = "create" => r \in Rows /\ server.ver[r] = 0
      /\ m.op.kind # "create" => r = m.row
      /\ Changes(m) /\ m.op.kind # "all" => r \in Rows
      /\ m.op.secret \/ m.op.ends # "no" => r \in Rows
  <2>1. ~IsList(m) => /\ m.op \in page.ops /\ RowFits(m) /\ m.op \in OpType
                      /\ m.op.secret => m.op.kind \notin {"all", "order"}
                      /\ m.op.ends # "no" => m.op.kind \in {"change", "remove"}
    <3>1. ~IsList(m) => m.op \in page.ops /\ RowFits(m)
      BY <1>1 DEF Fits
    <3>. QED
      BY <1>1, <3>1, PageFits DEF TypeInv, ListFits
  <2>2. IsList(m) => ~m.op.secret /\ m.op.ends = "no"
    BY <1>1 DEF Fits
  <2>3. m.op.kind \notin {"create", "all", "order"} /\ ~IsList(m) => m.row \in Rows
    BY <2>1 DEF RowFits, Rowless
  <2>. QED
    BY <1>2, <2>1, <2>2, <2>3 DEF Changes, IsList
<1>5. /\ ver(r) \in [Rows -> Nat] /\ there(r) \in SUBSET Rows
      /\ key(r) \in [Rows -> Nat] /\ Ended(m, r) \in SUBSET Rows
  <2>1. ver(r) \in [Rows -> Nat]
    BY <1>1
  <2>2. key(r) \in [Rows -> Nat]
    BY <1>1, <1>4
  <2>3. there(r) \in SUBSET Rows
    BY <1>1, <1>4
  <2>4. Ended(m, r) \in SUBSET Rows
    BY <1>1, <1>4 DEF Ended
  <2>. QED
    BY <2>1, <2>2, <2>3, <2>4
<1>6. PICK v, t, k, e : v = ver(r) /\ t = there(r) /\ k = key(r) /\ e = Ended(m, r)
  OBVIOUS
<1>7. server' = [ver |-> v, there |-> t, key |-> k, ended |-> e]
  <2>. HIDE DEF ver, there, key
  <2>. QED
    BY <1>2, <1>6
<1>8. /\ server'.ver = v /\ server'.there = t /\ server'.key = k /\ server'.ended = e
      /\ server' \in [ver : [Rows -> Nat], there : SUBSET Rows, key : [Rows -> Nat],
                      ended : SUBSET Rows]
  <2>. HIDE DEF ver, there, key
  <2>. QED
    BY <1>5, <1>6, <1>7
<1>9. PICK a, b, c : /\ a = [ver |-> v, there |-> t]
                     /\ b = [ver |-> [x \in Rows |-> IF x = r THEN v[x] ELSE 0],
                             there |-> {r} \intersect t]
                     /\ c = NextPage(m)
  OBVIOUS
<1>10. seen(r) = CASE m.op.kind \in {"list", "all"} -> a
                   [] m.op.kind = "more" -> c
                   [] OTHER -> b
  <2>. HIDE DEF ver, there
  <2>. QED
    BY <1>6, <1>9
<1>11. /\ Whole(m) => seen(r) = a
       /\ m.op.kind = "more" => seen(r) = c
       /\ ~Whole(m) /\ m.op.kind # "more" => seen(r) = b
  <2>. HIDE DEF seen
  <2>. QED
    BY <1>10 DEF Whole
<1>12. PICK sv, st, sk : /\ sv = seen(r).ver /\ st = seen(r).there
                         /\ sk = IF m.op.secret THEN k[r] ELSE 0
  OBVIOUS
<1>13. PICK n : n = ans(r)
  <2>. HIDE DEF ans
  <2>. QED
    OBVIOUS
<1>14. n = Served(m, r, sk, sv, st)
  <2>. HIDE DEF ver, there, key, seen
  <2>1. sk = IF m.op.secret THEN key(r)[r] ELSE 0
    BY <1>6, <1>12
  <2>. QED
    BY <1>12, <1>13, <2>1 DEF Served
<1>. HIDE DEF ver, there, key, seen, ans
<1>15. /\ Whole(m) => sv = v /\ st = t
       /\ m.op.kind = "more" =>
            /\ sv = [q \in Rows |-> IF q \in m.there THEN m.ver[q] ELSE server.ver[q]]
            /\ st = m.there \union server.there
       /\ ~Whole(m) /\ m.op.kind # "more" =>
            /\ sv = [x \in Rows |-> IF x = r THEN v[x] ELSE 0]
            /\ st = {r} \intersect t
  <2>1. /\ a.ver = v /\ a.there = t
        /\ b.ver = [x \in Rows |-> IF x = r THEN v[x] ELSE 0]
        /\ b.there = {r} \intersect t
        /\ c.ver = [q \in Rows |-> IF q \in m.there THEN m.ver[q] ELSE server.ver[q]]
        /\ c.there = m.there \union server.there
    BY <1>9 DEF NextPage
  <2>. QED
    BY <1>11, <1>12, <2>1, Zenon
<1>16. sv \in [Rows -> Nat] /\ st \in SUBSET Rows /\ sk \in Nat
  <2>1. sk \in Nat
    BY <1>4, <1>5, <1>6, <1>12
  <2>2. m.ver \in [Rows -> Nat] /\ m.there \in SUBSET Rows
    BY <1>1 DEF CallType
  <2>3. v \in [Rows -> Nat] /\ t \in SUBSET Rows
    BY <1>5, <1>6
  <2>4. [x \in Rows |-> IF x = r THEN v[x] ELSE 0] \in [Rows -> Nat]
    BY <2>3
  <2>5. [q \in Rows |-> IF q \in m.there THEN m.ver[q] ELSE server.ver[q]]
          \in [Rows -> Nat]
    BY <1>1, <2>2
  <2>6. m.there \union server.there \in SUBSET Rows
    BY <1>1, <2>2
  <2>7. CASE Whole(m)
    BY <1>15, <2>1, <2>3, <2>7
  <2>8. CASE m.op.kind = "more"
    BY <1>15, <2>1, <2>5, <2>6, <2>8
  <2>9. CASE ~Whole(m) /\ m.op.kind # "more"
    BY <1>15, <2>1, <2>3, <2>4, <2>9
  <2>. QED
    BY <2>7, <2>8, <2>9
<1>17. /\ n \in CallType /\ n.st = "answered" /\ n.ok
       /\ n.id = m.id /\ n.op = m.op /\ n.row = r /\ n.param = m.param
       /\ n.holds = m.holds /\ n.key = sk /\ n.ver = sv /\ n.there = st
       /\ n.passed = m.passed
  <2>1. r \in Rows \union {Nobody}
    BY DEF AnyRow
  <2>. QED
    BY <1>1, <1>14, <1>16, <2>1 DEF Served, Answer, CallType
<1>18. net' = (net \ {m}) \union {n}
  BY <1>2, <1>13, Zenon DEF Becomes
<1>19. n.key = IF m.op.secret THEN server'.key[r] ELSE 0
  BY <1>8, <1>12, <1>17
<1>20. /\ server'.ver = [x \in Rows |-> IF x \in Changed(m, r) THEN server.ver[x] + 1
                                         ELSE server.ver[x]]
       /\ server'.key = IF m.op.secret \/ m.op.ends # "no"
                          THEN [server.key EXCEPT ![r] = @ + 1] ELSE server.key
       /\ server'.ended = Ended(m, r)
       /\ server'.there = CASE m.op.kind = "create" -> server.there \union {r}
                            [] m.op.kind = "remove" -> server.there \ {r}
                            [] OTHER -> server.there
  BY <1>6, <1>8, Zenon DEF ver, there, key
<1>21. /\ Whole(m) => n.ver = server'.ver /\ n.there = server'.there
       /\ m.op.kind = "more" =>
            /\ n.ver = [q \in Rows |-> IF q \in m.there THEN m.ver[q] ELSE server.ver[q]]
            /\ n.there = m.there \union server.there
       /\ ~Whole(m) /\ m.op.kind # "more" =>
            /\ n.ver = [x \in Rows |-> IF x = r THEN server'.ver[x] ELSE 0]
            /\ n.there = {r} \intersect server'.there
  BY <1>8, <1>15, <1>17, Zenon
<1>22. r \in AnyRow
  OBVIOUS
<1>23. ServedAs(m, n, r)
  BY <1>2, <1>3, <1>4, <1>8, <1>17, <1>18, <1>19, <1>20, <1>21, <1>22, Zenon DEF ServedAs
<1>. QED
  BY <1>23

LEMMA WorkSwaps ==
  ASSUME TypeInv, OneListing, NEW m \in net, NEW n, n.op = m.op,
         n \in CallType, n.st = "answered", n.id = m.id, n.param = m.param,
         n.holds = m.holds, ~IsList(m) => RowFits(n),
         net' = (net \ {m}) \union {n}, sent' = sent
  PROVE  SwapAs({m}, n)
<1>1. Fits(m) /\ (m.ok => m.st = "answered") /\ (IsList(n) <=> IsList(m))
  BY DEF TypeInv, Fits, IsList
<1>2. n.holds = Held({m})
  BY DEF Held
<1>3. ~IsList(n) => n.op \in page.ops /\ OwnHold(n)
  BY <1>1 DEF Fits, OwnHold
<1>4. ~IsList(n) => RowFits(n)
  BY <1>1
<1>5. Querying /\ IsList(n) =>
        \A k \in net \ {m} : ~(IsList(k) /\ k.param = n.param)
  BY <1>1 DEF OneListing
<1>6. IsList(n) => /\ ~n.op.secret /\ n.op.ends = "no" /\ n.op.frees # "failure"
                   /\ \A h \in n.holds : h.frees # "failure"
  BY <1>1 DEF Fits
<1>7. {m} \subseteq net /\ sent' \in {sent, sent + 1} /\ n.id <= sent'
  BY <1>1 DEF Fits
<1>8. n.ok => n.st = "answered"
  OBVIOUS
<1>. QED
  BY <1>2, <1>3, <1>4, <1>5, <1>6, <1>7, <1>8 DEF SwapAs

LEMMA ServeSwaps ==
  ASSUME TypeInv, OneListing, NEW m \in net, NEW n, NEW r, ServedAs(m, n, r)
  PROVE  SwapAs({m}, n)
<1>1. /\ n \in CallType /\ n.st = "answered" /\ n.op = m.op /\ n.id = m.id
      /\ n.param = m.param /\ n.holds = m.holds /\ sent' = sent
      /\ net' = (net \ {m}) \union {n} /\ n.row = r
      /\ m.op.kind = "create" => r \in Rows
      /\ m.op.kind # "create" => r = m.row
  BY Zenon DEF ServedAs
<1>2. ~IsList(m) => RowFits(n)
  BY <1>1 DEF TypeInv, Fits, RowFits, Rowless
<1>. QED
  BY <1>1, <1>2, WorkSwaps, Zenon

LEMMA RefuseSwaps ==
  ASSUME TypeInv, OneListing, NEW m \in net, Refuse(m) \/ Lose(m), NEW n,
         n = Answer(m, FALSE)
  PROVE  SwapAs({m}, n) /\ net' = (net \ {m}) \union {n}
<1>1. net' = (net \ {m}) \union {n} /\ sent' = sent
  BY Zenon DEF Refuse, Lose, Becomes
<1>2. m \in CallType
  BY DEF TypeInv, TypeOK
<1>3. /\ n \in CallType /\ n.st = "answered" /\ ~n.ok
      /\ n.id = m.id /\ n.op = m.op /\ n.row = m.row /\ n.param = m.param
      /\ n.holds = m.holds
  BY <1>2, RefusedFields
<1>4. ~IsList(m) => RowFits(n)
  BY <1>3 DEF TypeInv, Fits, RowFits
<1>. QED
  BY <1>1, <1>3, <1>4, WorkSwaps

LEMMA ListSwaps ==
  ASSUME TypeInv, NEW p \in Params, NEW gone \in SUBSET net,
         \A k \in gone : k.holds = {},
         Querying => \A k \in net \ gone : ~(IsList(k) /\ k.param = p),
         net' = (net \ gone) \union {List(p)}, sent' = sent + 1
  PROVE  SwapAs(gone, List(p))
<1>1. sent \in Nat
  BY DEF TypeInv, TypeOK
<1>2. PICK n : n = List(p)
  OBVIOUS
<1>3. /\ n \in CallType /\ IsList(n) /\ ~n.op.secret /\ n.op.ends = "no" /\ n.op.frees = "always"
      /\ n.id = sent + 1 /\ n.param = p /\ ~n.ok /\ n.holds = {}
  BY <1>1, <1>2, PlainList
<1>4. Held(gone) = {}
  BY DEF Held
<1>5. SwapAs(gone, n)
  BY <1>1, <1>2, <1>3, <1>4 DEF SwapAs
<1>. QED
  BY <1>2, <1>5

NextListing ==
  [Call(Op("more", "none"), Nobody, param) EXCEPT
     !.holds = Held(Listings(param)),
     !.passed = Listings(param) # {} \/ Copy.failed \/ Copy.late,
     !.ver = Copy.ver, !.there = Copy.there]

LEMMA MoreSwaps ==
  ASSUME TypeInv, More
  PROVE  /\ SwapAs(Listings(param), NextListing)
         /\ NextListing.op.kind = "more" /\ NextListing.row = Nobody
         /\ NextListing.param = param /\ ~NextListing.ok /\ NextListing.st = "sent"
         /\ NextListing.id = sent + 1 /\ ~NextListing.op.secret
         /\ NextListing.ver = Copy.ver /\ NextListing.there = Copy.there
         /\ (Listings(param) # {} \/ Copy.failed \/ Copy.late) => NextListing.passed
<1>. DEFINE hs == Held(Listings(param))
            b == Listings(param) # {} \/ Copy.failed \/ Copy.late
            o == Op("more", "none")
            gone == Listings(param)
<1>1. /\ sent \in Nat /\ net \subseteq CallType /\ param \in Params
      /\ shown \in [Params -> CopyType]
  BY DEF TypeInv, TypeOK
<1>2. Copy \in CopyType
  <2>1. Place(param) \in Params
    BY <1>1, BlankIs DEF Place
  <2>. QED
    BY <1>1, <2>1 DEF Copy
<1>3. PICK c : c = Copy
  OBVIOUS
<1>4. c.ver \in [Rows -> Nat] /\ c.there \in SUBSET Rows
  BY <1>2, <1>3 DEF CopyType
<1>5. /\ gone \subseteq net /\ \A k \in gone : IsList(k) /\ k.param = param
      /\ \A k \in net \ gone : ~(IsList(k) /\ k.param = param)
  BY DEF Listings
<1>6. hs \subseteq HoldType /\ \A h \in hs : h.frees # "failure"
  <2>1. \A k \in gone : k.holds \subseteq HoldType /\ \A h \in k.holds : h.frees # "failure"
    BY <1>1, <1>5 DEF TypeInv, Fits, CallType
  <2>. QED
    BY <2>1 DEF Held
<1>7. o \in OpType /\ o.kind = "more" /\ ~o.secret /\ o.ends = "no" /\ o.frees = "always"
  BY ListOps
<1>8. PICK x : x = Call(o, Nobody, param)
  OBVIOUS
<1>. HIDE DEF o
<1>9. /\ x.id = sent + 1 /\ x.op = o /\ x.row = Nobody /\ x.param = param
      /\ x.st = "sent" /\ ~x.ok /\ x \in CallType
  <2>1. Zero \in [Rows -> Nat]
    BY DEF Zero
  <2>. QED
    BY <1>1, <1>7, <1>8, <2>1 DEF Call, CallType
<1>10. PICK n : n = NextListing
  OBVIOUS
<1>11. b \in BOOLEAN
  BY <1>2 DEF CopyType
<1>12. n = [x EXCEPT !.holds = hs, !.passed = b, !.ver = c.ver, !.there = c.there]
  BY <1>3, <1>8, <1>10, Zenon DEF NextListing, o
<1>. HIDE DEF hs, b, gone
<1>13. /\ n.id = sent + 1 /\ n.op = o /\ n.row = Nobody /\ n.param = param
       /\ n.st = "sent" /\ ~n.ok /\ n.holds = hs /\ n.ver = c.ver /\ n.there = c.there
       /\ n.passed = b /\ n \in CallType
  BY <1>4, <1>6, <1>9, <1>11, <1>12 DEF CallType
<1>14. net' = (net \ gone) \union {n} /\ sent' = sent + 1
  BY <1>10, Zenon DEF More, NextListing, gone
<1>15. n.holds = Held(gone) /\ IsList(n)
  BY <1>7, <1>13 DEF hs, gone, IsList
<1>16. SwapAs(gone, n)
  BY <1>1, <1>5, <1>6, <1>7, <1>13, <1>14, <1>15 DEF SwapAs
<1>17. Listings(param) # {} \/ Copy.failed \/ Copy.late => b
  BY DEF b
<1>. QED
  BY <1>3, <1>7, <1>10, <1>13, <1>16, <1>17 DEF gone

(***************************************************************************)
(* Types.                                                                  *)
(***************************************************************************)
LEMMA HoldFits ==
  ASSUME TypeInv, NEW k \in net, NEW h \in k.holds
  PROVE  /\ h \in HoldType /\ h.id \in 1..sent
         /\ h.slot = "no" => ~h.ousted
         /\ h.slot \in {"plain", "latest"} => h.row \in Rows
         /\ \E op \in page.ops : h.lock = op.lock /\ h.slot = op.slot /\ h.frees = op.frees
<1>1. k \in CallType /\ Fits(k)
  BY DEF TypeInv, TypeOK
<1>2. h \in HoldType
  BY <1>1 DEF CallType
<1>. QED
  BY <1>1, <1>2 DEF Fits

LEMMA FitsNext ==
  ASSUME NEW n, page' = page, n.id <= sent', n.ok => n.st = "answered",
         IsList(n) => /\ ~n.op.secret /\ n.op.ends = "no" /\ n.op.frees # "failure"
                      /\ \A h \in n.holds : h.frees # "failure",
         ~IsList(n) => n.op \in page.ops /\ OwnHold(n) /\ RowFits(n),
         \A h \in n.holds :
           /\ h.id \in 1..sent'
           /\ h.slot = "no" => ~h.ousted
           /\ h.slot \in {"plain", "latest"} => h.row \in Rows
           /\ \E op \in page.ops :
                h.lock = op.lock /\ h.slot = op.slot /\ h.frees = op.frees
  PROVE  Fits(n)'
<1>1. IsList(n)' <=> IsList(n)
  BY DEF IsList
<1>2. OwnHold(n)' <=> OwnHold(n)
  BY DEF OwnHold
<1>3. RowFits(n)' <=> RowFits(n)
  BY DEF RowFits
<1>. QED
  BY <1>1, <1>2, <1>3, Zenon DEF Fits

LEMMA FitsMarked ==
  ASSUME TypeInv, NEW locks, NEW rows, NEW k \in net, NEW n,
         n.id = k.id, n.op = k.op, n.row = k.row, n.st = k.st, n.ok = k.ok,
         n.holds = {Mark(h, locks, rows) : h \in k.holds},
         page' = page, sent' \in {sent, sent + 1}
  PROVE  Fits(n)'
<1>1. k \in CallType /\ Fits(k) /\ sent \in Nat
  BY DEF TypeInv, TypeOK
<1>2. /\ n.id = k.id /\ n.op = k.op /\ n.row = k.row /\ n.st = k.st /\ n.ok = k.ok
      /\ n.holds = {Mark(h, locks, rows) : h \in k.holds}
  OBVIOUS
<1>3. ASSUME NEW h \in n.holds
      PROVE  /\ h.id \in 1..sent'
             /\ h.slot = "no" => ~h.ousted
             /\ h.slot \in {"plain", "latest"} => h.row \in Rows
             /\ \E op \in page.ops :
                  h.lock = op.lock /\ h.slot = op.slot /\ h.frees = op.frees
             /\ IsList(k) => h.frees # "failure"
  <2>1. PICK g \in k.holds : h = Mark(g, locks, rows)
    BY <1>2
  <2>2. /\ g \in HoldType /\ g.id \in 1..sent
        /\ g.slot = "no" => ~g.ousted
        /\ g.slot \in {"plain", "latest"} => g.row \in Rows
        /\ \E op \in page.ops : g.lock = op.lock /\ g.slot = op.slot /\ g.frees = op.frees
    BY HoldFits
  <2>3. /\ h.lock = g.lock /\ h.id = g.id /\ h.row = g.row /\ h.slot = g.slot
        /\ h.frees = g.frees
        /\ h.ousted = (g.ousted \/ (g.slot # "no" /\ g.lock \in locks /\ g.row \in rows))
    BY <2>1, <2>2, MarkFields
  <2>4. h.slot = "no" => ~h.ousted
    BY <2>2, <2>3
  <2>5. IsList(k) => g.frees # "failure"
    BY <1>1 DEF Fits
  <2>6. h.id \in 1..sent'
    BY <1>1, <2>2, <2>3
  <2>. QED
    BY <2>2, <2>3, <2>4, <2>5, <2>6
<1>4. IsList(n) <=> IsList(k)
  BY <1>2 DEF IsList
<1>5. ~IsList(n) => OwnHold(n)
  <2>1. SUFFICES ASSUME ~IsList(n) PROVE OwnHold(n)
    OBVIOUS
  <2>2. OwnHold(k)
    BY <1>1, <1>4, <2>1 DEF Fits
  <2>3. CASE k.op.lock = "none"
    BY <1>2, <2>2, <2>3 DEF OwnHold
  <2>4. CASE k.op.lock # "none"
    <3>1. PICK g \in k.holds : /\ k.holds = {g} /\ g.lock = k.op.lock
                               /\ g.slot = k.op.slot /\ g.frees = k.op.frees
      BY <2>2, <2>4 DEF OwnHold
    <3>2. PICK h : h = Mark(g, locks, rows)
      OBVIOUS
    <3>3. n.holds = {h}
      BY <1>2, <3>1, <3>2
    <3>4. h.lock = g.lock /\ h.slot = g.slot /\ h.frees = g.frees
      BY <3>2, HoldFits, MarkFields
    <3>5. /\ n.op.lock # "none" /\ h \in n.holds /\ n.holds = {h}
          /\ h.lock = n.op.lock /\ h.slot = n.op.slot /\ h.frees = n.op.frees
      BY <1>2, <2>4, <3>1, <3>3, <3>4
    <3>. QED
      BY <3>5, Zenon DEF OwnHold
  <2>. QED
    BY <2>3, <2>4
<1>6. n.id <= sent' /\ (n.ok => n.st = "answered")
  BY <1>1, <1>2 DEF Fits, CallType
<1>7. /\ IsList(n) => ~n.op.secret /\ n.op.ends = "no" /\ n.op.frees # "failure"
      /\ ~IsList(n) => n.op \in page.ops /\ RowFits(n)
  BY <1>1, <1>2, <1>4 DEF Fits, RowFits
<1>. QED
  <2>1. \A h \in n.holds :
          /\ h.id \in 1..sent'
          /\ h.slot = "no" => ~h.ousted
          /\ h.slot \in {"plain", "latest"} => h.row \in Rows
          /\ \E op \in page.ops :
               h.lock = op.lock /\ h.slot = op.slot /\ h.frees = op.frees
    BY <1>3, Zenon
  <2>2. IsList(n) => /\ ~n.op.secret /\ n.op.ends = "no" /\ n.op.frees # "failure"
                     /\ \A h \in n.holds : h.frees # "failure"
    BY <1>3, <1>4, <1>7, Zenon
  <2>3. ~IsList(n) => n.op \in page.ops /\ OwnHold(n) /\ RowFits(n)
    BY <1>5, <1>7
  <2>. QED
    BY <1>6, <2>1, <2>2, <2>3, FitsNext, Zenon

LEMMA FitsLater ==
  ASSUME TypeInv, NEW m, NEW locks, NEW k \in net, NEW n, n = Later(k, m, locks),
         page' = page, sent' \in {sent, sent + 1}
  PROVE  n \in CallType /\ Fits(n)'
<1>1. k \in CallType
  BY DEF TypeInv, TypeOK
<1>2. PICK rows : rows = AnyRow
  OBVIOUS
<1>3. /\ n \in CallType
      /\ n.id = k.id /\ n.op = k.op /\ n.row = k.row /\ n.st = k.st /\ n.ok = k.ok
      /\ n.holds = {Mark(h, locks, AnyRow) : h \in k.holds}
  BY <1>1, LaterFields
<1>4. n.holds = {Mark(h, locks, rows) : h \in k.holds}
  BY <1>2, <1>3
<1>5. ASSUME NEW x, x.id = k.id, x.op = k.op, x.row = k.row, x.st = k.st,
             x.ok = k.ok, x.holds = {Mark(h, locks, rows) : h \in k.holds}
      PROVE  Fits(x)'
  BY <1>5, FitsMarked
<1>6. Fits(n)'
  BY <1>3, <1>4, <1>5, Zenon
<1>. QED
  BY <1>3, <1>6

LEMMA TypeHeard ==
  ASSUME TypeInv, NEW m \in net, NEW locks, NEW gone, NEW add,
         HeardAs(m, locks, gone, add), page' = page
  PROVE  /\ net' \subseteq CallType /\ \A k \in net' : Fits(k)'
         /\ sent' \in Nat
         /\ busy' \in [Locks -> [row : Rows \union {Nobody}, id : Nat]]
<1>1. /\ sent \in Nat /\ net \subseteq CallType
      /\ busy \in [Locks -> [row : Rows \union {Nobody}, id : Nat]]
  BY DEF TypeInv, TypeOK
<1>2. /\ gone \subseteq net /\ sent' \in {sent, sent + 1}
      /\ net' = {Later(k, m, locks) : k \in net \ gone} \union add
  BY DEF HeardAs
<1>3. ASSUME NEW k \in net \ gone, NEW n, n = Later(k, m, locks)
      PROVE  n \in CallType /\ Fits(n)'
  BY <1>2, <1>3, FitsLater
<1>4. ASSUME NEW n \in add PROVE n \in CallType /\ Fits(n)'
  <2>1. /\ n \in CallType /\ IsList(n) /\ ~n.op.secret /\ n.op.ends = "no" /\ n.op.frees # "failure"
        /\ n.id <= sent' /\ (n.ok => n.st = "answered")
        /\ n.holds = {h \in Held(gone) : h.lock \notin locks}
        /\ \A h \in n.holds : h.frees # "failure"
    BY DEF HeardAs
  <2>2. ASSUME NEW h \in n.holds
        PROVE  /\ h.id \in 1..sent'
               /\ h.slot = "no" => ~h.ousted
               /\ h.slot \in {"plain", "latest"} => h.row \in Rows
               /\ \E op \in page.ops :
                    h.lock = op.lock /\ h.slot = op.slot /\ h.frees = op.frees
    <3>1. PICK k \in net : h \in k.holds
      BY <1>2, <2>1 DEF Held
    <3>2. /\ h.id \in 1..sent
          /\ h.slot = "no" => ~h.ousted
          /\ h.slot \in {"plain", "latest"} => h.row \in Rows
          /\ \E op \in page.ops : h.lock = op.lock /\ h.slot = op.slot /\ h.frees = op.frees
      BY <3>1, HoldFits
    <3>3. h.id \in 1..sent'
      BY <1>1, <1>2, <3>2
    <3>. QED
      BY <3>2, <3>3
  <2>3. \A h \in n.holds :
          /\ h.id \in 1..sent'
          /\ h.slot = "no" => ~h.ousted
          /\ h.slot \in {"plain", "latest"} => h.row \in Rows
          /\ \E op \in page.ops :
               h.lock = op.lock /\ h.slot = op.slot /\ h.frees = op.frees
    BY <2>2, Zenon
  <2>4. Fits(n)'
    BY <2>1, <2>3, FitsNext
  <2>. QED
    BY <2>1, <2>4
<1>5. busy' \in [Locks -> [row : Rows \union {Nobody}, id : Nat]]
  <2>1. busy' = [l \in Locks |-> IF l \in locks THEN Idle ELSE busy[l]]
    BY DEF HeardAs
  <2>2. Idle \in [row : Rows \union {Nobody}, id : Nat]
    BY DEF Idle
  <2>. QED
    BY <1>1, <2>1, <2>2
<1>. QED
  BY <1>1, <1>2, <1>3, <1>4, <1>5

LEMMA TypeSwap ==
  ASSUME TypeInv, NEW gone, NEW n, SwapAs(gone, n), page' = page
  PROVE  net' \subseteq CallType /\ (\A k \in net' : Fits(k)') /\ sent' \in Nat
<1>1. sent \in Nat /\ net \subseteq CallType
  BY DEF TypeInv, TypeOK
<1>2. /\ gone \subseteq net /\ net' = (net \ gone) \union {n}
      /\ sent' \in {sent, sent + 1}
  BY DEF SwapAs
<1>3. ASSUME NEW k \in net PROVE Fits(k)'
  <2>1. Fits(k) /\ k.id <= sent' /\ k \in CallType
    BY <1>1, <1>2 DEF TypeInv, Fits, CallType
  <2>2. \A h \in k.holds : h.id \in 1..sent'
    BY <1>1, <1>2, HoldFits
  <2>3. \A h \in k.holds :
          /\ h.id \in 1..sent'
          /\ h.slot = "no" => ~h.ousted
          /\ h.slot \in {"plain", "latest"} => h.row \in Rows
          /\ \E op \in page.ops :
               h.lock = op.lock /\ h.slot = op.slot /\ h.frees = op.frees
    BY <2>2, HoldFits
  <2>4. Fits(k)'
    <3>1. /\ k.ok => k.st = "answered"
          /\ IsList(k) => /\ ~k.op.secret /\ k.op.ends = "no" /\ k.op.frees # "failure"
                          /\ \A h \in k.holds : h.frees # "failure"
          /\ ~IsList(k) => k.op \in page.ops /\ OwnHold(k) /\ RowFits(k)
      BY <2>1 DEF Fits
    <3>. QED
      BY <2>1, <2>3, <3>1, FitsNext
  <2>. QED
    BY <2>1, <2>4
<1>4. n \in CallType /\ Fits(n)'
  <2>1. /\ n \in CallType /\ n.holds = Held(gone) /\ n.id <= sent'
        /\ n.ok => n.st = "answered"
        /\ IsList(n) => /\ ~n.op.secret /\ n.op.ends = "no" /\ n.op.frees # "failure"
                        /\ \A h \in n.holds : h.frees # "failure"
        /\ ~IsList(n) => n.op \in page.ops /\ OwnHold(n) /\ RowFits(n)
    BY DEF SwapAs
  <2>2. ASSUME NEW h \in n.holds
        PROVE  /\ h.id \in 1..sent'
               /\ h.slot = "no" => ~h.ousted
               /\ h.slot \in {"plain", "latest"} => h.row \in Rows
               /\ \E op \in page.ops :
                    h.lock = op.lock /\ h.slot = op.slot /\ h.frees = op.frees
    <3>1. PICK k \in net : h \in k.holds
      BY <1>2, <2>1 DEF Held
    <3>2. /\ h.id \in 1..sent
          /\ h.slot = "no" => ~h.ousted
          /\ h.slot \in {"plain", "latest"} => h.row \in Rows
          /\ \E op \in page.ops : h.lock = op.lock /\ h.slot = op.slot /\ h.frees = op.frees
      BY <3>1, HoldFits
    <3>3. h.id \in 1..sent'
      BY <1>1, <1>2, <3>2
    <3>. QED
      BY <3>2, <3>3
  <2>3. \A h \in n.holds :
          /\ h.id \in 1..sent'
          /\ h.slot = "no" => ~h.ousted
          /\ h.slot \in {"plain", "latest"} => h.row \in Rows
          /\ \E op \in page.ops :
               h.lock = op.lock /\ h.slot = op.slot /\ h.frees = op.frees
    BY <2>2, Zenon
  <2>4. Fits(n)'
    BY <2>1, <2>3, FitsNext, Zenon
  <2>. QED
    BY <2>1, <2>4
<1>. QED
  BY <1>1, <1>2, <1>3, <1>4

\* What Start(op, r) does: n is the new call.
StartedAs(op, r, n) ==
  /\ op \in page.ops /\ r \in Rows \union {Nobody}
  /\ op.slot \in {"plain", "latest"} => r \in Rows
  /\ op.kind \in Rowless <=> r = Nobody
  /\ Enabled(op, r)
  /\ net' = {Marked(k, {op.lock}, Rows \ {r}) : k \in net} \union {n}
  /\ busy' = IF op.lock = "none" THEN busy
             ELSE [busy EXCEPT ![op.lock] = [row |-> r, id |-> sent + 1]]
  /\ sent' = sent + 1
  /\ n \in CallType /\ n.id = sent + 1 /\ n.op = op /\ n.row = r /\ n.param = param
  /\ n.holds = Hold(op, r) /\ n.st = "sent" /\ ~n.ok /\ n.there = {}
  /\ n.passed = FALSE /\ ~IsList(n) /\ OwnHold(n)
  /\ RowFits(n)
  /\ \A h \in n.holds :
       /\ h \in HoldType /\ h.lock = op.lock /\ h.id = sent + 1 /\ h.row = r
       /\ h.slot = op.slot /\ h.frees = op.frees /\ ~h.ousted

LEMMA StartFacts ==
  ASSUME TypeInv, NEW op, NEW r, r \in Rows \union {Nobody}, Start(op, r)
  PROVE  \E n : StartedAs(op, r, n)
<1>1. sent \in Nat /\ net \subseteq CallType /\ param \in Params
  BY DEF TypeInv, TypeOK
<1>2. /\ op \in page.ops /\ Enabled(op, r) /\ sent' = sent + 1
      /\ op.kind \in Rowless <=> r = Nobody
      /\ net' = Oust(net, {op.lock}, Rows \ {r}) \union
                   {[Call(op, r, param) EXCEPT !.holds = Hold(op, r)]}
      /\ busy' = IF op.lock = "none" THEN busy
                 ELSE [busy EXCEPT ![op.lock] = [row |-> r, id |-> sent + 1]]
  BY Zenon DEF Start
<1>3. /\ op \in OpType /\ op.kind \notin {"list", "more"}
      /\ op.slot \in {"plain", "latest"} => op.kind \notin Rowless
  BY <1>2, PageFits DEF TypeInv, FlagsFit
<1>4. /\ op.slot \in {"plain", "latest"} => r \in Rows
      /\ op.kind \notin Rowless => r \in Rows
  BY <1>2, <1>3
<1>5. Oust(net, {op.lock}, Rows \ {r}) = {Marked(k, {op.lock}, Rows \ {r}) : k \in net}
  BY DEF Oust, Marked, Mark
<1>6. PICK h : h = [lock |-> op.lock, id |-> sent + 1, row |-> r, slot |-> op.slot,
                    frees |-> op.frees, ousted |-> FALSE]
  OBVIOUS
<1>7. /\ h.lock = op.lock /\ h.id = sent + 1 /\ h.row = r /\ h.slot = op.slot
      /\ h.frees = op.frees /\ ~h.ousted
  BY <1>6
<1>8. op.lock # "none" => h \in HoldType
  BY <1>1, <1>3, <1>6 DEF HoldType, OpType
<1>9. Hold(op, r) = IF op.lock = "none" THEN {} ELSE {h}
  BY <1>6 DEF Hold
<1>10. PICK c : c = Call(op, r, param)
  OBVIOUS
<1>11. PICK n : n = [c EXCEPT !.holds = Hold(op, r)]
  OBVIOUS
<1>12. /\ c.id = sent + 1 /\ c.op = op /\ c.row = r /\ c.param = param /\ c.st = "sent"
       /\ c.ok = FALSE /\ c.there = {} /\ c.passed = FALSE /\ c \in CallType
  <2>1. Zero \in [Rows -> Nat]
    BY DEF Zero
  <2>. QED
    BY <1>1, <1>3, <1>10, <2>1 DEF Call, CallType
<1>13. Hold(op, r) \subseteq HoldType
  BY <1>8, <1>9
<1>14. /\ n.id = sent + 1 /\ n.op = op /\ n.row = r /\ n.param = param /\ n.st = "sent"
       /\ ~n.ok /\ n.there = {} /\ n.passed = FALSE /\ n.holds = Hold(op, r)
       /\ n \in CallType
  BY <1>11, <1>12, <1>13 DEF CallType
<1>15. ~IsList(n)
  BY <1>3, <1>14 DEF IsList
<1>16. OwnHold(n)
  <2>1. CASE op.lock = "none"
    BY <1>9, <1>14, <2>1 DEF OwnHold
  <2>2. CASE op.lock # "none"
    <3>1. /\ n.op.lock # "none" /\ h \in n.holds /\ n.holds = {h}
          /\ h.lock = n.op.lock /\ h.slot = n.op.slot /\ h.frees = n.op.frees
      BY <1>7, <1>9, <1>14, <2>2
    <3>. QED
      BY <3>1, Zenon DEF OwnHold
  <2>. QED
    BY <2>1, <2>2
<1>17. \A g \in n.holds :
         /\ g \in HoldType /\ g.lock = op.lock /\ g.id = sent + 1 /\ g.row = r
         /\ g.slot = op.slot /\ g.frees = op.frees /\ ~g.ousted
  BY <1>7, <1>8, <1>9, <1>14
<1>18. net' = {Marked(k, {op.lock}, Rows \ {r}) : k \in net} \union {n}
  BY <1>2, <1>5, <1>10, <1>11
<1>19. RowFits(n)
  BY <1>4, <1>14 DEF RowFits, Rowless
<1>20. StartedAs(op, r, n)
  BY <1>2, <1>4, <1>14, <1>15, <1>16, <1>17, <1>18, <1>19 DEF StartedAs
<1>. QED
  BY <1>20

LEMMA TypeStart ==
  ASSUME TypeInv, NEW op, NEW r, NEW n, StartedAs(op, r, n), page' = page
  PROVE  /\ net' \subseteq CallType /\ (\A k \in net' : Fits(k)') /\ sent' \in Nat
         /\ busy' \in [Locks -> [row : Rows \union {Nobody}, id : Nat]]
<1>1. /\ sent \in Nat /\ net \subseteq CallType
      /\ busy \in [Locks -> [row : Rows \union {Nobody}, id : Nat]]
  BY DEF TypeInv, TypeOK
<1>2. /\ net' = {Marked(k, {op.lock}, Rows \ {r}) : k \in net} \union {n}
      /\ sent' = sent + 1 /\ r \in Rows \union {Nobody}
  BY DEF StartedAs
<1>3. ASSUME NEW k \in net, NEW x, x = Marked(k, {op.lock}, Rows \ {r})
      PROVE  x \in CallType /\ Fits(x)'
  <2>1. k \in CallType /\ sent' \in {sent, sent + 1}
    BY <1>1, <1>2
  <2>2. PICK locks, rows : locks = {op.lock} /\ rows = Rows \ {r}
    OBVIOUS
  <2>3. x = Marked(k, locks, rows)
    BY <1>3, <2>2, Zenon
  <2>4. /\ x \in CallType
        /\ x.id = k.id /\ x.op = k.op /\ x.row = k.row /\ x.st = k.st /\ x.ok = k.ok
        /\ x.holds = {Mark(h, locks, rows) : h \in k.holds}
    BY <2>1, <2>3, MarkedFields
  <2>5. Fits(x)'
    BY <2>1, <2>4, FitsMarked
  <2>. QED
    BY <2>4, <2>5
<1>4. n \in CallType /\ Fits(n)'
  <2>1. /\ n \in CallType /\ n.id = sent + 1 /\ n.op = op /\ ~n.ok /\ ~IsList(n)
        /\ op \in page.ops /\ OwnHold(n) /\ n.row = r
        /\ RowFits(n)
        /\ op.slot \in {"plain", "latest"} => r \in Rows
    BY DEF StartedAs
  <2>2. \A h \in n.holds :
          /\ h \in HoldType /\ h.lock = op.lock /\ h.id = sent + 1 /\ h.row = r
          /\ h.slot = op.slot /\ h.frees = op.frees /\ ~h.ousted
    BY DEF StartedAs
  <2>3. \A h \in n.holds :
          /\ h.id \in 1..sent'
          /\ h.slot = "no" => ~h.ousted
          /\ h.slot \in {"plain", "latest"} => h.row \in Rows
          /\ \E o \in page.ops :
               h.lock = o.lock /\ h.slot = o.slot /\ h.frees = o.frees
    BY <1>1, <1>2, <2>1, <2>2
  <2>4. n.id <= sent' /\ (n.ok => n.st = "answered")
    BY <1>1, <1>2, <2>1
  <2>5. Fits(n)'
    BY <2>1, <2>3, <2>4, FitsNext
  <2>. QED
    BY <2>1, <2>5
<1>5. busy' \in [Locks -> [row : Rows \union {Nobody}, id : Nat]]
  <2>1. busy' = IF op.lock = "none" THEN busy
                ELSE [busy EXCEPT ![op.lock] = [row |-> r, id |-> sent + 1]]
    BY DEF StartedAs
  <2>2. PICK e : e = [row |-> r, id |-> sent + 1]
    OBVIOUS
  <2>3. e \in [row : Rows \union {Nobody}, id : Nat]
    BY <1>1, <1>2, <2>2
  <2>4. busy' = IF op.lock = "none" THEN busy ELSE [busy EXCEPT ![op.lock] = e]
    BY <2>1, <2>2
  <2>. QED
    BY <1>1, <2>3, <2>4
<1>6. sent' \in Nat
  BY <1>1, <1>2
<1>7. net' \subseteq CallType /\ \A k \in net' : Fits(k)'
  BY <1>2, <1>3, <1>4
<1>. QED
  BY <1>5, <1>6, <1>7

LEMMA TypeParts ==
  ASSUME TypeInv
  PROVE  /\ page \in Pages /\ page \in PageType /\ open \in {"yes", "leaving", "no"}
         /\ param \in Params /\ shown \in [Params -> CopyType]
         /\ busy \in [Locks -> [row : Rows \union {Nobody}, id : Nat]]
         /\ secret \in [row : Rows \union {Nobody}, key : Nat]
         /\ net \subseteq CallType
         /\ server \in [ver : [Rows -> Nat], there : SUBSET Rows, key : [Rows -> Nat],
                 ended : SUBSET Rows]
         /\ acts \in Nat /\ sent \in Nat
         /\ acked \in [Rows -> Nat] /\ mixed \subseteq Rows /\ left \in [Locks -> Nat]
BY DEF TypeInv, TypeOK

LEMMA InitTypes ==
  ASSUME Init
  PROVE  TypeInv /\ OneListing
<1>1. /\ page \in Pages /\ open = "yes" /\ param = Blank.param
      /\ shown = [p \in Params |-> Blank] /\ busy = [l \in Locks |-> Idle]
      /\ secret = NoSecret /\ acts = 0 /\ sent = 1
      /\ net = IF page.lists THEN {[List(param) EXCEPT !.id = 1]} ELSE {}
      /\ acked = Zero /\ mixed = {} /\ left = [l \in Locks |-> 0]
  BY DEF Init
<1>2. PICK there \in SUBSET Rows :
        server = [ver |-> [r \in Rows |-> IF r \in there THEN 1 ELSE 0],
                  there |-> there, key |-> Zero, ended |-> {}]
  BY DEF Init
<1>3. Zero \in [Rows -> Nat]
  BY DEF Zero
<1>4. server \in [ver : [Rows -> Nat], there : SUBSET Rows, key : [Rows -> Nat],
                 ended : SUBSET Rows]
  <2>1. PICK v : v = [r \in Rows |-> IF r \in there THEN 1 ELSE 0]
    OBVIOUS
  <2>2. v \in [Rows -> Nat]
    BY <2>1
  <2>. QED
    BY <1>2, <1>3, <2>1, <2>2
<1>5. shown \in [Params -> CopyType]
  BY <1>1, BlankIs
<1>6. busy \in [Locks -> [row : Rows \union {Nobody}, id : Nat]]
      /\ secret \in [row : Rows \union {Nobody}, key : Nat]
      /\ left \in [Locks -> Nat]
  BY <1>1 DEF Idle, NoSecret
<1>7. PICK n : n = [List(param) EXCEPT !.id = 1]
  OBVIOUS
<1>8. /\ n \in CallType /\ n.id = 1 /\ n.op = Op("list", "none") /\ ~n.ok
      /\ n.holds = {} /\ IsList(n) /\ ~n.op.secret /\ n.op.ends = "no" /\ n.op.frees # "failure"
  <2>1. PICK x : x = List(param)
    OBVIOUS
  <2>2. /\ x \in CallType /\ IsList(x) /\ x.op = Op("list", "none")
        /\ ~x.op.secret /\ x.op.ends = "no" /\ x.op.frees = "always" /\ ~x.ok /\ x.holds = {}
    BY <1>1, <2>1, BlankIs, PlainList
  <2>3. n = [x EXCEPT !.id = 1]
    BY <1>7, <2>1
  <2>4. /\ n \in CallType /\ n.id = 1 /\ n.op = x.op /\ n.ok = x.ok /\ n.holds = x.holds
    BY <2>2, <2>3 DEF CallType
  <2>. QED
    BY <2>2, <2>4 DEF IsList
<1>9. Fits(n)
  <2>1. n.id <= sent
    BY <1>1, <1>8
  <2>. QED
    BY <1>8, <2>1 DEF Fits
<1>10. net \subseteq {n}
  BY <1>1, <1>7
<1>11. TypeOK
  BY <1>1, <1>3, <1>4, <1>5, <1>6, <1>8, <1>10, BlankIs, ScreensAssumption DEF TypeOK
<1>12. TypeInv
  BY <1>1, <1>9, <1>10, <1>11 DEF TypeInv
<1>13. OneListing
  BY <1>10 DEF OneListing
<1>. QED
  BY <1>12, <1>13

\* What PutAway and Hide do.
LEMMA PutAwayFacts ==
  ASSUME PutAway
  PROVE  /\ UNCHANGED <<page, open, param, shown, secret, server, sent, acked, mixed, left>>
         /\ Here /\ acts' = acts + 1
         /\ busy' = [l \in Locks |-> IF l \in Away THEN Idle ELSE busy[l]]
         /\ net' = {Marked(k, Away, AnyRow) : k \in net}
<1>1. Oust(net, Away, AnyRow) = {Marked(k, Away, AnyRow) : k \in net}
  BY DEF Oust, Marked, Mark
<1>. QED
  BY <1>1, Zenon DEF PutAway

LEMMA HideFacts ==
  ASSUME Hide
  PROVE  /\ UNCHANGED <<page, open, param, shown, busy, net, server, sent, acked,
                        mixed, left>>
         /\ Here /\ acts' = acts + 1 /\ secret' = NoSecret
BY Zenon DEF Hide

\* An operation's flag can be put away where all of its lock's can.
LEMMA AwayLocks ==
  ASSUME TypeInv, NEW op \in page.ops
  PROVE  op.lock \in Away <=> op.slot = "away"
<1>1. op.slot = "away" => op.lock \in Away
  BY DEF Away
<1>2. ASSUME op.lock \in Away PROVE op.slot = "away"
  <2>1. PICK o \in page.ops : o.slot = "away" /\ o.lock = op.lock
    BY <1>2 DEF Away
  <2>. QED
    BY <2>1, PageFits DEF TypeInv, FlagsFit
<1>. QED
  BY <1>1, <1>2

LEMMA TypePutAway ==
  ASSUME TypeInv, PutAway
  PROVE  TypeInv'
<1>1. /\ UNCHANGED <<page, open, param, shown, secret, server, sent, acked, mixed, left>>
      /\ acts' = acts + 1
      /\ busy' = [l \in Locks |-> IF l \in Away THEN Idle ELSE busy[l]]
      /\ net' = {Marked(k, Away, AnyRow) : k \in net}
  BY PutAwayFacts
<1>2. sent \in Nat /\ sent' \in {sent, sent + 1} /\ page' = page
  BY <1>1, TypeParts
<1>3. ASSUME NEW k \in net, NEW x, x = Marked(k, Away, AnyRow)
      PROVE  x \in CallType /\ Fits(x)'
  <2>1. PICK locks, rows : locks = Away /\ rows = AnyRow
    OBVIOUS
  <2>2. k \in CallType /\ x = Marked(k, locks, rows)
    BY <1>3, <2>1, TypeParts
  <2>3. /\ x \in CallType
        /\ x.id = k.id /\ x.op = k.op /\ x.row = k.row /\ x.st = k.st /\ x.ok = k.ok
        /\ x.holds = {Mark(h, locks, rows) : h \in k.holds}
    BY <2>2, MarkedFields
  <2>4. Fits(x)'
    BY <1>2, <2>3, FitsMarked
  <2>. QED
    BY <2>3, <2>4
<1>4. net' \subseteq CallType /\ (\A k \in net' : Fits(k)')
  BY <1>1, <1>3
<1>5. busy' \in [Locks -> [row : Rows \union {Nobody}, id : Nat]]
  BY <1>1, TypeParts DEF Idle
<1>. QED
  BY <1>1, <1>4, <1>5, TypeParts DEF TypeInv, TypeOK

LEMMA TypeUser ==
  ASSUME TypeInv, OneListing, User
  PROVE  TypeInv'
<1>. USE TypeParts
<1>1. Place(param) \in Params
  BY BlankIs DEF Place
<1>2. ASSUME NEW op \in page.ops, NEW r \in Rows \union {Nobody}, Start(op, r)
      PROVE  TypeInv'
  <2>1. /\ UNCHANGED <<page, open, param, server, acked, left>>
        /\ acts' = acts + 1
        /\ shown' = IF op.early /\ r \in Rows
                      THEN [shown EXCEPT ![Place(param)].guess = @ \union {r}]
                      ELSE shown
        /\ mixed' = IF op.secret /\ r \in Rows /\ \E m \in net : m.op.secret /\ m.row = r
                      THEN mixed \union {r} ELSE mixed
    BY <1>2, Zenon DEF Start
  <2>6. secret' = secret \/ secret' = NoSecret
    BY <1>2, Zenon DEF Start
  <2>7. secret' \in [row : Rows \union {Nobody}, key : Nat]
    BY <2>6 DEF NoSecret
  <2>2. PICK n : StartedAs(op, r, n)
    BY <1>2, StartFacts
  <2>3. /\ net' \subseteq CallType /\ (\A k \in net' : Fits(k)') /\ sent' \in Nat
        /\ busy' \in [Locks -> [row : Rows \union {Nobody}, id : Nat]]
    BY <2>1, <2>2, TypeStart
  <2>4. shown' \in [Params -> CopyType]
    BY <1>1, <2>1 DEF CopyType
  <2>5. mixed' \subseteq Rows
    BY <2>1
  <2>. QED
    BY <2>1, <2>3, <2>4, <2>5, <2>7 DEF TypeInv, TypeOK
<1>3. ASSUME NEW p \in Params, Filter(p)
      PROVE  TypeInv'
  <2>1. /\ UNCHANGED <<page, open, shown, busy, secret, server, acked, mixed, left>>
        /\ acts' = acts + 1 /\ param' = p /\ page.filter # "fixed"
        /\ \/ /\ page.filter = "keyed" => Listings(p) = {}
              /\ net' = (net \ Dropped) \union {List(p)} /\ sent' = sent + 1
           \/ UNCHANGED <<net, sent>>
    BY <1>3, Zenon DEF Filter
  <2>2. net' \subseteq CallType /\ (\A k \in net' : Fits(k)') /\ sent' \in Nat
    <3>1. CASE UNCHANGED <<net, sent>>
      BY <2>1, <3>1 DEF TypeInv, Fits, RowFits, IsList, OwnHold
    <3>2. CASE /\ page.filter = "keyed" => Listings(p) = {}
               /\ net' = (net \ Dropped) \union {List(p)} /\ sent' = sent + 1
      <4>1. Dropped \in SUBSET net /\ \A k \in Dropped : k.holds = {}
        BY DEF Dropped
      <4>2. Querying => page.filter = "keyed"
        BY <2>1, PageFits DEF Querying, CacheFits
      <4>3. page.filter = "keyed" => Dropped = {}
        BY DEF Dropped
      <4>4. Querying => \A k \in net \ Dropped : ~(IsList(k) /\ k.param = p)
        BY <3>2, <4>2, <4>3 DEF Listings
      <4>5. SwapAs(Dropped, List(p))
        BY <3>2, <4>1, <4>4, ListSwaps
      <4>. QED
        BY <2>1, <4>5, TypeSwap
    <3>. QED
      BY <2>1, <3>1, <3>2
  <2>. QED
    BY <2>1, <2>2 DEF TypeInv, TypeOK
<1>4. ASSUME More PROVE TypeInv'
  <2>1. /\ UNCHANGED <<page, open, param, shown, busy, secret, server, acked, mixed, left>>
        /\ acts' = acts + 1
    BY <1>4, Zenon DEF More
  <2>2. net' \subseteq CallType /\ (\A k \in net' : Fits(k)') /\ sent' \in Nat
    BY <1>4, <2>1, MoreSwaps, TypeSwap
  <2>. QED
    BY <2>1, <2>2 DEF TypeInv, TypeOK
<1>5. ASSUME Poll PROVE TypeInv'
  <2>1. /\ UNCHANGED <<page, open, param, shown, busy, secret, server, acked, mixed, left>>
        /\ acts' = acts + 1 /\ page.polls # "no"
        /\ net' = net \union {List(param)} /\ sent' = sent + 1
    BY <1>5 DEF Poll
  <2>2. ~Querying
    BY <2>1, PageFits DEF Querying, CacheFits
  <2>3. SwapAs({}, List(param))
    <3>1. {} \in SUBSET net /\ (\A k \in {} : k.holds = {})
          /\ net' = (net \ {}) \union {List(param)}
      BY <2>1
    <3>. QED
      BY <2>1, <2>2, <3>1, ListSwaps
  <2>4. net' \subseteq CallType /\ (\A k \in net' : Fits(k)') /\ sent' \in Nat
    BY <2>1, <2>3, TypeSwap
  <2>. QED
    BY <2>1, <2>4 DEF TypeInv, TypeOK
<1>6. ASSUME Leave PROVE TypeInv'
  <2>1. /\ UNCHANGED <<page, param, shown, busy, secret, server, acts, sent, acked,
                       mixed, left>>
        /\ open' = "no" /\ net' = {}
    BY <1>6, Zenon DEF Leave
  <2>. QED
    BY <2>1 DEF TypeInv, TypeOK
<1>7. ASSUME PutAway PROVE TypeInv'
  BY <1>7, TypePutAway
<1>8. ASSUME Hide PROVE TypeInv'
  <2>1. /\ UNCHANGED <<page, open, param, shown, busy, net, server, sent, acked,
                       mixed, left>>
        /\ acts' = acts + 1 /\ secret' = NoSecret
    BY <1>8, HideFacts
  <2>2. TypeOK'
    BY <2>1 DEF TypeInv, TypeOK, NoSecret
  <2>. QED
    BY <2>1, <2>2 DEF TypeInv, Fits, RowFits, IsList, OwnHold
<1>. QED
  BY <1>2, <1>3, <1>4, <1>5, <1>6, <1>7, <1>8 DEF User

\* Every operation but those without a row has one, once it succeeded.
LEMMA SecretRow ==
  ASSUME TypeInv, NEW m \in net, m.ok
  PROVE  /\ m.op.secret \/ m.op.ends # "no" => m.row \in Rows
         /\ ~IsList(m) /\ m.op.kind \notin {"all", "order"} => m.row \in Rows
<1>1. CASE IsList(m)
  BY <1>1 DEF TypeInv, Fits
<1>2. CASE ~IsList(m)
  <2>1. m.op \in page.ops /\ RowFits(m)
    BY <1>2 DEF TypeInv, Fits
  <2>2. /\ m.op.secret => m.op.kind \notin {"all", "order"}
        /\ m.op.ends # "no" => m.op.kind \in {"change", "remove"}
    BY <1>2, <2>1, PageFits DEF TypeInv, ListFits
  <2>. QED
    BY <2>1, <2>2 DEF RowFits, Rowless
<1>. QED
  BY <1>1, <1>2

LEMMA TypeWork ==
  ASSUME TypeInv, OneListing, NEW m \in net, Work(m) \/ Lose(m)
  PROVE  TypeInv'
<1>. USE TypeParts
<1>1. ASSUME Serve(m) PROVE TypeInv'
  <2>1. PICK n, r : ServedAs(m, n, r)
    BY <1>1, ServeFacts
  <2>2. /\ server' \in [ver : [Rows -> Nat], there : SUBSET Rows, key : [Rows -> Nat],
                 ended : SUBSET Rows]
        /\ UNCHANGED <<page, open, param, shown, busy, secret, acts, sent, acked,
                       mixed, left>>
    BY <2>1, Zenon DEF ServedAs
  <2>3. net' \subseteq CallType /\ (\A k \in net' : Fits(k)') /\ sent' \in Nat
    BY <2>1, <2>2, ServeSwaps, TypeSwap
  <2>. QED
    BY <2>2, <2>3 DEF TypeInv, TypeOK
<1>2. ASSUME Refuse(m) \/ Lose(m) PROVE TypeInv'
  <2>1. /\ UNCHANGED <<page, open, param, shown, busy, secret, server, sent, acked, left>>
        /\ acts' \in Nat
    <3>1. CASE Refuse(m)
      BY <3>1 DEF Refuse
    <3>2. CASE Lose(m)
      BY <3>2 DEF Lose
    <3>. QED
      BY <1>2, <3>1, <3>2
  <2>2. PICK n : n = Answer(m, FALSE)
    OBVIOUS
  <2>3. SwapAs({m}, n)
    BY <1>2, <2>2, RefuseSwaps
  <2>4. net' \subseteq CallType /\ (\A k \in net' : Fits(k)') /\ sent' \in Nat
    BY <2>1, <2>3, TypeSwap
  <2>5. mixed' \subseteq Rows
    <3>1. CASE Refuse(m)
      BY <3>1 DEF Refuse
    <3>2. CASE Lose(m)
      <4>1. mixed' = Mixed(m) /\ m.ok
        BY <3>2, Zenon DEF Lose
      <4>2. m.op.secret => m.row \in Rows
        BY <4>1, SecretRow
      <4>. QED
        BY <4>1, <4>2 DEF Mixed
    <3>. QED
      BY <1>2, <3>1, <3>2
  <2>. QED
    BY <2>1, <2>4, <2>5 DEF TypeInv, TypeOK
<1>. QED
  BY <1>1, <1>2 DEF Work

LEMMA SplicedFields ==
  ASSUME NEW c \in CopyType, NEW m \in CallType
  PROVE  /\ Spliced(c, m) \in CopyType
         /\ Spliced(c, m).known = c.known /\ Spliced(c, m).valid = c.valid
         /\ Spliced(c, m).failed = c.failed /\ Spliced(c, m).param = c.param
         /\ c.late => Spliced(c, m).late
         /\ m.passed => Spliced(c, m).late
         /\ Spliced(c, m).ver =
              [r \in Rows |-> IF r \in Told(m) THEN m.ver[r] ELSE c.ver[r]]
         /\ Spliced(c, m).there = (c.there \ {m.row}) \union ({m.row} \intersect m.there)
         /\ Spliced(c, m).guess = c.guess \ {m.row}
<1>1. PICK x : x = Spliced(c, m)
  OBVIOUS
<1>2. PICK b, v, t, g :
        /\ b = (c.late \/ m.passed)
        /\ v = [r \in Rows |-> IF r \in Told(m) THEN m.ver[r] ELSE c.ver[r]]
        /\ t = (c.there \ {m.row}) \union ({m.row} \intersect m.there)
        /\ g = c.guess \ {m.row}
  OBVIOUS
<1>3. x = [c EXCEPT !.ver = v, !.there = t, !.late = b, !.guess = g]
  BY <1>1, <1>2 DEF Spliced, CopyType
<1>4. b \in BOOLEAN /\ v \in [Rows -> Nat] /\ t \in SUBSET Rows /\ g \in SUBSET Rows
  BY <1>2 DEF CopyType, CallType
<1>5. /\ x \in CopyType /\ x.known = c.known /\ x.valid = c.valid
      /\ x.failed = c.failed /\ x.param = c.param
      /\ x.late = b /\ x.ver = v /\ x.there = t /\ x.guess = g
  BY <1>3, <1>4 DEF CopyType
<1>6. (c.late => b) /\ (m.passed => b)
  BY <1>2
<1>. QED
  BY <1>1, <1>2, <1>5, <1>6

LEMMA StaleIs ==
  ASSUME shown \in [Params -> CopyType]
  PROVE  /\ Stale \in [Params -> CopyType]
         /\ \A p \in Params :
              /\ Stale[p].known = shown[p].known /\ ~Stale[p].valid
              /\ Stale[p].failed = shown[p].failed /\ Stale[p].late = shown[p].late
              /\ Stale[p].param = shown[p].param /\ Stale[p].ver = shown[p].ver
              /\ Stale[p].there = shown[p].there /\ Stale[p].guess = shown[p].guess
<1>1. ASSUME NEW p \in Params, NEW x, x = [shown[p] EXCEPT !.valid = FALSE]
      PROVE  /\ x \in CopyType
             /\ x.known = shown[p].known /\ ~x.valid
             /\ x.failed = shown[p].failed /\ x.late = shown[p].late
             /\ x.param = shown[p].param /\ x.ver = shown[p].ver
             /\ x.there = shown[p].there /\ x.guess = shown[p].guess
  <2>1. shown[p] \in CopyType
    OBVIOUS
  <2>. QED
    BY <1>1, <2>1 DEF CopyType
<1>. QED
  BY <1>1, Zenon DEF Stale

LEMMA ListedShows ==
  ASSUME TypeInv, NEW m \in net, Listed(m)
  PROVE  \E e \in CopyType :
           /\ shown' = [shown EXCEPT ![Place(m.param)] = e]
           /\ m.ok => /\ e.known /\ ~e.failed /\ e.late = m.passed
                      /\ e.param = m.param /\ e.ver = m.ver /\ e.guess = {}
                      /\ e.there = m.there
           /\ ~m.ok => /\ e.failed
                       /\ e.known = shown[Place(m.param)].known
                       /\ e.valid = shown[Place(m.param)].valid
                       /\ e.param = shown[Place(m.param)].param
                       /\ e.guess = shown[Place(m.param)].guess
                       /\ e.there \subseteq shown[Place(m.param)].there
<1>. DEFINE q == Place(m.param)
<1>1. m \in CallType /\ q \in Params /\ shown \in [Params -> CopyType]
      /\ shown[q] \in CopyType
  BY TypeParts, BlankIs DEF Place, CallType
<1>2. PICK gone \in BOOLEAN :
        shown' = [shown EXCEPT ![Place(m.param)] =
          IF m.ok THEN [known |-> TRUE, valid |-> TRUE, failed |-> FALSE,
                        late |-> m.passed, param |-> m.param, ver |-> m.ver,
                        there |-> m.there, guess |-> {}]
          ELSE Failing(@, gone)]
  BY Zenon DEF Listed
<1>3. PICK a, b :
        /\ a = [known |-> TRUE, valid |-> TRUE, failed |-> FALSE,
                late |-> m.passed, param |-> m.param, ver |-> m.ver,
                there |-> m.there, guess |-> {}]
        /\ b = Failing(shown[q], gone)
  OBVIOUS
<1>4. shown' = [shown EXCEPT ![q] = IF m.ok THEN a ELSE b]
  BY <1>2, <1>3
<1>5. /\ a \in CopyType /\ a.known /\ ~a.failed /\ a.late = m.passed
      /\ a.param = m.param /\ a.ver = m.ver /\ a.guess = {} /\ a.there = m.there
  BY <1>1, <1>3 DEF CopyType, CallType
<1>6. /\ b \in CopyType /\ b.failed /\ b.known = shown[q].known
      /\ b.valid = shown[q].valid /\ b.param = shown[q].param
      /\ b.guess = shown[q].guess /\ b.there \subseteq shown[q].there
  BY <1>1, <1>3 DEF CopyType, Failing
<1>7. PICK e : e = IF m.ok THEN a ELSE b
  OBVIOUS
<1>8. shown' = [shown EXCEPT ![q] = e]
  BY <1>4, <1>7
<1>9. (m.ok => e = a) /\ (~m.ok => e = b)
  BY <1>7
<1>10. e \in CopyType
  BY <1>5, <1>6, <1>9
<1>. QED
  BY <1>5, <1>6, <1>8, <1>9, <1>10

\* What LookAgain(m) does, beside its listing.
LEMMA LookFacts ==
  ASSUME NEW m, LookAgain(m)
  PROVE  /\ UNCHANGED <<page, open, param, shown, busy, secret, server, acked, mixed, left>>
         /\ Here /\ IsList(m) /\ m.ok /\ acts' = acts + 1
         /\ \E op \in page.ops : op.frees = "listed"
BY Zenon DEF LookAgain

LEMMA TypeHear ==
  ASSUME TypeInv, OneListing, NEW m \in net, Hear(m)
  PROVE  TypeInv'
<1>. USE TypeParts
<1>1. Place(param) \in Params /\ Place(m.param) \in Params /\ m \in CallType /\ Fits(m)
  BY BlankIs DEF Place, CallType, TypeInv
<1>2. page' = page =>
        /\ net' \subseteq CallType /\ (\A k \in net' : Fits(k)') /\ sent' \in Nat
        /\ busy' \in [Locks -> [row : Rows \union {Nobody}, id : Nat]]
  BY AnswerHeard, TypeHeard
<1>3. ASSUME Listed(m) PROVE TypeInv'
  <2>1. UNCHANGED <<page, open, param, secret, server, acts, sent, acked, mixed, left>>
    BY <1>3, Zenon DEF Listed
  <2>2. shown' \in [Params -> CopyType]
    BY <1>1, <1>3, ListedShows
  <2>. QED
    BY <1>2, <2>1, <2>2 DEF TypeInv, TypeOK
<1>4. ASSUME Done(m) PROVE TypeInv'
  <2>. DEFINE q == Place(param)
  <2>1. /\ UNCHANGED <<page, param, server, acts, mixed>>
        /\ ~IsList(m) /\ m.ok
        /\ open' = IF m.op.after = "leave" THEN "leaving" ELSE open
        /\ secret' = Secret(m)
        /\ acked' = [r \in Rows |->
                       IF Changes(m) /\ r \in Told(m) /\ m.ver[r] > acked[r]
                         THEN m.ver[r] ELSE acked[r]]
        /\ left' = IF m.op.after = "leave" /\ m.op.frees = "failure"
                     THEN [left EXCEPT ![m.op.lock] = sent] ELSE left
        /\ shown' = CASE m.op.after = "splice" /\ shown[q].known /\ Changes(m) ->
                           [shown EXCEPT ![q] = Spliced(@, m)]
                      [] m.op.after \in {"refresh", "invalidate"} -> Stale
                      [] OTHER -> shown
    BY <1>4, Zenon DEF Done
  <2>3. secret' \in [row : Rows \union {Nobody}, key : Nat]
    BY <1>1, <2>1 DEF Secret, CallType, NoSecret
  <2>4. acked' \in [Rows -> Nat] /\ left' \in [Locks -> Nat]
    BY <1>1, <2>1 DEF CallType
  <2>5. [shown EXCEPT ![q] = Spliced(@, m)] \in [Params -> CopyType]
    <3>1. shown[q] \in CopyType
      BY <1>1
    <3>2. Spliced(shown[q], m) \in CopyType
      BY <1>1, <3>1, SplicedFields
    <3>. QED
      BY <1>1, <3>2
  <2>7. shown' \in [Params -> CopyType]
    BY <2>1, <2>5, StaleIs, Zenon
  <2>8. open' \in {"yes", "leaving", "no"}
    BY <2>1
  <2>. QED
    BY <1>2, <2>1, <2>3, <2>4, <2>7, <2>8 DEF TypeInv, TypeOK
<1>5. ASSUME Failed(m) PROVE TypeInv'
  <2>1. /\ UNCHANGED <<page, open, param, secret, server, acts, acked, mixed, left>>
        /\ shown' = shown \/ shown' = Stale
    BY <1>5, Zenon DEF Failed
  <2>. QED
    BY <1>2, <2>1, StaleIs DEF TypeInv, TypeOK
<1>6. ASSUME LookAgain(m) PROVE TypeInv'
  <2>1. /\ UNCHANGED <<page, open, param, shown, secret, server, acked, mixed, left>>
        /\ acts' = acts + 1
    BY <1>6, LookFacts
  <2>. QED
    BY <1>2, <2>1 DEF TypeInv, TypeOK
<1>. QED
  BY <1>3, <1>4, <1>5, <1>6 DEF Hear

LEMMA TypeNext ==
  ASSUME TypeInv, OneListing, [Next]_vars
  PROVE  TypeInv'
<1>1. CASE Next
  BY <1>1, TypeUser, TypeWork, TypeHear DEF Next
<1>2. CASE UNCHANGED vars
  <2>1. TypeOK'
    BY <1>2 DEF vars, TypeInv, TypeOK
  <2>. QED
    BY <1>2, <2>1 DEF vars, TypeInv, Fits, RowFits, IsList, OwnHold
<1>. QED
  BY <1>1, <1>2

(***************************************************************************)
(* Flags.                                                                  *)
(***************************************************************************)
\* Hold h of call x, once m is heard, is what is left of hold g of call k.
LeftOf(m, locks, gone, add, x, h, k, g) ==
  /\ k \in net /\ g \in k.holds
  /\ \/ k \notin gone /\ x = Later(k, m, locks) /\ h = Mark(g, locks, AnyRow)
     \/ k \in gone /\ x \in add /\ h = g /\ g.lock \notin locks

LEMMA HeardHolds ==
  ASSUME TypeInv, NEW m \in net, NEW locks, NEW gone, NEW add,
         HeardAs(m, locks, gone, add), NEW x \in net', NEW h \in x.holds
  PROVE  \E k, g : LeftOf(m, locks, gone, add, x, h, k, g)
<1>1. /\ gone \subseteq net
      /\ net' = {Later(k, m, locks) : k \in net \ gone} \union add
      /\ \A n \in add : n.holds = {g \in Held(gone) : g.lock \notin locks}
  BY DEF HeardAs
<1>2. CASE x \in add
  <2>1. h \in Held(gone) /\ h.lock \notin locks
    BY <1>1, <1>2
  <2>2. PICK k \in gone : h \in k.holds
    BY <2>1 DEF Held
  <2>3. LeftOf(m, locks, gone, add, x, h, k, h)
    BY <1>1, <1>2, <2>1, <2>2 DEF LeftOf
  <2>. QED
    BY <2>3
<1>3. CASE x \notin add
  <2>1. PICK k \in net \ gone : x = Later(k, m, locks)
    BY <1>1, <1>3
  <2>2. k \in CallType
    BY DEF TypeInv, TypeOK
  <2>3. x.holds = {Mark(g, locks, AnyRow) : g \in k.holds}
    BY <2>1, <2>2, LaterFields
  <2>4. PICK g \in k.holds : h = Mark(g, locks, AnyRow)
    BY <2>3
  <2>5. LeftOf(m, locks, gone, add, x, h, k, g)
    BY <2>1, <2>4 DEF LeftOf
  <2>. QED
    BY <2>5
<1>. QED
  BY <1>2, <1>3

LEMMA LeftFields ==
  ASSUME TypeInv, NEW m \in net, NEW locks, NEW gone, NEW add, NEW x, NEW h, NEW k, NEW g,
         m \in gone, LeftOf(m, locks, gone, add, x, h, k, g)
  PROVE  /\ k \in net /\ g \in k.holds
         /\ h.id = g.id /\ h.lock = g.lock /\ h.row = g.row /\ h.slot = g.slot
         /\ h.frees = g.frees
         /\ g.lock \in Locks
         /\ ~h.ousted => ~g.ousted /\ (g.lock \in locks => g.slot = "no" /\ k # m)
<1>1. k \in net /\ g \in k.holds
  BY DEF LeftOf
<1>2. g \in HoldType /\ (g.slot \in {"plain", "latest"} => g.row \in Rows)
  BY <1>1, HoldFits
<1>3. CASE k \notin gone /\ h = Mark(g, locks, AnyRow)
  <2>1. /\ h.lock = g.lock /\ h.id = g.id /\ h.row = g.row /\ h.slot = g.slot
        /\ h.frees = g.frees
        /\ h.ousted = (g.ousted \/ (g.slot # "no" /\ g.lock \in locks /\ g.row \in AnyRow))
    BY <1>2, <1>3, MarkFields
  <2>2. ~h.ousted => ~g.ousted /\ (g.lock \in locks => g.slot = "no" /\ k # m)
    <3>1. g.row \in AnyRow
      BY <1>2 DEF HoldType, AnyRow
    <3>. QED
      BY <1>2, <1>3, <2>1, <3>1
  <2>. QED
    BY <1>1, <1>2, <2>1, <2>2 DEF HoldType
<1>4. CASE h = g /\ g.lock \notin locks
  BY <1>1, <1>2, <1>4 DEF HoldType
<1>. QED
  BY <1>3, <1>4 DEF LeftOf

LEMMA SameSlot ==
  ASSUME TypeInv, NEW k \in net, NEW g \in k.holds, NEW m \in net, NEW h \in m.holds,
         g.lock = h.lock
  PROVE  g.slot = "no" <=> h.slot = "no"
<1>1. PICK o \in page.ops : g.lock = o.lock /\ g.slot = o.slot
  BY HoldFits
<1>2. PICK p \in page.ops : h.lock = p.lock /\ h.slot = p.slot
  BY HoldFits
<1>3. FlagsFit(page)
  BY PageFits DEF TypeInv
<1>4. o.slot = "no" <=> p.slot = "no"
  <2>1. o.lock = p.lock
    BY <1>1, <1>2
  <2>. QED
    BY <1>3, <2>1, Zenon DEF FlagsFit
<1>. QED
  BY <1>1, <1>2, <1>4

LEMMA ApartHeard ==
  ASSUME TypeInv, HoldsApart, NEW m \in net, NEW locks, NEW gone, NEW add,
         HeardAs(m, locks, gone, add)
  PROVE  HoldsApart'
<1>1. SUFFICES ASSUME NEW x \in net', NEW y \in net', NEW g \in x.holds, NEW h \in y.holds,
                      g.id = h.id
               PROVE  x = y /\ g = h
  BY DEF HoldsApart
<1>2. PICK k1, g1 : LeftOf(m, locks, gone, add, x, g, k1, g1)
  BY HeardHolds
<1>3. PICK k2, h2 : LeftOf(m, locks, gone, add, y, h, k2, h2)
  BY HeardHolds
<1>4. m \in gone /\ \A n \in add : add = {n}
  BY DEF HeardAs
<1>5. k1 \in net /\ g1 \in k1.holds /\ g.id = g1.id
  BY <1>2, <1>4, LeftFields
<1>6. k2 \in net /\ h2 \in k2.holds /\ h.id = h2.id
  BY <1>3, <1>4, LeftFields
<1>7. k1 = k2 /\ g1 = h2
  BY <1>1, <1>5, <1>6 DEF HoldsApart
<1>. QED
  BY <1>2, <1>3, <1>4, <1>7 DEF LeftOf

LEMMA HeldHeard ==
  ASSUME TypeInv, HoldsApart, FlagsHeld, NEW m \in net, NEW locks, NEW gone, NEW add,
         HeardAs(m, locks, gone, add), page' = page
  PROVE  FlagsHeld'
<1>1. SUFFICES ASSUME NEW x \in net', NEW h \in x.holds, ~h.ousted, Guarded(h.lock)
               PROVE  busy'[h.lock] = [row |-> h.row, id |-> h.id]
  BY DEF FlagsHeld, Guarded
<1>2. PICK k, g : LeftOf(m, locks, gone, add, x, h, k, g)
  BY HeardHolds
<1>3. /\ m \in gone /\ locks \subseteq Cleared(m)
      /\ busy' = [l \in Locks |-> IF l \in locks THEN Idle ELSE busy[l]]
  BY DEF HeardAs
<1>4. /\ k \in net /\ g \in k.holds
      /\ h.id = g.id /\ h.lock = g.lock /\ h.row = g.row /\ g.lock \in Locks
      /\ ~g.ousted /\ (g.lock \in locks => g.slot = "no" /\ k # m)
  BY <1>1, <1>2, <1>3, LeftFields
<1>5. busy[g.lock] = [row |-> g.row, id |-> g.id]
  BY <1>1, <1>4 DEF FlagsHeld
<1>6. g.lock \notin locks
  <2>1. SUFFICES ASSUME g.lock \in locks PROVE FALSE
    OBVIOUS
  <2>2. PICK c \in m.holds : c.lock = g.lock
    BY <1>3, <2>1 DEF Cleared
  <2>3. c.slot = "no"
    BY <1>4, <2>1, <2>2, SameSlot
  <2>4. ~c.ousted
    BY <2>3, HoldFits
  <2>5. busy[g.lock] = [row |-> c.row, id |-> c.id]
    BY <1>1, <1>4, <2>2, <2>4 DEF FlagsHeld
  <2>6. c.id = g.id
    BY <1>5, <2>5
  <2>. QED
    BY <1>4, <2>1, <2>2, <2>6 DEF HoldsApart
<1>. QED
  BY <1>3, <1>4, <1>5, <1>6

LEMMA FormsHeard ==
  ASSUME TypeInv, HoldsApart, FlagsHeld, FormsLeft, NEW m \in net, NEW locks,
         NEW gone, NEW add, HeardAs(m, locks, gone, add), page' = page,
         \/ left' = left
         \/ /\ ~IsList(m) /\ m.ok /\ m.op.frees = "failure"
            /\ left' = [left EXCEPT ![m.op.lock] = sent]
  PROVE  FormsLeft'
<1>1. SUFFICES ASSUME NEW l \in Locks, left'[l] > 0,
                      \A op \in page.ops : op.lock = l => op.slot = "no"
               PROVE  busy'[l] # Idle /\ \A x \in net' : \A h \in x.holds : h.lock # l
  BY DEF FormsLeft, Held
<1>2. /\ m \in gone /\ locks \subseteq Cleared(m)
      /\ busy' = [k \in Locks |-> IF k \in locks THEN Idle ELSE busy[k]]
      /\ \A n \in add : /\ n.holds = {h \in Held(gone) : h.lock \notin locks}
                        /\ \A h \in n.holds : h.frees # "failure"
  BY DEF HeardAs
<1>3. CASE left'[l] = left[l]
  <2>1. busy[l] # Idle /\ \A k \in net : \A g \in k.holds : g.lock # l
    BY <1>1, <1>3 DEF FormsLeft, Held
  <2>2. l \notin locks
    BY <1>2, <2>1 DEF Cleared
  <2>3. ASSUME NEW x \in net', NEW h \in x.holds PROVE h.lock # l
    <3>1. PICK k, g : LeftOf(m, locks, gone, add, x, h, k, g)
      BY HeardHolds
    <3>. QED
      BY <1>2, <2>1, <3>1, LeftFields
  <2>. QED
    BY <1>2, <2>1, <2>2, <2>3
<1>4. CASE left'[l] # left[l]
  <2>1. /\ ~IsList(m) /\ m.ok /\ m.op.frees = "failure"
        /\ left' = [left EXCEPT ![m.op.lock] = sent]
    BY <1>4
  <2>2. l = m.op.lock
    BY <1>4, <2>1, TypeParts
  <2>3. l # "none"
    BY DEF Locks
  <2>4. OwnHold(m) /\ m.op \in page.ops
    BY <2>1 DEF TypeInv, Fits
  <2>5. PICK c \in m.holds : /\ m.holds = {c} /\ c.lock = l /\ c.slot = m.op.slot
                             /\ c.frees = "failure"
    BY <2>1, <2>2, <2>3, <2>4 DEF OwnHold
  <2>6. Guarded(l)
    BY <1>1, <2>3, PageFits DEF TypeInv, FlagsFit, Guarded
  <2>7. c.slot = "no" /\ ~c.ousted /\ c.id \in 1..sent
    BY <1>1, <2>2, <2>4, <2>5, HoldFits
  <2>8. busy[l] = [row |-> c.row, id |-> c.id]
    BY <2>5, <2>6, <2>7 DEF FlagsHeld
  <2>9. Cleared(m) = {}
    BY <2>1, <2>5 DEF Cleared, Clears
  <2>10. locks = {}
    BY <1>2, <2>9
  <2>11. add = {}
    BY <1>2, <2>5, <2>10 DEF Held
  <2>12. busy'[l] # Idle
    <3>1. busy'[l] = [row |-> c.row, id |-> c.id]
      BY <1>2, <2>8, <2>10
    <3>2. c.id # 0
      BY <2>7, TypeParts
    <3>. QED
      BY <3>1, <3>2 DEF Idle
  <2>13. ASSUME NEW x \in net', NEW h \in x.holds, h.lock = l PROVE FALSE
    <3>1. PICK k, g : LeftOf(m, locks, gone, add, x, h, k, g)
      BY HeardHolds
    <3>2. k \in net /\ g \in k.holds /\ g.lock = l
      BY <1>2, <2>13, <3>1, LeftFields
    <3>3. k \notin gone
      BY <2>11, <3>1 DEF LeftOf
    <3>4. g.slot = "no"
      BY <2>5, <2>7, <3>2, SameSlot
    <3>5. ~g.ousted
      BY <3>2, <3>4, HoldFits
    <3>6. busy[l] = [row |-> g.row, id |-> g.id]
      BY <2>6, <3>2, <3>5 DEF FlagsHeld
    <3>7. g.id = c.id
      BY <2>8, <3>6
    <3>8. k = m
      BY <2>5, <3>2, <3>7 DEF HoldsApart
    <3>. QED
      BY <1>2, <3>3, <3>8
  <2>. QED
    BY <2>12, <2>13
<1>. QED
  BY <1>3, <1>4

LEMMA EndHeard ==
  ASSUME TypeInv, LocksEnd, NEW m \in net, NEW locks, NEW gone, NEW add,
         HeardAs(m, locks, gone, add), page' = page,
         open' = "yes" => /\ open = "yes"
                          /\ m.ok /\ ~IsList(m) => \A h \in m.holds : h.frees # "failure"
  PROVE  LocksEnd'
<1>1. SUFFICES ASSUME open' = "yes", NEW l \in Locks, busy'[l] # Idle,
                      ~ \E op \in page.ops : op.lock = l /\ op.frees = "listed"
               PROVE  \E x \in net' : \E h \in x.holds : h.lock = l /\ h.id = busy'[l].id
  BY DEF LocksEnd, Held
<1>2. /\ gone \subseteq net /\ m \in gone
      /\ net' = {Later(k, m, locks) : k \in net \ gone} \union add
      /\ busy' = [k \in Locks |-> IF k \in locks THEN Idle ELSE busy[k]]
      /\ add = {} => gone = {m} /\ locks = Cleared(m)
      /\ \A n \in add : n.holds = {h \in Held(gone) : h.lock \notin locks}
  BY DEF HeardAs
<1>3. l \notin locks /\ busy'[l] = busy[l] /\ busy[l] # Idle
  BY <1>1, <1>2
<1>4. PICK k \in net : \E g \in k.holds : g.lock = l /\ g.id = busy[l].id
  BY <1>1, <1>3 DEF LocksEnd, Held
<1>5. PICK g \in k.holds : g.lock = l /\ g.id = busy[l].id
  BY <1>4
<1>6. CASE k \notin gone
  <2>1. PICK x : x = Later(k, m, locks)
    OBVIOUS
  <2>2. k \in CallType /\ g \in HoldType
    BY HoldFits, TypeParts
  <2>3. x \in net' /\ x.holds = {Mark(h, locks, AnyRow) : h \in k.holds}
    BY <1>2, <1>6, <2>1, <2>2, LaterFields
  <2>4. PICK h : h = Mark(g, locks, AnyRow)
    OBVIOUS
  <2>5. h \in x.holds /\ h.lock = g.lock /\ h.id = g.id
    BY <2>2, <2>3, <2>4, MarkFields
  <2>. QED
    BY <1>3, <1>5, <2>3, <2>5
<1>7. CASE k \in gone /\ add # {}
  <2>1. PICK n \in add : TRUE
    BY <1>7
  <2>2. g \in n.holds /\ n \in net'
    BY <1>2, <1>3, <1>5, <1>7, <2>1 DEF Held
  <2>. QED
    BY <1>3, <1>5, <2>2
<1>8. CASE k \in gone /\ add = {}
  <2>1. k = m /\ locks = Cleared(m)
    BY <1>2, <1>8
  <2>2. ~Clears(m, g)
    BY <1>3, <1>5, <2>1 DEF Cleared
  <2>3. g.frees # "listed" /\ g \in HoldType
    BY <1>1, <1>5, HoldFits
  <2>4. m.ok => IsList(m) \/ g.frees # "failure"
    BY <1>1, <2>1
  <2>5. IsList(m) => g.frees # "failure"
    BY <2>1 DEF TypeInv, Fits
  <2>. QED
    BY <1>5, <2>2, <2>3, <2>4, <2>5 DEF Clears, HoldType
<1>. QED
  BY <1>6, <1>7, <1>8

LEMMA ListingHeard ==
  ASSUME TypeInv, OneListing, NEW m \in net, NEW locks, NEW gone, NEW add,
         HeardAs(m, locks, gone, add), page' = page
  PROVE  OneListing'
<1>1. SUFFICES ASSUME Querying, NEW x \in net', NEW y \in net', IsList(x), IsList(y),
                      x.param = y.param
               PROVE  x = y
  BY DEF OneListing, Querying, IsList
<1>2. /\ gone \subseteq net
      /\ net' = {Later(k, m, locks) : k \in net \ gone} \union add
      /\ \A n \in add : /\ add = {n} /\ n.param = param
                        /\ \A k \in net \ gone : ~(IsList(k) /\ k.param = param)
  BY <1>1 DEF HeardAs
<1>3. ASSUME NEW k \in net, NEW z, z = Later(k, m, locks), IsList(z)
      PROVE  IsList(k) /\ k.param = z.param
  <2>1. k \in CallType
    BY TypeParts
  <2>2. z.op = k.op /\ z.param = k.param
    BY <1>3, <2>1, LaterFields
  <2>. QED
    BY <1>3, <2>2 DEF IsList
<1>4. CASE x \in add \/ y \in add
  BY <1>1, <1>2, <1>3, <1>4
<1>5. CASE x \notin add /\ y \notin add
  <2>1. PICK k \in net \ gone : x = Later(k, m, locks)
    BY <1>2, <1>5
  <2>2. PICK j \in net \ gone : y = Later(j, m, locks)
    BY <1>2, <1>5
  <2>3. k = j
    BY <1>1, <1>3, <2>1, <2>2 DEF OneListing
  <2>. QED
    BY <2>1, <2>2, <2>3
<1>. QED
  BY <1>4, <1>5

LEMMA FlagsHear ==
  ASSUME TypeInv, FlagInv, NEW m \in net, Hear(m)
  PROVE  FlagInv'
<1>1. /\ OneListing /\ HoldsApart /\ FlagsHeld /\ FormsLeft /\ LocksEnd
  BY DEF FlagInv
<1>2. PICK locks, gone, add : HeardAs(m, locks, gone, add)
  BY <1>1, AnswerHeard
<1>3. page' = page
  BY DEF Hear, Listed, LookAgain, Done, Failed
<1>4. \/ left' = left
      \/ /\ ~IsList(m) /\ m.ok /\ m.op.frees = "failure"
         /\ left' = [left EXCEPT ![m.op.lock] = sent]
  <2>1. CASE Done(m)
    BY <2>1, Zenon DEF Done
  <2>2. CASE Listed(m) \/ Failed(m)
    BY <2>2, Zenon DEF Listed, Failed
  <2>3. CASE LookAgain(m)
    BY <2>3, LookFacts
  <2>. QED
    BY <2>1, <2>2, <2>3 DEF Hear
<1>5. open' = "yes" => /\ open = "yes"
                       /\ m.ok /\ ~IsList(m) => \A h \in m.holds : h.frees # "failure"
  <2>1. CASE Done(m)
    <3>1. open' = IF m.op.after = "leave" THEN "leaving" ELSE open
      BY <2>1, Zenon DEF Done
    <3>. QED
      BY <3>1, FormsSay
  <2>2. CASE Listed(m)
    <3>1. open' = open /\ IsList(m)
      BY <2>2, Zenon DEF Listed
    <3>. QED
      BY <3>1
  <2>3. CASE Failed(m)
    <3>1. open' = open /\ ~m.ok
      BY <2>3, Zenon DEF Failed
    <3>. QED
      BY <3>1
  <2>4. CASE LookAgain(m)
    <3>1. open' = open /\ IsList(m)
      BY <2>4, LookFacts
    <3>. QED
      BY <3>1
  <2>. QED
    BY <2>1, <2>2, <2>3, <2>4 DEF Hear
<1>6. OneListing'
  BY <1>1, <1>2, <1>3, ListingHeard
<1>7. HoldsApart'
  BY <1>1, <1>2, ApartHeard
<1>8. FlagsHeld'
  BY <1>1, <1>2, <1>3, HeldHeard
<1>9. FormsLeft'
  BY <1>1, <1>2, <1>3, <1>4, FormsHeard
<1>10. LocksEnd'
  BY <1>1, <1>2, <1>3, <1>5, EndHeard
<1>. QED
  BY <1>6, <1>7, <1>8, <1>9, <1>10 DEF FlagInv

LEMMA FlagsSwap ==
  ASSUME TypeInv, FlagInv, NEW gone, NEW n, SwapAs(gone, n),
         page' = page, open' = open, busy' = busy, left' = left
  PROVE  FlagInv'
<1>1. /\ OneListing /\ HoldsApart /\ FlagsHeld /\ FormsLeft /\ LocksEnd
  BY DEF FlagInv
<1>2. /\ gone \subseteq net /\ net' = (net \ gone) \union {n} /\ n.holds = Held(gone)
      /\ Querying /\ IsList(n) =>
           \A k \in net \ gone : ~(IsList(k) /\ k.param = n.param)
  BY DEF SwapAs
<1>3. ASSUME NEW x \in net', NEW h \in x.holds
      PROVE  \E k \in net : /\ h \in k.holds
                            /\ (k = x /\ k \notin gone) \/ (k \in gone /\ x = n)
  <2>1. CASE x = n
    BY <1>2, <2>1 DEF Held
  <2>2. CASE x # n
    BY <1>2, <2>2
  <2>. QED
    BY <2>1, <2>2
<1>4. OneListing'
  BY <1>1, <1>2 DEF OneListing, Querying, IsList
<1>5. HoldsApart'
  <2>1. SUFFICES ASSUME NEW x \in net', NEW y \in net', NEW g \in x.holds,
                        NEW h \in y.holds, g.id = h.id
                 PROVE  x = y /\ g = h
    BY DEF HoldsApart
  <2>2. PICK k \in net : /\ g \in k.holds
                         /\ (k = x /\ k \notin gone) \/ (k \in gone /\ x = n)
    BY <1>3
  <2>3. PICK j \in net : /\ h \in j.holds
                         /\ (j = y /\ j \notin gone) \/ (j \in gone /\ y = n)
    BY <1>3
  <2>4. k = j /\ g = h
    BY <1>1, <2>1, <2>2, <2>3 DEF HoldsApart
  <2>. QED
    BY <2>2, <2>3, <2>4
<1>6. FlagsHeld'
  BY <1>1, <1>3 DEF FlagsHeld, Guarded
<1>7. FormsLeft'
  BY <1>1, <1>3 DEF FormsLeft, Held
<1>8. LocksEnd'
  <2>1. ASSUME NEW k \in net, NEW h \in k.holds
        PROVE  \E x \in net' : h \in x.holds
    BY <1>2 DEF Held
  <2>. QED
    BY <1>1, <2>1 DEF LocksEnd, Held
<1>. QED
  BY <1>4, <1>5, <1>6, <1>7, <1>8 DEF FlagInv

\* Hold h of call x, once Start(op, r), is what is left of hold g of call k.
KeptOf(op, r, x, h, k, g) ==
  /\ k \in net /\ g \in k.holds
  /\ x = Marked(k, {op.lock}, Rows \ {r})
  /\ h = Mark(g, {op.lock}, Rows \ {r})

LEMMA StartHolds ==
  ASSUME TypeInv, NEW op, NEW r, NEW n, StartedAs(op, r, n), NEW x \in net',
         NEW h \in x.holds, x # n
  PROVE  \E k, g : KeptOf(op, r, x, h, k, g)
<1>1. net' = {Marked(k, {op.lock}, Rows \ {r}) : k \in net} \union {n}
  BY DEF StartedAs
<1>2. PICK k \in net : x = Marked(k, {op.lock}, Rows \ {r})
  BY <1>1
<1>3. PICK locks, rows : locks = {op.lock} /\ rows = Rows \ {r}
  OBVIOUS
<1>4. k \in CallType /\ x = Marked(k, locks, rows)
  BY <1>2, <1>3, TypeParts
<1>5. x.holds = {Mark(g, locks, rows) : g \in k.holds}
  BY <1>4, MarkedFields
<1>6. PICK g \in k.holds : h = Mark(g, locks, rows)
  BY <1>5
<1>7. h = Mark(g, {op.lock}, Rows \ {r})
  BY <1>3, <1>6
<1>. QED
  BY <1>2, <1>6, <1>7 DEF KeptOf

LEMMA KeptFields ==
  ASSUME TypeInv, NEW op, NEW r, NEW x, NEW h, NEW k, NEW g, KeptOf(op, r, x, h, k, g)
  PROVE  /\ k \in net /\ g \in k.holds /\ g.lock \in Locks
         /\ h.id = g.id /\ h.lock = g.lock /\ h.row = g.row /\ h.slot = g.slot
         /\ ~h.ousted => /\ ~g.ousted
                         /\ g.lock = op.lock /\ g.slot \in {"plain", "latest"} => g.row = r
<1>1. PICK locks, rows : locks = {op.lock} /\ rows = Rows \ {r}
  OBVIOUS
<1>2. k \in net /\ g \in k.holds /\ h = Mark(g, locks, rows)
  BY <1>1 DEF KeptOf
<1>3. g \in HoldType /\ (g.slot \in {"plain", "latest"} => g.row \in Rows)
  BY <1>2, HoldFits
<1>4. /\ h.lock = g.lock /\ h.id = g.id /\ h.row = g.row /\ h.slot = g.slot
      /\ h.ousted = (g.ousted \/ (g.slot # "no" /\ g.lock \in locks /\ g.row \in rows))
  BY <1>2, <1>3, MarkFields
<1>5. ~h.ousted => /\ ~g.ousted
                   /\ g.lock = op.lock /\ g.slot \in {"plain", "latest"} => g.row = r
  BY <1>1, <1>3, <1>4
<1>. QED
  BY <1>2, <1>3, <1>4, <1>5 DEF HoldType

LEMMA FlagsStart ==
  ASSUME TypeInv, FlagInv, NEW op, NEW r, NEW n, StartedAs(op, r, n),
         page' = page, open' = open, left' = left
  PROVE  FlagInv'
<1>1. /\ OneListing /\ HoldsApart /\ FlagsHeld /\ FormsLeft /\ LocksEnd
  BY DEF FlagInv
<1>2. /\ op \in page.ops /\ r \in Rows \union {Nobody} /\ Enabled(op, r)
      /\ net' = {Marked(k, {op.lock}, Rows \ {r}) : k \in net} \union {n}
      /\ busy' = IF op.lock = "none" THEN busy
                 ELSE [busy EXCEPT ![op.lock] = [row |-> r, id |-> sent + 1]]
      /\ ~IsList(n) /\ n.holds = Hold(op, r)
      /\ \A h \in n.holds :
           /\ h \in HoldType /\ h.lock = op.lock /\ h.id = sent + 1 /\ h.row = r
           /\ h.slot = op.slot /\ ~h.ousted
  BY DEF StartedAs
<1>3. sent \in Nat /\ busy \in [Locks -> [row : Rows \union {Nobody}, id : Nat]]
  BY TypeParts
<1>4. \A k \in net : \A h \in k.holds : h.id # sent + 1 /\ h.id # 0 /\ h.lock \in Locks
  BY <1>3, HoldFits DEF HoldType
<1>5. OneListing'
  <2>1. SUFFICES ASSUME Querying, NEW x \in net', NEW y \in net', IsList(x), IsList(y),
                        x.param = y.param
                 PROVE  x = y
    BY DEF OneListing, Querying, IsList
  <2>2. PICK locks, rows : locks = {op.lock} /\ rows = Rows \ {r}
    OBVIOUS
  <2>3. PICK k \in net : x = Marked(k, locks, rows)
    BY <1>2, <2>1, <2>2
  <2>4. PICK j \in net : y = Marked(j, locks, rows)
    BY <1>2, <2>1, <2>2
  <2>5. k \in CallType /\ j \in CallType
    BY TypeParts
  <2>6. x.op = k.op /\ x.param = k.param
    BY <2>3, <2>5, MarkedFields
  <2>7. y.op = j.op /\ y.param = j.param
    BY <2>4, <2>5, MarkedFields
  <2>8. k = j
    BY <1>1, <2>1, <2>6, <2>7 DEF OneListing, IsList
  <2>. QED
    BY <2>3, <2>4, <2>8
<1>6. HoldsApart'
  <2>1. SUFFICES ASSUME NEW x \in net', NEW y \in net', NEW g \in x.holds,
                        NEW h \in y.holds, g.id = h.id
                 PROVE  x = y /\ g = h
    BY DEF HoldsApart
  <2>2. CASE x = n /\ y = n
    <3>1. \A a, b \in Hold(op, r) : a = b
      BY DEF Hold
    <3>. QED
      BY <1>2, <2>2, <3>1
  <2>3. CASE x = n /\ y # n
    <3>1. PICK k, f : KeptOf(op, r, y, h, k, f)
      BY <2>3, StartHolds
    <3>2. k \in net /\ f \in k.holds /\ h.id = f.id
      BY <3>1, KeptFields
    <3>. QED
      BY <1>2, <1>4, <2>1, <2>3, <3>2
  <2>4. CASE x # n /\ y = n
    <3>1. PICK k, f : KeptOf(op, r, x, g, k, f)
      BY <2>4, StartHolds
    <3>2. k \in net /\ f \in k.holds /\ g.id = f.id
      BY <3>1, KeptFields
    <3>. QED
      BY <1>2, <1>4, <2>1, <2>4, <3>2
  <2>5. CASE x # n /\ y # n
    <3>1. PICK k, g1 : KeptOf(op, r, x, g, k, g1)
      BY <2>5, StartHolds
    <3>2. PICK j, h1 : KeptOf(op, r, y, h, j, h1)
      BY <2>5, StartHolds
    <3>4. /\ k \in net /\ g1 \in k.holds /\ g.id = g1.id
          /\ j \in net /\ h1 \in j.holds /\ h.id = h1.id
      BY <3>1, <3>2, KeptFields
    <3>3. k = j /\ g1 = h1
      BY <1>1, <2>1, <3>4 DEF HoldsApart
    <3>. QED
      BY <3>1, <3>2, <3>3 DEF KeptOf
  <2>. QED
    BY <2>2, <2>3, <2>4, <2>5
<1>7. FlagsHeld'
  <2>1. SUFFICES ASSUME NEW x \in net', NEW h \in x.holds, ~h.ousted, Guarded(h.lock)
                 PROVE  busy'[h.lock] = [row |-> h.row, id |-> h.id]
    BY DEF FlagsHeld, Guarded
  <2>2. CASE x = n
    <3>1. op.lock # "none"
      BY <1>2, <2>2 DEF Hold
    <3>2. op.lock \in Locks
      BY <1>2, <2>2 DEF HoldType
    <3>. QED
      BY <1>2, <1>3, <2>2, <3>1, <3>2
  <2>3. CASE x # n
    <3>5. PICK k, g : KeptOf(op, r, x, h, k, g)
      BY <2>3, StartHolds
    <3>1. /\ k \in net /\ g \in k.holds /\ g.lock \in Locks
          /\ h.id = g.id /\ h.lock = g.lock /\ h.row = g.row /\ h.slot = g.slot
          /\ ~g.ousted
          /\ g.lock = op.lock /\ g.slot \in {"plain", "latest"} => g.row = r
      BY <2>1, <3>5, KeptFields
    <3>2. busy[g.lock] = [row |-> g.row, id |-> g.id]
      BY <1>1, <2>1, <3>1 DEF FlagsHeld
    <3>3. g.lock # op.lock
      <4>1. SUFFICES ASSUME g.lock = op.lock PROVE FALSE
        OBVIOUS
      <4>2. op.lock \in op.needs
        BY <1>2, <2>1, <3>1, <4>1 DEF Guarded
      <4>3. IF op.slot \in {"plain", "latest"} THEN busy[op.lock].row # r
            ELSE busy[op.lock] = Idle
        BY <1>2, <4>2 DEF Enabled
      <4>4. PICK o \in page.ops : g.lock = o.lock /\ g.slot = o.slot
        BY <3>1, HoldFits
      <4>5. g.slot \in {"plain", "latest"} <=> op.slot \in {"plain", "latest"}
        <5>1. /\ g.slot = "no" <=> op.slot = "no"
              /\ g.slot = "away" <=> op.slot = "away"
          BY <1>2, <4>1, <4>4, PageFits DEF TypeInv, FlagsFit
        <5>2. /\ g.slot \in {"no", "plain", "latest", "away"}
              /\ op.slot \in {"no", "plain", "latest", "away"}
          BY <1>2, <4>4, PageFits DEF TypeInv, OpType
        <5>. QED
          BY <5>1, <5>2
      <4>6. CASE op.slot \notin {"plain", "latest"}
        <5>1. busy[op.lock].id = 0
          BY <4>3, <4>6 DEF Idle
        <5>2. busy[op.lock].id = g.id
          BY <3>2, <4>1
        <5>. QED
          BY <1>4, <3>1, <5>1, <5>2
      <4>7. CASE op.slot \in {"plain", "latest"}
        BY <3>1, <3>2, <4>1, <4>3, <4>5, <4>7
      <4>. QED
        BY <4>6, <4>7
    <3>. QED
      BY <1>2, <1>3, <3>1, <3>2, <3>3
  <2>. QED
    BY <2>2, <2>3
<1>8. FormsLeft'
  <2>1. SUFFICES ASSUME NEW l \in Locks, left[l] > 0,
                        \A o \in page.ops : o.lock = l => o.slot = "no"
                 PROVE  busy'[l] # Idle /\ \A x \in net' : \A h \in x.holds : h.lock # l
    BY DEF FormsLeft, Held
  <2>2. busy[l] # Idle /\ \A k \in net : \A g \in k.holds : g.lock # l
    BY <1>1, <2>1 DEF FormsLeft, Held
  <2>3. op.lock # l
    <3>1. SUFFICES ASSUME op.lock = l PROVE FALSE
      OBVIOUS
    <3>2. op.slot = "no" /\ op.lock # "none"
      BY <1>2, <2>1, <3>1 DEF Locks
    <3>3. op.lock \in op.needs
      BY <1>2, <3>2, PageFits DEF TypeInv, FlagsFit
    <3>. QED
      BY <1>2, <2>2, <3>1, <3>2, <3>3 DEF Enabled
  <2>4. ASSUME NEW x \in net', NEW h \in x.holds PROVE h.lock # l
    <3>1. CASE x = n
      BY <1>2, <2>3, <3>1
    <3>2. CASE x # n
      <4>1. PICK k, g : KeptOf(op, r, x, h, k, g)
        BY <3>2, StartHolds
      <4>2. k \in net /\ g \in k.holds /\ h.lock = g.lock
        BY <4>1, KeptFields
      <4>. QED
        BY <2>2, <4>2
    <3>. QED
      BY <3>1, <3>2
  <2>. QED
    BY <1>2, <1>3, <2>1, <2>2, <2>3, <2>4
<1>9. LocksEnd'
  <2>1. SUFFICES ASSUME open = "yes", NEW l \in Locks, busy'[l] # Idle,
                        ~ \E o \in page.ops : o.lock = l /\ o.frees = "listed"
                 PROVE  \E x \in net' : \E h \in x.holds : h.lock = l /\ h.id = busy'[l].id
    BY DEF LocksEnd, Held
  <2>2. CASE l = op.lock
    <3>1. op.lock # "none"
      BY <2>2 DEF Locks
    <3>2. busy'[l].id = sent + 1
      BY <1>2, <1>3, <2>2, <3>1
    <3>3. n.holds # {} /\ n \in net'
      BY <1>2, <3>1 DEF Hold
    <3>. QED
      BY <1>2, <2>2, <3>2, <3>3
  <2>3. CASE l # op.lock
    <3>1. busy'[l] = busy[l]
      BY <1>2, <1>3, <2>3
    <3>2. PICK k, g : k \in net /\ g \in k.holds /\ g.lock = l /\ g.id = busy[l].id
      BY <1>1, <2>1, <3>1 DEF LocksEnd, Held
    <3>3. PICK locks, rows : locks = {op.lock} /\ rows = Rows \ {r}
      OBVIOUS
    <3>4. PICK x, h : x = Marked(k, locks, rows) /\ h = Mark(g, locks, rows)
      OBVIOUS
    <3>5. k \in CallType /\ g \in HoldType
      BY <3>2, HoldFits, TypeParts
    <3>6. x.holds = {Mark(f, locks, rows) : f \in k.holds}
      BY <3>4, <3>5, MarkedFields
    <3>7. h.lock = g.lock /\ h.id = g.id
      BY <3>4, <3>5, MarkFields
    <3>8. x \in net'
      BY <1>2, <3>2, <3>3, <3>4
    <3>. QED
      BY <3>1, <3>2, <3>4, <3>6, <3>7, <3>8
  <2>. QED
    BY <2>2, <2>3
<1>. QED
  BY <1>5, <1>6, <1>7, <1>8, <1>9 DEF FlagInv

\* What can be put away is: its flag is cleared, and its calls lose it.
LEMMA FlagsPutAway ==
  ASSUME TypeInv, FlagInv, PutAway
  PROVE  FlagInv'
<1>1. /\ OneListing /\ HoldsApart /\ FlagsHeld /\ FormsLeft /\ LocksEnd
  BY DEF FlagInv
<1>2. /\ UNCHANGED <<page, open, left>>
      /\ busy' = [l \in Locks |-> IF l \in Away THEN Idle ELSE busy[l]]
      /\ net' = {Marked(k, Away, AnyRow) : k \in net}
  BY PutAwayFacts
<1>3. PICK locks, rows : locks = Away /\ rows = AnyRow
  OBVIOUS
<1>4. ASSUME NEW k \in net
      PROVE  /\ k \in CallType /\ Marked(k, locks, rows).op = k.op
             /\ Marked(k, locks, rows).param = k.param
             /\ Marked(k, locks, rows).holds = {Mark(g, locks, rows) : g \in k.holds}
  <2>1. k \in CallType
    BY TypeParts
  <2>. QED
    BY <2>1, MarkedFields
<1>5. ASSUME NEW k \in net, NEW g \in k.holds
      PROVE  /\ g.lock \in Locks
             /\ Mark(g, locks, rows).lock = g.lock /\ Mark(g, locks, rows).id = g.id
             /\ Mark(g, locks, rows).row = g.row
             /\ ~Mark(g, locks, rows).ousted => ~g.ousted /\ g.lock \notin Away
  <2>1. g \in HoldType
    BY HoldFits
  <2>2. PICK op \in page.ops : g.lock = op.lock /\ g.slot = op.slot
    BY HoldFits
  <2>3. g.lock \in Away => g.slot = "away"
    BY <2>2, AwayLocks
  <2>4. g.row \in rows
    BY <1>3, <2>1 DEF HoldType, AnyRow
  <2>5. /\ Mark(g, locks, rows).lock = g.lock /\ Mark(g, locks, rows).id = g.id
        /\ Mark(g, locks, rows).row = g.row
        /\ Mark(g, locks, rows).ousted =
             (g.ousted \/ (g.slot # "no" /\ g.lock \in locks /\ g.row \in rows))
    BY <2>1, MarkFields
  <2>. QED
    BY <1>3, <2>1, <2>3, <2>4, <2>5 DEF HoldType
<1>6. ASSUME NEW x \in net', NEW h \in x.holds
      PROVE  \E k \in net : \E g \in k.holds :
               x = Marked(k, locks, rows) /\ h = Mark(g, locks, rows)
  <2>1. PICK k \in net : x = Marked(k, locks, rows)
    BY <1>2, <1>3
  <2>2. PICK g \in k.holds : h = Mark(g, locks, rows)
    BY <1>4, <2>1
  <2>. QED
    BY <2>1, <2>2
<1>7. OneListing'
  <2>1. SUFFICES ASSUME Querying, NEW x \in net', NEW y \in net', IsList(x), IsList(y),
                        x.param = y.param
                 PROVE  x = y
    BY <1>2 DEF OneListing, Querying, IsList
  <2>2. PICK k \in net : x = Marked(k, locks, rows)
    BY <1>2, <1>3
  <2>3. PICK j \in net : y = Marked(j, locks, rows)
    BY <1>2, <1>3
  <2>4. IsList(k) /\ IsList(j) /\ k.param = j.param
    BY <1>4, <2>1, <2>2, <2>3 DEF IsList
  <2>5. k = j
    BY <1>1, <2>1, <2>4 DEF OneListing
  <2>. QED
    BY <2>2, <2>3, <2>5
<1>8. HoldsApart'
  <2>1. SUFFICES ASSUME NEW x \in net', NEW y \in net', NEW g \in x.holds,
                        NEW h \in y.holds, g.id = h.id
                 PROVE  x = y /\ g = h
    BY DEF HoldsApart
  <2>2. PICK k, f : k \in net /\ f \in k.holds /\ x = Marked(k, locks, rows) /\ g = Mark(f, locks, rows)
    BY <1>6
  <2>3. PICK j, e : j \in net /\ e \in j.holds /\ y = Marked(j, locks, rows) /\ h = Mark(e, locks, rows)
    BY <1>6
  <2>4. f.id = e.id
    BY <1>5, <2>1, <2>2, <2>3
  <2>5. k = j /\ f = e
    BY <1>1, <2>2, <2>3, <2>4 DEF HoldsApart
  <2>. QED
    BY <2>2, <2>3, <2>5
<1>9. FlagsHeld'
  <2>1. SUFFICES ASSUME NEW x \in net', NEW h \in x.holds, ~h.ousted, Guarded(h.lock)
                 PROVE  busy'[h.lock] = [row |-> h.row, id |-> h.id]
    BY <1>2 DEF FlagsHeld, Guarded
  <2>2. PICK k, g : k \in net /\ g \in k.holds /\ h = Mark(g, locks, rows)
    BY <1>6
  <2>3. /\ g.lock \in Locks \ Away /\ ~g.ousted
        /\ h.lock = g.lock /\ h.id = g.id /\ h.row = g.row
    BY <1>5, <2>1, <2>2
  <2>4. busy[g.lock] = [row |-> g.row, id |-> g.id]
    BY <1>1, <2>1, <2>2, <2>3 DEF FlagsHeld
  <2>. QED
    BY <1>2, <2>3, <2>4
<1>10. FormsLeft'
  <2>1. SUFFICES ASSUME NEW l \in Locks, left[l] > 0,
                        \A op \in page.ops : op.lock = l => op.slot = "no"
                 PROVE  busy'[l] # Idle /\ \A x \in net' : \A h \in x.holds : h.lock # l
    BY <1>2 DEF FormsLeft, Held
  <2>2. busy[l] # Idle /\ \A k \in net : \A g \in k.holds : g.lock # l
    BY <1>1, <2>1 DEF FormsLeft, Held
  <2>3. l \notin Away
    BY <2>1 DEF Away
  <2>4. ASSUME NEW x \in net', NEW h \in x.holds PROVE h.lock # l
    BY <1>5, <1>6, <2>2
  <2>. QED
    BY <1>2, <2>2, <2>3, <2>4
<1>11. LocksEnd'
  <2>1. SUFFICES ASSUME open = "yes", NEW l \in Locks, busy'[l] # Idle,
                        ~ \E op \in page.ops : op.lock = l /\ op.frees = "listed"
                 PROVE  \E x \in net' : \E h \in x.holds : h.lock = l /\ h.id = busy'[l].id
    BY <1>2 DEF LocksEnd, Held
  <2>2. busy'[l] = busy[l]
    BY <1>2, <2>1
  <2>3. PICK k, g : k \in net /\ g \in k.holds /\ g.lock = l /\ g.id = busy[l].id
    BY <1>1, <2>1, <2>2 DEF LocksEnd, Held
  <2>4. PICK x, h : x = Marked(k, locks, rows) /\ h = Mark(g, locks, rows)
    OBVIOUS
  <2>5. x \in net' /\ h \in x.holds
    BY <1>2, <1>3, <1>4, <2>3, <2>4
  <2>6. h.lock = l /\ h.id = busy'[l].id
    BY <1>5, <2>2, <2>3, <2>4
  <2>. QED
    BY <2>5, <2>6
<1>. QED
  BY <1>7, <1>8, <1>9, <1>10, <1>11 DEF FlagInv

LEMMA FlagsUser ==
  ASSUME TypeInv, FlagInv, User
  PROVE  FlagInv'
<1>1. OneListing /\ FlagInv
  BY DEF FlagInv
<1>2. ASSUME NEW op \in page.ops, NEW r \in Rows \union {Nobody}, Start(op, r)
      PROVE  FlagInv'
  <2>1. UNCHANGED <<page, open, left>>
    BY <1>2, Zenon DEF Start
  <2>. QED
    BY <1>2, <2>1, StartFacts, FlagsStart
<1>3. ASSUME NEW p \in Params, Filter(p) PROVE FlagInv'
  <2>1. /\ UNCHANGED <<page, open, shown, busy, left>> /\ page.filter # "fixed"
        /\ \/ /\ page.filter = "keyed" => Listings(p) = {}
              /\ net' = (net \ Dropped) \union {List(p)} /\ sent' = sent + 1
           \/ UNCHANGED <<net, sent>>
    BY <1>3, Zenon DEF Filter
  <2>2. CASE UNCHANGED <<net, sent>>
    BY <1>1, <2>1, <2>2 DEF FlagInv, OneListing, Querying, IsList, HoldsApart,
                           FlagsHeld, Guarded, FormsLeft, LocksEnd, Held
  <2>3. CASE /\ page.filter = "keyed" => Listings(p) = {}
             /\ net' = (net \ Dropped) \union {List(p)} /\ sent' = sent + 1
    <3>1. Dropped \in SUBSET net /\ \A k \in Dropped : k.holds = {}
      BY DEF Dropped
    <3>2. Querying => page.filter = "keyed"
      BY <2>1, PageFits DEF TypeInv, Querying, CacheFits
    <3>3. page.filter = "keyed" => Dropped = {}
      BY DEF Dropped
    <3>4. Querying => \A k \in net \ Dropped : ~(IsList(k) /\ k.param = p)
      BY <2>3, <3>2, <3>3 DEF Listings
    <3>5. SwapAs(Dropped, List(p))
      BY <2>3, <3>1, <3>4, ListSwaps
    <3>. QED
      BY <2>1, <3>5, FlagsSwap
  <2>. QED
    BY <2>1, <2>2, <2>3
<1>4. ASSUME More PROVE FlagInv'
  <2>1. UNCHANGED <<page, open, busy, left>>
    BY <1>4, Zenon DEF More
  <2>. QED
    BY <1>4, <2>1, MoreSwaps, FlagsSwap
<1>5. ASSUME Poll PROVE FlagInv'
  <2>1. /\ UNCHANGED <<page, open, busy, left>> /\ page.polls # "no"
        /\ net' = net \union {List(param)} /\ sent' = sent + 1
    BY <1>5 DEF Poll
  <2>2. ~Querying
    BY <2>1, PageFits DEF TypeInv, Querying, CacheFits
  <2>3. SwapAs({}, List(param))
    <3>1. {} \in SUBSET net /\ (\A k \in {} : k.holds = {})
          /\ net' = (net \ {}) \union {List(param)} /\ param \in Params
      BY <2>1, TypeParts
    <3>. QED
      BY <2>1, <2>2, <3>1, ListSwaps
  <2>. QED
    BY <2>1, <2>3, FlagsSwap
<1>6. ASSUME Leave PROVE FlagInv'
  <2>1. UNCHANGED <<page, busy, left>> /\ open' = "no" /\ net' = {}
    BY <1>6, Zenon DEF Leave
  <2>. QED
    BY <1>1, <2>1 DEF FlagInv, OneListing, HoldsApart, FlagsHeld, FormsLeft, LocksEnd, Held
<1>7. ASSUME Hide PROVE FlagInv'
  <2>1. UNCHANGED <<page, open, busy, net, left>>
    BY <1>7, HideFacts
  <2>. QED
    BY <1>1, <2>1 DEF FlagInv, OneListing, Querying, IsList, HoldsApart,
                      FlagsHeld, Guarded, FormsLeft, LocksEnd, Held
<1>. QED
  BY <1>2, <1>3, <1>4, <1>5, <1>6, <1>7, FlagsPutAway DEF User

LEMMA FlagsWork ==
  ASSUME TypeInv, FlagInv, NEW m \in net, Work(m) \/ Lose(m)
  PROVE  FlagInv'
<1>1. OneListing
  BY DEF FlagInv
<1>2. UNCHANGED <<page, open, busy, left>>
  BY DEF Work, Serve, Refuse, Lose
<1>3. CASE Serve(m)
  <2>1. PICK n, r : ServedAs(m, n, r)
    BY <1>3, ServeFacts
  <2>. QED
    BY <1>1, <1>2, <2>1, ServeSwaps, FlagsSwap
<1>4. CASE Refuse(m) \/ Lose(m)
  <2>1. PICK n : n = Answer(m, FALSE)
    OBVIOUS
  <2>2. SwapAs({m}, n)
    BY <1>1, <1>4, <2>1, RefuseSwaps
  <2>. QED
    BY <1>2, <2>2, FlagsSwap
<1>. QED
  BY <1>3, <1>4 DEF Work

LEMMA InitFlags ==
  ASSUME Init
  PROVE  FlagInv
<1>1. OneListing
  BY InitTypes
<1>2. /\ busy = [l \in Locks |-> Idle] /\ left = [l \in Locks |-> 0]
      /\ net = IF page.lists THEN {[List(param) EXCEPT !.id = 1]} ELSE {}
      /\ param \in Params /\ sent = 1
  BY BlankIs DEF Init
<1>3. PICK x, n : x = List(param) /\ n = [x EXCEPT !.id = 1]
  OBVIOUS
<1>4. n.holds = {}
  <2>1. x \in CallType /\ x.holds = {}
    BY <1>2, <1>3, PlainList
  <2>. QED
    BY <1>3, <2>1 DEF CallType
<1>5. net \subseteq {n}
  BY <1>2, <1>3
<1>. QED
  BY <1>1, <1>2, <1>4, <1>5
     DEF FlagInv, HoldsApart, FlagsHeld, FormsLeft, LocksEnd, Held

LEMMA FlagsNext ==
  ASSUME TypeInv, FlagInv, [Next]_vars
  PROVE  TypeInv' /\ FlagInv'
<1>1. TypeInv'
  BY TypeNext DEF FlagInv
<1>2. CASE Next
  BY <1>1, <1>2, FlagsUser, FlagsWork, FlagsHear DEF Next
<1>3. CASE UNCHANGED vars
  BY <1>1, <1>3 DEF vars, FlagInv, OneListing, Querying, IsList, HoldsApart,
                    FlagsHeld, Guarded, FormsLeft, LocksEnd, Held
<1>. QED
  BY <1>2, <1>3

LEMMA FlagsStay == Spec => [](TypeInv /\ FlagInv)
<1>1. Init => TypeInv /\ FlagInv
  BY InitTypes, InitFlags
<1>2. TypeInv /\ FlagInv /\ [Next]_vars => (TypeInv /\ FlagInv)'
  BY FlagsNext
<1>. QED
  BY <1>1, <1>2, PTL DEF Spec

(***************************************************************************)
(* Every variable keeps its type, on every screen that fits.               *)
(***************************************************************************)
THEOREM TypeCorrect == Spec => []TypeOK
<1>1. TypeInv /\ FlagInv => TypeOK
  BY DEF TypeInv
<1>. QED
  BY <1>1, FlagsStay, PTL

(***************************************************************************)
(* No control stays disabled: whatever the answers and their order, a flag *)
(* that is set belongs to a call under way, or to the listing that took    *)
(* over its flag.                                                          *)
(***************************************************************************)
THEOREM ControlsComeBack == Spec => []LocksEnd
<1>1. TypeInv /\ FlagInv => LocksEnd
  BY DEF FlagInv
<1>. QED
  BY <1>1, FlagsStay, PTL

(***************************************************************************)
(* A flag keeps the operations under it apart, for one row where it is the *)
(* id of a row, unless a button does not look at it.                       *)
(***************************************************************************)
THEOREM NeverSentTwice == Spec => []NeverTwice
<1>1. ASSUME TypeInv, FlagInv PROVE NeverTwice
  <2>1. SUFFICES ASSUME NEW k \in net, NEW j \in net, NEW g \in k.holds, NEW h \in j.holds,
                        g.id # h.id, g.lock = h.lock,
                        ~ \E op \in page.ops : op.lock = g.lock /\ op.lock \notin op.needs
                 PROVE  g.slot # "no" /\ (g.ousted \/ h.ousted)
    BY DEF NeverTwice, Held
  <2>2. FlagsHeld
    BY <1>1 DEF FlagInv
  <2>3. Guarded(g.lock)
    BY <2>1 DEF Guarded
  <2>4. CASE g.ousted \/ h.ousted
    <3>1. g.slot # "no" \/ h.slot # "no"
      BY <1>1, <2>4, HoldFits
    <3>. QED
      BY <1>1, <2>1, <2>4, <3>1, SameSlot
  <2>5. CASE ~g.ousted /\ ~h.ousted
    <3>1. busy[g.lock] = [row |-> g.row, id |-> g.id]
      BY <2>2, <2>3, <2>5 DEF FlagsHeld
    <3>2. busy[h.lock] = [row |-> h.row, id |-> h.id]
      BY <2>1, <2>2, <2>3, <2>5 DEF FlagsHeld
    <3>. QED
      BY <2>1, <3>1, <3>2
  <2>. QED
    BY <2>4, <2>5
<1>. QED
  BY <1>1, FlagsStay, PTL

(***************************************************************************)
(* A form whose flag is cleared on failure only is not sent again once it  *)
(* succeeded: no call under way holds its flag any more, and none will.    *)
(***************************************************************************)
THEOREM SavedIsSaved == Spec => []SavedOnce
<1>1. ASSUME TypeInv, FlagInv PROVE SavedOnce
  <2>1. SUFFICES ASSUME NEW m \in net, m.op.frees = "failure", m.op.slot = "no",
                        left[m.op.lock] > 0
                 PROVE  FALSE
    BY DEF SavedOnce
  <2>2. FormsLeft /\ Fits(m)
    BY <1>1 DEF FlagInv, TypeInv
  <2>3. ~IsList(m) /\ m.op \in page.ops /\ OwnHold(m)
    BY <2>1, <2>2 DEF Fits
  <2>4. FlagsFit(page) /\ m.op \in OpType
    BY <1>1, <2>3, PageFits DEF TypeInv
  <2>5. m.op.lock # "none" /\ m.op.lock \in Locks
    BY <2>1, <2>3, <2>4 DEF FlagsFit, OpType
  <2>6. \A op \in page.ops : op.lock = m.op.lock => op.slot = "no"
    BY <2>1, <2>3, <2>4 DEF FlagsFit
  <2>7. \E h \in m.holds : h.lock = m.op.lock
    BY <2>3, <2>5 DEF OwnHold
  <2>. QED
    BY <2>1, <2>2, <2>5, <2>6, <2>7 DEF FormsLeft, Held
<1>. QED
  BY <1>1, FlagsStay, PTL

(***************************************************************************)
(* Secrets.                                                                *)
(***************************************************************************)
SecretKept(r) ==
  /\ \A m, n \in Secrets(r) : m = n
  /\ \A m \in Secrets(r) : m.ok => server.key[r] = m.key \/ r \in server.ended
  /\ Here /\ secret.row = r =>
       \/ server.key[r] = secret.key \/ r \in server.ended
       \/ \E m \in Secrets(r) : m.ok

LEMMA SecretParts ==
  SecretInv <=> RowsExist /\ \A r \in Rows \ mixed : SecretKept(r)
BY DEF SecretInv, SecretKept

LEMMA ExistingGrows ==
  ASSUME TypeInv, \/ server' = server
                  \/ \E m \in net : \E n, r : ServedAs(m, n, r)
  PROVE  Existing \subseteq Existing'
<1>1. CASE server' = server
  BY <1>1 DEF Existing
<1>2. ASSUME NEW m, NEW n, NEW r, ServedAs(m, n, r)
      PROVE  Existing \subseteq Existing'
  <2>1. server'.ver = [x \in Rows |-> IF x \in Changed(m, r)
                                       THEN server.ver[x] + 1 ELSE server.ver[x]]
    BY <1>2 DEF ServedAs
  <2>2. server.ver \in [Rows -> Nat]
    BY TypeParts
  <2>3. \A q \in Rows : server'.ver[q] >= server.ver[q]
    BY <2>1, <2>2
  <2>4. \A q \in Rows : server'.ver[q] \in Nat
    BY <2>1, <2>2
  <2>. QED
    BY <2>2, <2>3, <2>4 DEF Existing
<1>. QED
  BY <1>1, <1>2

LEMMA SecretsHeard ==
  ASSUME TypeInv, NEW m \in net, NEW locks, NEW gone, NEW add,
         HeardAs(m, locks, gone, add), NEW r
  PROVE  /\ \A x \in Secrets(r)' : \E k \in Secrets(r) :
              k # m /\ x = Later(k, m, locks) /\ x.ok = k.ok /\ x.key = k.key
         /\ \A k \in Secrets(r) : k # m =>
              \E x \in Secrets(r)' : x.ok = k.ok /\ x.key = k.key
<1>1. /\ gone \subseteq net /\ m \in gone /\ \A k \in gone \ {m} : IsList(k)
      /\ net' = {Later(k, m, locks) : k \in net \ gone} \union add
      /\ \A n \in add : ~n.op.secret
  BY DEF HeardAs
<1>2. ASSUME NEW k \in net, NEW x, x = Later(k, m, locks)
      PROVE  x.op = k.op /\ x.row = k.row /\ x.ok = k.ok /\ x.key = k.key
  <2>1. k \in CallType
    BY TypeParts
  <2>. QED
    BY <1>2, <2>1, LaterFields
<1>3. ASSUME NEW x \in Secrets(r)'
      PROVE  \E k \in Secrets(r) :
               k # m /\ x = Later(k, m, locks) /\ x.ok = k.ok /\ x.key = k.key
  <2>1. x \in net' /\ x.op.secret /\ x.row = r
    BY DEF Secrets
  <2>2. PICK k \in net \ gone : x = Later(k, m, locks)
    BY <1>1, <2>1
  <2>3. x.op = k.op /\ x.row = k.row /\ x.ok = k.ok /\ x.key = k.key
    BY <1>2, <2>2
  <2>. QED
    BY <1>1, <2>1, <2>2, <2>3 DEF Secrets
<1>4. ASSUME NEW k \in Secrets(r), k # m
      PROVE  \E x \in Secrets(r)' : x.ok = k.ok /\ x.key = k.key
  <2>1. k \in net /\ k.op.secret /\ k.row = r
    BY DEF Secrets
  <2>2. k \notin gone
    BY <1>1, <1>4, <2>1 DEF TypeInv, Fits
  <2>3. PICK x : x = Later(k, m, locks)
    OBVIOUS
  <2>4. x \in net'
    BY <1>1, <2>1, <2>2, <2>3
  <2>5. x.op = k.op /\ x.row = k.row /\ x.ok = k.ok /\ x.key = k.key
    BY <1>2, <2>1, <2>3
  <2>. QED
    BY <2>1, <2>4, <2>5 DEF Secrets
<1>. QED
  BY <1>3, <1>4

LEMMA ThereHeard ==
  ASSUME TypeInv, NEW m \in net, NEW locks, NEW gone, NEW add,
         HeardAs(m, locks, gone, add), \A k \in net : k.there \subseteq Existing
  PROVE  \A x \in net' : x.there \subseteq Existing
<1>1. /\ net' = {Later(k, m, locks) : k \in net \ gone} \union add
      /\ \A n \in add : n.there = {} \/ \E k \in net : n.there = k.there
  BY DEF HeardAs
<1>2. ASSUME NEW k \in net, NEW x, x = Later(k, m, locks)
      PROVE  x.there = k.there
  <2>1. k \in CallType
    BY TypeParts
  <2>. QED
    BY <1>2, <2>1, LaterFields
<1>. QED
  BY <1>1, <1>2

\* No operation both sets a secret and ends one.
LEMMA SecretOrEnd ==
  ASSUME TypeInv, NEW m \in net, m.op.ends # "no"
  PROVE  ~m.op.secret
<1>1. m.op \in page.ops
  BY DEF TypeInv, Fits
<1>. QED
  BY <1>1, PageFits DEF TypeInv, ListFits

LEMMA SecretsHear ==
  ASSUME TypeInv, OneListing, SecretInv, NEW m \in net, Hear(m)
  PROVE  SecretInv'
<1>1. PICK locks, gone, add : HeardAs(m, locks, gone, add)
  BY AnswerHeard
<1>2. server' = server /\ mixed' = mixed /\ (Here' => Here)
  <2>1. CASE Done(m)
    <3>1. /\ UNCHANGED <<server, mixed>> /\ Here
      BY <2>1, Zenon DEF Done
    <3>. QED
      BY <3>1
  <2>2. CASE Listed(m) \/ Failed(m) \/ LookAgain(m)
    <3>1. UNCHANGED <<server, mixed, open>>
      BY <2>2, Zenon DEF Listed, Failed, LookAgain
    <3>. QED
      BY <3>1 DEF Here
  <2>. QED
    BY <2>1, <2>2 DEF Hear
<1>3. RowsExist /\ \A r \in Rows \ mixed : SecretKept(r)
  BY SecretParts
<1>4. Existing' = Existing
  BY <1>2 DEF Existing
<1>5. \A x \in net' : x.there \subseteq Existing
  BY <1>1, <1>3, ThereHeard DEF RowsExist
<1>6. \A r \in Rows : Secrets(r)' # {} => r \in Existing
  <2>1. SUFFICES ASSUME NEW r \in Rows, Secrets(r)' # {} PROVE r \in Existing
    OBVIOUS
  <2>2. Secrets(r) # {}
    BY <1>1, <2>1, SecretsHeard
  <2>. QED
    BY <1>3, <2>2 DEF RowsExist
<1>7. \A p \in Params : shown'[p].there \subseteq Existing
  <2>1. CASE Listed(m)
    <3>. DEFINE q == Place(m.param)
    <3>1. PICK e \in CopyType :
            /\ shown' = [shown EXCEPT ![q] = e]
            /\ m.ok => e.there = m.there
            /\ ~m.ok => e.there \subseteq shown[q].there
      BY <2>1, ListedShows
    <3>2. q \in Params
      BY TypeParts, BlankIs DEF Place, CallType
    <3>3. e.there \subseteq Existing
      BY <1>3, <3>1, <3>2, TypeParts DEF RowsExist, CallType
    <3>. QED
      BY <1>3, <3>1, <3>2, <3>3, TypeParts DEF RowsExist
  <2>2. CASE Done(m)
    <3>. DEFINE q == Place(param)
    <3>1. /\ ~IsList(m) /\ m.ok
          /\ shown' = CASE m.op.after = "splice" /\ shown[q].known /\ Changes(m) ->
                             [shown EXCEPT ![q] = Spliced(@, m)]
                        [] m.op.after \in {"refresh", "invalidate"} -> Stale
                        [] OTHER -> shown
      BY <2>2, Zenon DEF Done
    <3>2. \/ shown' = shown \/ shown' = Stale
          \/ shown' = [shown EXCEPT ![q] = Spliced(shown[q], m)]
      BY <3>1, Zenon
    <3>3. q \in Params /\ m \in CallType /\ shown[q] \in CopyType
      BY TypeParts, BlankIs DEF Place
    <3>4. Spliced(shown[q], m).there \subseteq Existing
      <4>1. Spliced(shown[q], m).there
              = (shown[q].there \ {m.row}) \union ({m.row} \intersect m.there)
        BY <3>3, SplicedFields
      <4>. QED
        BY <1>3, <3>3, <4>1 DEF RowsExist
    <3>5. \A p \in Params : Stale[p].there = shown[p].there
      BY StaleIs, TypeParts
    <3>. QED
      BY <1>3, <3>2, <3>3, <3>4, <3>5, TypeParts DEF RowsExist
  <2>3. CASE Failed(m)
    <3>1. shown' = shown \/ shown' = Stale
      BY <2>3, Zenon DEF Failed
    <3>2. \A p \in Params : Stale[p].there = shown[p].there
      BY StaleIs, TypeParts
    <3>. QED
      BY <1>3, <3>1, <3>2 DEF RowsExist
  <2>4. CASE LookAgain(m)
    BY <1>3, <2>4, LookFacts DEF RowsExist
  <2>. QED
    BY <2>1, <2>2, <2>3, <2>4 DEF Hear
<1>8. \/ secret' = secret /\ (m.op.secret => ~m.ok)
      \/ m.op.secret /\ m.ok /\ secret' = [row |-> m.row, key |-> m.key]
      \/ ~m.op.secret /\ secret' = NoSecret
  <2>1. CASE Done(m)
    <3>1. secret' = Secret(m) /\ m.ok
      BY <2>1, Zenon DEF Done
    <3>2. m.op.ends = "hidden" => ~m.op.secret
      BY SecretOrEnd
    <3>. QED
      BY <3>1, <3>2 DEF Secret
  <2>2. CASE Listed(m)
    <3>1. secret' = secret /\ IsList(m)
      BY <2>2, Zenon DEF Listed
    <3>. QED
      BY <3>1 DEF TypeInv, Fits
  <2>3. CASE Failed(m)
    BY <2>3, Zenon DEF Failed
  <2>4. CASE LookAgain(m)
    <3>1. secret' = secret /\ IsList(m)
      BY <2>4, LookFacts
    <3>. QED
      BY <3>1 DEF TypeInv, Fits
  <2>. QED
    BY <2>1, <2>2, <2>3, <2>4 DEF Hear
<1>9. \A r \in Rows : secret'.row = r => r \in Existing
  <2>1. CASE secret' = secret
    BY <1>3, <2>1 DEF RowsExist
  <2>2. CASE m.op.secret /\ secret' = [row |-> m.row, key |-> m.key]
    BY <1>3, <2>2 DEF RowsExist, Secrets
  <2>3. CASE secret' = NoSecret
    BY <2>3, ScreensAssumption DEF NoSecret
  <2>. QED
    BY <1>8, <2>1, <2>2, <2>3
<1>10. RowsExist'
  BY <1>2, <1>3, <1>4, <1>5, <1>6, <1>7, <1>9 DEF RowsExist
<1>11. ASSUME NEW r \in Rows \ mixed PROVE SecretKept(r)'
  <2>1. SecretKept(r)
    BY <1>3
  <2>2. \A x, y \in Secrets(r)' : x = y
    BY <1>1, <2>1, SecretsHeard DEF SecretKept
  <2>3. \A x \in Secrets(r)' : x.ok => server.key[r] = x.key \/ r \in server.ended
    BY <1>1, <2>1, SecretsHeard DEF SecretKept
  <2>4. Here' /\ secret'.row = r =>
          \/ server.key[r] = secret'.key \/ r \in server.ended
          \/ \E x \in Secrets(r)' : x.ok
    <3>1. CASE secret' = secret /\ (m.op.secret => ~m.ok)
      <4>1. SUFFICES ASSUME Here', secret.row = r, server.key[r] # secret.key,
                            r \notin server.ended
                     PROVE  \E x \in Secrets(r)' : x.ok
        BY <3>1
      <4>2. PICK k \in Secrets(r) : k.ok
        BY <1>2, <2>1, <4>1 DEF SecretKept
      <4>3. k # m
        BY <3>1, <4>2 DEF Secrets
      <4>. QED
        BY <1>1, <4>2, <4>3, SecretsHeard
    <3>2. CASE m.op.secret /\ m.ok /\ secret' = [row |-> m.row, key |-> m.key]
      BY <2>1, <3>2 DEF SecretKept, Secrets
    <3>3. CASE secret' = NoSecret
      BY <3>3, ScreensAssumption DEF NoSecret
    <3>. QED
      BY <1>8, <3>1, <3>2, <3>3
  <2>. QED
    BY <1>2, <2>2, <2>3, <2>4 DEF SecretKept
<1>. QED
  BY <1>2, <1>10, <1>11 DEF SecretInv, SecretKept

LEMMA SecretsListing ==
  ASSUME TypeInv, SecretInv, NEW gone, NEW n, SwapAs(gone, n), IsList(n),
         \A k \in gone : IsList(k),
         n.there = {} \/ \E p \in Params : n.there = shown[p].there,
         UNCHANGED <<server, mixed, open, secret, shown>>
  PROVE  SecretInv'
<1>1. gone \subseteq net /\ net' = (net \ gone) \union {n} /\ ~n.op.secret
  BY DEF SwapAs
<1>2. \A r : Secrets(r)' = Secrets(r)
  BY <1>1 DEF Secrets, TypeInv, Fits
<1>3. RowsExist'
  BY <1>1, <1>2 DEF SecretInv, RowsExist, Existing
<1>. QED
  BY <1>2, <1>3 DEF SecretInv, Here

LEMMA SecretsStart ==
  ASSUME TypeInv, SecretInv, NEW op, NEW r \in Rows \union {Nobody}, Start(op, r)
  PROVE  SecretInv'
<1>1. /\ UNCHANGED <<page, open, param, server>>
      /\ secret' = secret \/ secret' = NoSecret
      /\ shown' = IF op.early /\ r \in Rows
                    THEN [shown EXCEPT ![Place(param)].guess = @ \union {r}]
                    ELSE shown
      /\ mixed' = IF op.secret /\ r \in Rows /\ \E m \in net : m.op.secret /\ m.row = r
                    THEN mixed \union {r} ELSE mixed
      /\ op \in page.ops
      /\ op.kind \in {"change", "remove", "ask"} /\ page.lists
           => r \in shown[Place(param)].there
      /\ op.kind \in Rowless <=> r = Nobody
  BY Zenon DEF Start
<1>2. PICK n : StartedAs(op, r, n)
  BY StartFacts
<1>3. /\ net' = {Marked(k, {op.lock}, Rows \ {r}) : k \in net} \union {n}
      /\ n.op = op /\ n.row = r /\ ~n.ok /\ n.there = {}
  BY <1>2 DEF StartedAs
<1>4. RowsExist /\ \A q \in Rows \ mixed : SecretKept(q)
  BY SecretParts
<1>5. Existing' = Existing
  BY <1>1 DEF Existing
<1>6. Place(param) \in Params /\ shown \in [Params -> CopyType]
  BY TypeParts, BlankIs DEF Place
<1>7. ASSUME NEW k \in net, NEW x, x = Marked(k, {op.lock}, Rows \ {r})
      PROVE  /\ x.op = k.op /\ x.row = k.row /\ x.ok = k.ok /\ x.key = k.key
             /\ x.there = k.there
  <2>1. PICK locks, rows : locks = {op.lock} /\ rows = Rows \ {r}
    OBVIOUS
  <2>2. k \in CallType /\ x = Marked(k, locks, rows)
    BY <1>7, <2>1, TypeParts
  <2>. QED
    BY <2>2, MarkedFields
<1>8. op.secret /\ r \in Rows => r \in Existing
  <2>1. SUFFICES ASSUME op.secret, r \in Rows PROVE r \in Existing
    OBVIOUS
  <2>2. page.lists /\ op.kind \in {"change", "remove", "ask"}
    <3>1. op.secret => page.lists
      BY <1>1, PageFits DEF TypeInv, ListFits
    <3>2. op.kind \notin {"list", "more"} /\ op \in OpType
      BY <1>1, PageFits DEF TypeInv, FlagsFit
    <3>3. op.kind \notin Rowless
      BY <1>1, <2>1, ScreensAssumption
    <3>. QED
      BY <2>1, <3>1, <3>2, <3>3 DEF OpType, Rowless
  <2>3. r \in shown[Place(param)].there
    BY <1>1, <2>2
  <2>. QED
    BY <1>4, <1>6, <2>3 DEF RowsExist
<1>9. ASSUME NEW q \in Rows, NEW x \in Secrets(q)'
      PROVE  \/ x = n /\ q = r /\ op.secret
             \/ \E k \in Secrets(q) : /\ x = Marked(k, {op.lock}, Rows \ {r})
                                      /\ x.ok = k.ok /\ x.key = k.key
  <2>1. x \in net' /\ x.op.secret /\ x.row = q
    BY DEF Secrets
  <2>2. CASE x = n
    BY <1>3, <2>1, <2>2
  <2>3. CASE x # n
    <3>1. PICK k \in net : x = Marked(k, {op.lock}, Rows \ {r})
      BY <1>3, <2>1, <2>3
    <3>2. x.op = k.op /\ x.row = k.row /\ x.ok = k.ok /\ x.key = k.key
      BY <1>7, <3>1
    <3>. QED
      BY <2>1, <3>1, <3>2 DEF Secrets
  <2>. QED
    BY <2>2, <2>3
<1>10. ASSUME NEW q \in Rows, NEW k \in Secrets(q)
       PROVE  \E x \in Secrets(q)' : x.ok = k.ok
  <2>1. k \in net /\ k.op.secret /\ k.row = q
    BY DEF Secrets
  <2>2. PICK x : x = Marked(k, {op.lock}, Rows \ {r})
    OBVIOUS
  <2>3. x \in net'
    BY <1>3, <2>1, <2>2
  <2>4. x.op = k.op /\ x.row = k.row /\ x.ok = k.ok
    BY <1>7, <2>1, <2>2
  <2>. QED
    BY <2>1, <2>3, <2>4 DEF Secrets
<1>11. ASSUME NEW x \in net' PROVE x.there \subseteq Existing
  <2>1. CASE x = n
    BY <1>3, <2>1
  <2>2. CASE x # n
    <3>1. PICK k \in net : x = Marked(k, {op.lock}, Rows \ {r})
      BY <1>3, <2>2
    <3>2. x.there = k.there
      BY <1>7, <3>1
    <3>. QED
      BY <1>4, <3>2 DEF RowsExist
  <2>. QED
    BY <2>1, <2>2
<1>12. \A p \in Params : shown'[p].there = shown[p].there
  BY <1>1, <1>6 DEF CopyType
<1>13. \A q \in Rows : Secrets(q)' # {} => q \in Existing
  <2>1. SUFFICES ASSUME NEW q \in Rows, NEW x \in Secrets(q)' PROVE q \in Existing
    OBVIOUS
  <2>2. (q = r /\ op.secret) \/ Secrets(q) # {}
    BY <1>9
  <2>. QED
    BY <1>4, <1>8, <2>2 DEF RowsExist
<1>14. RowsExist'
  <2>1. \A q \in Rows : secret'.row = q => q \in Existing
    BY <1>1, <1>4, ScreensAssumption DEF RowsExist, NoSecret
  <2>. QED
    BY <1>1, <1>4, <1>5, <1>11, <1>12, <1>13, <2>1 DEF RowsExist
<1>15. ASSUME NEW q \in Rows, q \notin mixed' PROVE SecretKept(q)'
  <2>1. SecretKept(q)
    BY <1>1, <1>4, <1>15
  <2>2. q = r /\ op.secret => Secrets(q) = {}
    BY <1>1, <1>15 DEF Secrets
  <2>3. \A x, y \in Secrets(q)' : x = y
    BY <1>9, <2>1, <2>2 DEF SecretKept
  <2>4. \A x \in Secrets(q)' : x.ok => server.key[q] = x.key \/ q \in server.ended
    BY <1>3, <1>9, <2>1 DEF SecretKept
  <2>5. Here' /\ secret'.row = q =>
          \/ server.key[q] = secret'.key \/ q \in server.ended
          \/ \E x \in Secrets(q)' : x.ok
    <3>1. CASE secret' = secret
      BY <1>1, <1>10, <2>1, <3>1 DEF SecretKept, Here
    <3>2. CASE secret' = NoSecret
      BY <3>2, ScreensAssumption DEF NoSecret
    <3>. QED
      BY <1>1, <3>1, <3>2
  <2>. QED
    BY <1>1, <2>3, <2>4, <2>5 DEF SecretKept
<1>. QED
  BY <1>14, <1>15 DEF SecretInv, SecretKept

LEMMA SecretsPutAway ==
  ASSUME TypeInv, SecretInv, PutAway
  PROVE  SecretInv'
<1>. DEFINE F(k) == Marked(k, Away, AnyRow)
<1>1. /\ UNCHANGED <<open, shown, secret, server, mixed>>
      /\ net' = {F(k) : k \in net}
  BY PutAwayFacts
<1>2. ASSUME NEW k \in net
      PROVE  /\ F(k).op = k.op /\ F(k).row = k.row /\ F(k).ok = k.ok
             /\ F(k).key = k.key /\ F(k).there = k.there
  <2>1. k \in CallType
    BY TypeParts
  <2>2. PICK x, locks, rows : x = Marked(k, locks, rows) /\ locks = Away /\ rows = AnyRow
    OBVIOUS
  <2>3. /\ x.op = k.op /\ x.row = k.row /\ x.ok = k.ok
        /\ x.key = k.key /\ x.there = k.there
    BY <2>1, <2>2, MarkedFields
  <2>. QED
    BY <2>2, <2>3
<1>. HIDE DEF F
<1>3. ASSUME NEW r PROVE Secrets(r)' = {F(k) : k \in Secrets(r)}
  BY <1>1, <1>2 DEF Secrets
<1>4. \A k \in net : k.op.secret => F(k).ok = k.ok /\ F(k).key = k.key
  BY <1>2
<1>5. RowsExist'
  BY <1>1, <1>2, <1>3 DEF SecretInv, RowsExist, Existing
<1>6. ASSUME NEW r \in Rows \ mixed PROVE SecretKept(r)'
  <2>1. SecretKept(r)
    BY SecretParts
  <2>2. \A k \in Secrets(r) : F(k).ok = k.ok /\ F(k).key = k.key
    BY <1>4 DEF Secrets
  <2>. QED
    BY <1>1, <1>3, <2>1, <2>2 DEF SecretKept, Here
<1>. QED
  BY <1>1, <1>5, <1>6 DEF SecretInv, SecretKept

LEMMA SecretsUser ==
  ASSUME TypeInv, OneListing, SecretInv, User
  PROVE  SecretInv'
<1>1. ASSUME NEW op \in page.ops, NEW r \in Rows \union {Nobody}, Start(op, r)
      PROVE  SecretInv'
  BY <1>1, SecretsStart
<1>2. ASSUME NEW p \in Params, Filter(p) PROVE SecretInv'
  <2>1. /\ UNCHANGED <<page, open, shown, secret, server, mixed>>
        /\ page.filter # "fixed"
        /\ \/ /\ page.filter = "keyed" => Listings(p) = {}
              /\ net' = (net \ Dropped) \union {List(p)} /\ sent' = sent + 1
           \/ UNCHANGED net
    BY <1>2, Zenon DEF Filter
  <2>2. CASE UNCHANGED net
    BY <2>1, <2>2 DEF SecretInv, RowsExist, Existing, Secrets, Here
  <2>3. CASE /\ page.filter = "keyed" => Listings(p) = {}
             /\ net' = (net \ Dropped) \union {List(p)} /\ sent' = sent + 1
    <3>1. /\ Dropped \in SUBSET net /\ (\A k \in Dropped : k.holds = {})
          /\ \A k \in Dropped : IsList(k)
      BY DEF Dropped
    <3>2. Querying => page.filter = "keyed"
      BY <2>1, PageFits DEF TypeInv, Querying, CacheFits
    <3>3. page.filter = "keyed" => Dropped = {}
      BY DEF Dropped
    <3>4. Querying => \A k \in net \ Dropped : ~(IsList(k) /\ k.param = p)
      BY <2>3, <3>2, <3>3 DEF Listings
    <3>5. PICK n : n = List(p)
      OBVIOUS
    <3>6. SwapAs(Dropped, n)
      BY <2>3, <3>1, <3>4, <3>5, ListSwaps
    <3>7. IsList(n) /\ n.there = {}
      BY <3>5, PlainList, TypeParts
    <3>. QED
      BY <2>1, <3>1, <3>6, <3>7, SecretsListing
  <2>. QED
    BY <2>1, <2>2, <2>3
<1>3. ASSUME More PROVE SecretInv'
  <2>1. UNCHANGED <<page, open, shown, secret, server, mixed>>
    BY <1>3, Zenon DEF More
  <2>2. PICK n : n = NextListing
    OBVIOUS
  <2>3. SwapAs(Listings(param), n) /\ n.op.kind = "more" /\ n.there = Copy.there
    BY <1>3, <2>2, MoreSwaps
  <2>4. IsList(n) /\ \A k \in Listings(param) : IsList(k)
    BY <2>3 DEF IsList, Listings
  <2>5. \E p \in Params : n.there = shown[p].there
    BY <2>3, TypeParts, BlankIs DEF Copy, Place
  <2>. QED
    BY <2>1, <2>3, <2>4, <2>5, SecretsListing
<1>4. ASSUME Poll PROVE SecretInv'
  <2>1. /\ UNCHANGED <<page, open, shown, secret, server, mixed>> /\ page.polls # "no"
        /\ net' = net \union {List(param)} /\ sent' = sent + 1
    BY <1>4 DEF Poll
  <2>2. ~Querying
    BY <2>1, PageFits DEF TypeInv, Querying, CacheFits
  <2>3. PICK gone, n : gone = {} /\ n = List(param)
    OBVIOUS
  <2>4. SwapAs(gone, n)
    <3>1. gone \in SUBSET net /\ (\A k \in gone : k.holds = {})
          /\ net' = (net \ gone) \union {List(param)} /\ param \in Params
      BY <2>1, <2>3, TypeParts
    <3>. QED
      BY <2>1, <2>2, <2>3, <3>1, ListSwaps
  <2>5. IsList(n) /\ n.there = {} /\ \A k \in gone : IsList(k)
    BY <2>3, PlainList, TypeParts
  <2>. QED
    BY <2>1, <2>4, <2>5, SecretsListing
<1>5. ASSUME Leave PROVE SecretInv'
  <2>1. UNCHANGED <<shown, secret, server, mixed>> /\ open' = "no" /\ net' = {}
    BY <1>5, Zenon DEF Leave
  <2>. QED
    BY <2>1 DEF SecretInv, RowsExist, Existing, Secrets, Here
<1>6. ASSUME PutAway PROVE SecretInv'
  BY <1>6, SecretsPutAway
<1>7. ASSUME Hide PROVE SecretInv'
  <2>1. UNCHANGED <<open, shown, net, server, mixed>> /\ secret' = NoSecret
    BY <1>7, HideFacts
  <2>2. \A r \in Rows : secret'.row # r
    BY <2>1, ScreensAssumption DEF NoSecret
  <2>. QED
    BY <2>1, <2>2 DEF SecretInv, RowsExist, Existing, Secrets, Here
<1>. QED
  BY <1>1, <1>2, <1>3, <1>4, <1>5, <1>6, <1>7 DEF User

LEMMA SecretsWork ==
  ASSUME TypeInv, OneListing, SecretInv, NEW m \in net, Work(m) \/ Lose(m)
  PROVE  SecretInv'
<1>1. RowsExist /\ \A q \in Rows \ mixed : SecretKept(q)
  BY SecretParts
<1>2. m \in CallType /\ (m.ok => m.st = "answered")
  BY TypeParts DEF TypeInv, Fits
<1>3. ASSUME Serve(m) PROVE SecretInv'
  <2>1. PICK n, r : ServedAs(m, n, r)
    BY <1>3, ServeFacts
  <2>2. /\ m.st = "sent" /\ net' = (net \ {m}) \union {n}
        /\ m.op.kind = "create" => server.ver[r] = 0
        /\ m.op.kind # "create" => r = m.row
        /\ Changes(m) /\ m.op.kind # "all" => r \in Rows
        /\ m.op.secret \/ m.op.ends # "no" => r \in Rows
        /\ n.ok /\ n.op = m.op /\ n.row = r
        /\ n.key = IF m.op.secret THEN server'.key[r] ELSE 0
        /\ UNCHANGED <<page, open, param, shown, busy, secret, acts, sent, acked,
                       mixed, left>>
    BY <2>1, Zenon DEF ServedAs
  <2>3. /\ server'.ver = [x \in Rows |-> IF x \in Changed(m, r)
                                          THEN server.ver[x] + 1 ELSE server.ver[x]]
        /\ server'.key = IF m.op.secret \/ m.op.ends # "no"
                           THEN [server.key EXCEPT ![r] = @ + 1] ELSE server.key
        /\ server'.ended = Ended(m, r)
        /\ server'.there = CASE m.op.kind = "create" -> server.there \union {r}
                             [] m.op.kind = "remove" -> server.there \ {r}
                             [] OTHER -> server.there
    BY <2>1, Zenon DEF ServedAs
  <2>4. /\ Whole(m) => n.there = server'.there
        /\ m.op.kind = "more" => n.there = m.there \union server.there
        /\ ~Whole(m) /\ m.op.kind # "more" => n.there = {r} \intersect server'.there
    BY <2>1, Zenon DEF ServedAs
  <2>5. server.ver \in [Rows -> Nat] /\ server.key \in [Rows -> Nat]
        /\ server.there \in SUBSET Rows
    BY TypeParts
  <2>6. Existing \subseteq Existing'
    BY <2>1, ExistingGrows
  <2>7. m.op.kind = "create" => r \in Existing'
    BY <2>2, <2>3, <2>5 DEF Existing, Changed, Changes
  <2>8. server'.there \subseteq Existing'
    <3>1. server'.there \subseteq
            server.there \union (IF m.op.kind = "create" THEN {r} ELSE {})
      BY <2>3
    <3>. QED
      BY <1>1, <2>6, <2>7, <3>1 DEF RowsExist
  <2>9. n.there \subseteq Existing'
    BY <1>1, <2>4, <2>6, <2>8 DEF RowsExist
  <2>10. m.op.kind = "create" /\ r \in Rows => Secrets(r) = {} /\ secret.row # r
    BY <1>1, <2>2 DEF RowsExist, Existing
  <2>11. ASSUME NEW q \in Rows PROVE
           Secrets(q)' = (Secrets(q) \ {m}) \union (IF n.op.secret /\ r = q THEN {n} ELSE {})
    BY <2>2 DEF Secrets
  <2>12. ASSUME NEW q \in Rows, Secrets(q)' # {} PROVE q \in Existing'
    <3>1. CASE Secrets(q) # {}
      BY <1>1, <2>6, <3>1 DEF RowsExist
    <3>2. CASE n.op.secret /\ r = q
      <4>1. CASE m.op.kind = "create"
        BY <2>7, <3>2, <4>1
      <4>2. CASE m.op.kind # "create"
        BY <1>1, <2>2, <2>6, <3>2, <4>2 DEF RowsExist, Secrets
      <4>. QED
        BY <4>1, <4>2
    <3>. QED
      BY <2>11, <2>12, <3>1, <3>2
  <2>13. RowsExist'
    BY <1>1, <2>2, <2>6, <2>8, <2>9, <2>12 DEF RowsExist
  <2>14. ASSUME NEW q \in Rows \ mixed PROVE SecretKept(q)'
    <3>1. SecretKept(q)
      BY <1>1
    <3>2. CASE m.op.secret /\ r = q
      <4>1. Secrets(q)' = {n}
        <5>1. Secrets(q) \subseteq {m}
          BY <2>2, <2>10, <3>1, <3>2 DEF SecretKept, Secrets
        <5>. QED
          BY <2>2, <2>11, <3>2, <5>1
      <4>2. n.key = server'.key[q] /\ n.ok
        BY <2>2, <3>2
      <4>. QED
        BY <2>2, <4>1, <4>2 DEF SecretKept
    <3>3. CASE ~(m.op.secret /\ r = q)
      <4>1. Secrets(q)' = Secrets(q) \ {m}
        BY <2>2, <2>11, <3>3
      <4>2. \/ q \in server'.ended
            \/ server'.key[q] = server.key[q] /\ q \notin server.ended
        <5>1. m.op.ends # "no" => ~m.op.secret
          BY <1>2, SecretOrEnd
        <5>. QED
          BY <2>2, <2>3, <2>5, <3>3, <5>1 DEF Ended
      <4>3. ~m.ok
        BY <1>2, <2>2
      <4>. QED
        BY <2>2, <3>1, <4>1, <4>2, <4>3 DEF SecretKept, Here
    <3>. QED
      BY <3>2, <3>3
  <2>. QED
    BY <2>2, <2>13, <2>14 DEF SecretInv, SecretKept
<1>4. ASSUME Refuse(m) \/ Lose(m) PROVE SecretInv'
  <2>1. PICK n : n = Answer(m, FALSE)
    OBVIOUS
  <2>2. /\ ~n.ok /\ n.op = m.op /\ n.row = m.row /\ n.there = m.there
    BY <1>2, <2>1, RefusedFields
  <2>3. net' = (net \ {m}) \union {n}
    BY <1>4, <2>1, RefuseSwaps
  <2>4. UNCHANGED <<open, shown, secret, server>>
    BY <1>4, Zenon DEF Refuse, Lose
  <2>5. mixed \subseteq mixed' /\ (m.ok /\ m.op.secret => m.row \in mixed')
    <3>1. CASE Refuse(m)
      <4>1. m.st = "sent" /\ mixed' = mixed
        BY <3>1, Zenon DEF Refuse
      <4>. QED
        BY <1>2, <4>1
    <3>2. CASE Lose(m)
      <4>1. mixed' = Mixed(m)
        BY <3>2, Zenon DEF Lose
      <4>. QED
        BY <4>1 DEF Mixed
    <3>. QED
      BY <1>4, <3>1, <3>2
  <2>6. ASSUME NEW q \in Rows
        PROVE  Secrets(q)' = IF m \in Secrets(q) THEN (Secrets(q) \ {m}) \union {n}
                             ELSE Secrets(q)
    BY <2>2, <2>3 DEF Secrets
  <2>7. RowsExist'
    <3>1. \A q \in Rows : Secrets(q)' # {} => Secrets(q) # {}
      BY <2>6
    <3>. QED
      BY <1>1, <2>2, <2>3, <2>4, <3>1 DEF RowsExist, Existing
  <2>8. ASSUME NEW q \in Rows, q \notin mixed' PROVE SecretKept(q)'
    <3>1. SecretKept(q)
      BY <1>1, <2>5, <2>8
    <3>2. m \in Secrets(q) => ~m.ok
      BY <2>5, <2>8 DEF Secrets
    <3>. QED
      BY <2>2, <2>4, <2>6, <3>1, <3>2 DEF SecretKept, Here
  <2>. QED
    BY <2>7, <2>8 DEF SecretInv, SecretKept
<1>. QED
  BY <1>3, <1>4 DEF Work

LEMMA InitSecrets ==
  ASSUME Init
  PROVE  SecretInv
<1>1. TypeInv
  BY InitTypes
<1>2. /\ shown = [p \in Params |-> Blank] /\ secret = NoSecret
      /\ net = IF page.lists THEN {[List(param) EXCEPT !.id = 1]} ELSE {}
      /\ param \in Params /\ sent = 1
  BY BlankIs DEF Init
<1>3. PICK there \in SUBSET Rows :
        server = [ver |-> [r \in Rows |-> IF r \in there THEN 1 ELSE 0],
                  there |-> there, key |-> Zero, ended |-> {}]
  BY DEF Init
<1>4. PICK x, n : x = List(param) /\ n = [x EXCEPT !.id = 1]
  OBVIOUS
<1>5. n.there = {} /\ ~n.op.secret
  <2>1. x \in CallType /\ x.there = {} /\ ~x.op.secret
    BY <1>2, <1>4, PlainList
  <2>. QED
    BY <1>4, <2>1 DEF CallType
<1>6. net \subseteq {n}
  BY <1>2, <1>4
<1>7. server.there \subseteq Existing
  BY <1>3 DEF Existing
<1>8. \A r \in Rows : Secrets(r) = {} /\ secret.row # r
  BY <1>2, <1>5, <1>6, ScreensAssumption DEF Secrets, NoSecret
<1>9. \A p \in Params : shown[p].there = {}
  BY <1>2, BlankIs
<1>. QED
  BY <1>5, <1>6, <1>7, <1>8, <1>9 DEF SecretInv, RowsExist

LEMMA SecretsNext ==
  ASSUME TypeInv, OneListing, SecretInv, [Next]_vars
  PROVE  SecretInv'
<1>1. CASE Next
  BY <1>1, SecretsUser, SecretsWork, SecretsHear DEF Next
<1>2. CASE UNCHANGED vars
  BY <1>2 DEF vars, SecretInv, RowsExist, Existing, Secrets, Here
<1>. QED
  BY <1>1, <1>2

(***************************************************************************)
(* The one-time secret a screen shows for a row, such as an API key, is    *)
(* the one the server accepts, or the answer that replaces it is coming,   *)
(* unless its key was revoked or its row deleted, two calls set it at      *)
(* once, or a newer one was lost.                                          *)
(***************************************************************************)
THEOREM SecretIsCurrent == Spec => []SecretCurrent
<1>1. Init => SecretInv
  BY InitSecrets
<1>2. TypeInv /\ FlagInv /\ SecretInv /\ [Next]_vars => SecretInv'
  BY SecretsNext DEF FlagInv
<1>3. SecretInv => SecretCurrent
  BY DEF SecretInv, SecretCurrent, Secrets
<1>. QED
  BY <1>1, <1>2, <1>3, FlagsStay, PTL DEF Spec

(***************************************************************************)
(* Lists.  What stays of the calls under way when m is heard or another    *)
(* call is sent, and what the handlers show.                               *)
(***************************************************************************)
Same(x, k) ==
  /\ x.id = k.id /\ x.op = k.op /\ x.row = k.row /\ x.param = k.param
  /\ x.ok = k.ok /\ x.ver = k.ver /\ x.there = k.there

LEMMA SameKind ==
  ASSUME NEW x, NEW k, Same(x, k)
  PROVE  /\ IsList(x) <=> IsList(k)
         /\ Changes(x) <=> Changes(k)
         /\ Fresh(x) <=> Fresh(k)
         /\ Told(x) = Told(k)
BY DEF Same, IsList, Changes, Fresh, Told

LEMMA HeardStay ==
  ASSUME TypeInv, NEW m \in net, NEW locks, NEW gone, NEW add,
         HeardAs(m, locks, gone, add)
  PROVE  /\ \A k \in net \ gone : \E x \in net' : Same(x, k)
         /\ \A x \in net' : x \notin add =>
              \E k \in net \ gone :
                /\ k # m /\ Same(x, k)
                /\ k.passed => x.passed
                /\ IsList(k) /\ (~IsList(m) \/ k.id < m.id) => x.passed
                /\ ~IsList(k) /\ ~IsList(m) /\ Meet(k, m) => x.passed
<1>1. net' = {Later(k, m, locks) : k \in net \ gone} \union add /\ m \in gone
  BY DEF HeardAs
<1>2. ASSUME NEW k \in net, NEW x, x = Later(k, m, locks)
      PROVE  /\ Same(x, k)
             /\ k.passed => x.passed
             /\ IsList(k) /\ (~IsList(m) \/ k.id < m.id) => x.passed
             /\ ~IsList(k) /\ ~IsList(m) /\ Meet(k, m) => x.passed
  <2>1. k \in CallType
    BY TypeParts
  <2>. QED
    BY <1>2, <2>1, LaterFields DEF Same
<1>3. ASSUME NEW k \in net \ gone PROVE \E x \in net' : Same(x, k)
  <2>1. PICK x : x = Later(k, m, locks)
    OBVIOUS
  <2>. QED
    BY <1>1, <1>2, <2>1
<1>4. ASSUME NEW x \in net', x \notin add
      PROVE  \E k \in net \ gone :
               /\ k # m /\ Same(x, k)
               /\ k.passed => x.passed
               /\ IsList(k) /\ (~IsList(m) \/ k.id < m.id) => x.passed
               /\ ~IsList(k) /\ ~IsList(m) /\ Meet(k, m) => x.passed
  <2>1. PICK k \in net \ gone : x = Later(k, m, locks)
    BY <1>1, <1>4
  <2>2. /\ Same(x, k)
        /\ k.passed => x.passed
        /\ IsList(k) /\ (~IsList(m) \/ k.id < m.id) => x.passed
        /\ ~IsList(k) /\ ~IsList(m) /\ Meet(k, m) => x.passed
    BY <1>2, <2>1
  <2>. QED
    BY <1>1, <2>2
<1>. QED
  BY <1>3, <1>4

LEMMA StartStay ==
  ASSUME TypeInv, NEW op, NEW r, NEW n, StartedAs(op, r, n)
  PROVE  /\ \A k \in net : \E x \in net' : Same(x, k)
         /\ \A x \in net' : x # n =>
              \E k \in net : Same(x, k) /\ x.passed = k.passed
<1>1. net' = {Marked(k, {op.lock}, Rows \ {r}) : k \in net} \union {n}
  BY DEF StartedAs
<1>2. ASSUME NEW k \in net, NEW x, x = Marked(k, {op.lock}, Rows \ {r})
      PROVE  Same(x, k) /\ x.passed = k.passed
  <2>1. PICK locks, rows : locks = {op.lock} /\ rows = Rows \ {r}
    OBVIOUS
  <2>2. k \in CallType /\ x = Marked(k, locks, rows)
    BY <1>2, <2>1, TypeParts
  <2>. QED
    BY <2>2, MarkedFields DEF Same
<1>3. ASSUME NEW k \in net PROVE \E x \in net' : Same(x, k)
  <2>1. PICK x : x = Marked(k, {op.lock}, Rows \ {r})
    OBVIOUS
  <2>. QED
    BY <1>1, <1>2, <2>1
<1>. QED
  BY <1>1, <1>2, <1>3

LEMMA PutAwayStay ==
  ASSUME TypeInv, PutAway
  PROVE  /\ \A k \in net : \E x \in net' : Same(x, k) /\ x.passed = k.passed
         /\ \A x \in net' : \E k \in net : Same(x, k) /\ x.passed = k.passed
<1>1. net' = {Marked(k, Away, AnyRow) : k \in net}
  BY PutAwayFacts
<1>2. ASSUME NEW k \in net, NEW x, x = Marked(k, Away, AnyRow)
      PROVE  Same(x, k) /\ x.passed = k.passed
  <2>1. PICK locks, rows : locks = Away /\ rows = AnyRow
    OBVIOUS
  <2>2. k \in CallType /\ x = Marked(k, locks, rows)
    BY <1>2, <2>1, TypeParts
  <2>. QED
    BY <2>2, MarkedFields DEF Same
<1>3. ASSUME NEW k \in net PROVE \E x \in net' : Same(x, k) /\ x.passed = k.passed
  <2>1. PICK x : x = Marked(k, Away, AnyRow)
    OBVIOUS
  <2>. QED
    BY <1>1, <1>2, <2>1
<1>. QED
  BY <1>1, <1>2, <1>3

\* A listing sent anew is for the filter of the screen, unless it was asked
\* for under another, and then there is one place only.
LEMMA AddedPlace ==
  ASSUME TypeInv, NEW m, NEW locks, NEW gone, NEW add,
         HeardAs(m, locks, gone, add), NEW n \in add
  PROVE  IsList(n) /\ n \in net' /\ Place(n.param) = Place(param)
<1>1. /\ IsList(n) /\ n \in net'
      /\ Querying => n.param = param
  BY DEF HeardAs
<1>2. ~Querying => page.filter # "keyed"
  BY DEF Querying
<1>. QED
  BY <1>1, <1>2 DEF Place

LEMMA ComingHeard ==
  ASSUME TypeInv, NEW m \in net, NEW locks, NEW gone, NEW add,
         HeardAs(m, locks, gone, add), page' = page
  PROVE  /\ \A p : Coming(p) => Coming(p)' \/ (IsList(m) /\ Place(m.param) = p)
         /\ Relists(m) => \E x \in net' : IsList(x) /\ Place(x.param) = Place(param)
<1>1. /\ \A k \in gone \ {m} : IsList(k) /\ k.param = param
      /\ m \in gone /\ (add = {} => gone = {m} /\ ~Relists(m))
  BY DEF HeardAs
<1>2. \A n \in add : IsList(n) /\ n \in net' /\ Place(n.param) = Place(param)
  BY AddedPlace
<1>3. \A q : Place(q)' = Place(q)
  BY DEF Place, Blank, Zero
<1>4. ASSUME NEW p, Coming(p), ~(IsList(m) /\ Place(m.param) = p) PROVE Coming(p)'
  <2>1. PICK k \in net : IsList(k) /\ Place(k.param) = p
    BY <1>4 DEF Coming
  <2>2. k # m
    BY <1>4, <2>1
  <2>3. CASE k \in gone
    <3>1. PICK n \in add : TRUE
      BY <1>1, <2>2, <2>3
    <3>2. IsList(n) /\ n \in net' /\ Place(n.param) = p
      BY <1>1, <1>2, <2>1, <2>2, <2>3, <3>1
    <3>. QED
      BY <1>3, <3>2 DEF Coming, IsList
  <2>4. CASE k \notin gone
    <3>1. PICK x \in net' : Same(x, k)
      BY <2>4, HeardStay
    <3>2. IsList(x) /\ x.param = k.param
      BY <2>1, <3>1, SameKind DEF Same
    <3>. QED
      BY <1>3, <2>1, <3>2 DEF Coming, IsList
  <2>. QED
    BY <2>3, <2>4
<1>. QED
  BY <1>1, <1>2, <1>4

\* The rows a change was about are rows, and its answer holds their versions.
LEMMA ToldRows ==
  ASSUME TypeInv, NEW m \in net, m.ok, Changes(m)
  PROVE  Told(m) \subseteq Rows
<1>1. m \in CallType
  BY TypeParts
<1>2. ~IsList(m) /\ m.op.kind # "order"
  BY DEF Changes, IsList
<1>3. m.op.kind # "all" => m.row \in Rows
  BY <1>2, SecretRow
<1>. QED
  BY <1>1, <1>3 DEF Told, CallType

LEMMA DoneShows ==
  ASSUME TypeInv, NEW m \in net, Done(m)
  PROVE  /\ ~IsList(m) /\ m.ok /\ m.op \in page.ops
         /\ UNCHANGED <<page, param, server>>
         /\ open' = IF m.op.after = "leave" THEN "leaving" ELSE open
         /\ acked' = [r \in Rows |->
                        IF Changes(m) /\ r \in Told(m) /\ m.ver[r] > acked[r]
                          THEN m.ver[r] ELSE acked[r]]
         /\ \/ /\ m.op.after = "splice" /\ shown[Place(param)].known /\ Changes(m)
               /\ shown' = [shown EXCEPT ![Place(param)] =
                              Spliced(shown[Place(param)], m)]
            \/ m.op.after \in {"refresh", "invalidate"} /\ shown' = Stale
            \/ /\ m.op.after = "splice" => ~shown[Place(param)].known \/ ~Changes(m)
               /\ m.op.after \notin {"refresh", "invalidate"} /\ shown' = shown
<1>1. /\ ~IsList(m) /\ m.ok /\ UNCHANGED <<page, param, server>>
      /\ open' = IF m.op.after = "leave" THEN "leaving" ELSE open
      /\ acked' = [r \in Rows |->
                     IF Changes(m) /\ r \in Told(m) /\ m.ver[r] > acked[r]
                       THEN m.ver[r] ELSE acked[r]]
      /\ shown' = CASE m.op.after = "splice" /\ shown[Place(param)].known /\ Changes(m) ->
                         [shown EXCEPT ![Place(param)] = Spliced(@, m)]
                    [] m.op.after \in {"refresh", "invalidate"} -> Stale
                    [] OTHER -> shown
  BY Zenon DEF Done
<1>2. m.op \in page.ops
  BY <1>1 DEF TypeInv, Fits
<1>3. PICK a : a = [shown EXCEPT ![Place(param)] = Spliced(@, m)]
  OBVIOUS
<1>4. a = [shown EXCEPT ![Place(param)] = Spliced(shown[Place(param)], m)]
  BY <1>3, Zenon
<1>5. shown' = CASE m.op.after = "splice" /\ shown[Place(param)].known /\ Changes(m) -> a
                 [] m.op.after \in {"refresh", "invalidate"} -> Stale
                 [] OTHER -> shown
  BY <1>1, <1>3
<1>6. \/ /\ m.op.after = "splice" /\ shown[Place(param)].known /\ Changes(m)
         /\ shown' = a
      \/ m.op.after \in {"refresh", "invalidate"} /\ shown' = Stale
      \/ /\ m.op.after = "splice" => ~shown[Place(param)].known \/ ~Changes(m)
         /\ m.op.after \notin {"refresh", "invalidate"} /\ shown' = shown
  BY <1>5, Zenon
<1>. QED
  BY <1>1, <1>2, <1>4, <1>6

LEMMA FailedShows ==
  ASSUME NEW m, Failed(m)
  PROVE  /\ ~IsList(m) /\ ~m.ok
         /\ UNCHANGED <<page, open, param, server, acked>>
         /\ shown' = shown \/ (m.op.error = "invalidate" /\ shown' = Stale)
BY Zenon DEF Failed

(***************************************************************************)
(* The server is ahead of what the screen was told of.                     *)
(***************************************************************************)
LEMMA AheadHear ==
  ASSUME TypeInv, OneListing, AheadInv, NEW m \in net, Hear(m)
  PROVE  AheadInv'
<1>1. PICK locks, gone, add : HeardAs(m, locks, gone, add)
  BY AnswerHeard
<1>2. /\ server.ver \in [Rows -> Nat] /\ acked \in [Rows -> Nat] /\ m \in CallType
      /\ m.ver \in [Rows -> Nat]
  BY TypeParts DEF CallType
<1>3. server' = server
  <2>1. Listed(m) => server' = server
    BY Zenon DEF Listed
  <2>. QED
    BY <2>1, DoneShows, FailedShows, LookFacts DEF Hear
<1>4. \A r \in Rows : acked'[r] <= server.ver[r]
  <2>1. CASE acked' = acked
    BY <1>2, <2>1 DEF AheadInv, UpToDate
  <2>2. CASE Done(m)
    <3>1. SUFFICES ASSUME NEW r \in Rows PROVE acked'[r] <= server.ver[r]
      OBVIOUS
    <3>2. /\ m.ok
          /\ acked' = [q \in Rows |->
                         IF Changes(m) /\ q \in Told(m) /\ m.ver[q] > acked[q]
                           THEN m.ver[q] ELSE acked[q]]
      BY <2>2, DoneShows
    <3>3. CASE Changes(m) /\ r \in Told(m) /\ m.ver[r] > acked[r]
      BY <3>2, <3>3 DEF AheadInv
    <3>4. CASE ~(Changes(m) /\ r \in Told(m) /\ m.ver[r] > acked[r])
      BY <1>2, <3>2, <3>4 DEF AheadInv, UpToDate
    <3>. QED
      BY <3>3, <3>4
  <2>3. Listed(m) => acked' = acked
    BY Zenon DEF Listed
  <2>. QED
    BY <2>1, <2>2, <2>3, FailedShows, LookFacts DEF Hear
<1>5. ASSUME NEW x \in net', x.ok, Changes(x), NEW r \in Told(x)
      PROVE  x.ver[r] <= server.ver[r]
  <2>1. x \notin add
    BY <1>1, <1>5 DEF HeardAs, Changes, IsList
  <2>2. PICK k \in net : Same(x, k)
    BY <1>1, <2>1, HeardStay
  <2>. QED
    BY <1>5, <2>2, SameKind DEF Same, AheadInv
<1>6. \A r \in Rows : server.ver[r] >= acked'[r]
  <2>1. acked' \in [Rows -> Nat]
    <3>1. TypeInv'
      BY TypeHear
    <3>. QED
      BY <3>1 DEF TypeInv, TypeOK
  <2>. QED
    BY <1>2, <1>4, <2>1
<1>. QED
  BY <1>3, <1>5, <1>6 DEF AheadInv, UpToDate, Changes, Told

LEMMA AheadWork ==
  ASSUME TypeInv, AheadInv, NEW m \in net, Work(m) \/ Lose(m)
  PROVE  AheadInv'
<1>1. m \in CallType /\ server.ver \in [Rows -> Nat] /\ acked \in [Rows -> Nat]
  BY TypeParts
<1>2. ASSUME Serve(m) PROVE AheadInv'
  <2>1. PICK n, r : ServedAs(m, n, r)
    BY <1>2, ServeFacts
  <2>2. /\ net' = (net \ {m}) \union {n} /\ n.op = m.op /\ n.row = r
        /\ Whole(m) => n.ver = server'.ver /\ n.there = server'.there
        /\ ~Whole(m) /\ m.op.kind # "more" =>
             n.ver = [x \in Rows |-> IF x = r THEN server'.ver[x] ELSE 0]
        /\ server'.ver = [x \in Rows |-> IF x \in Changed(m, r)
                                          THEN server.ver[x] + 1 ELSE server.ver[x]]
        /\ server' \in [ver : [Rows -> Nat], there : SUBSET Rows, key : [Rows -> Nat],
                 ended : SUBSET Rows]
        /\ Changes(m) /\ m.op.kind # "all" => r \in Rows
        /\ acked' = acked
    BY <2>1, Zenon DEF ServedAs
  <2>3. \A q \in Rows : server'.ver[q] >= server.ver[q]
    BY <1>1, <2>2
  <2>4. UpToDate(server.ver)'
    BY <1>1, <2>2, <2>3 DEF AheadInv, UpToDate
  <2>5. ASSUME Changes(n), NEW q \in Told(n) PROVE n.ver[q] <= server'.ver[q]
    <3>1. Changes(m) /\ m.op.kind # "more"
      BY <2>2, <2>5 DEF Changes
    <3>2. \A x \in Rows : server'.ver[x] \in Nat
      BY <2>2
    <3>3. CASE m.op.kind = "all"
      BY <2>2, <2>5, <3>2, <3>3 DEF Told, Whole
    <3>4. CASE m.op.kind # "all"
      <4>1. q = r /\ r \in Rows /\ ~Whole(m)
        BY <2>2, <2>5, <3>1, <3>4 DEF Told, Whole, Changes
      <4>. QED
        BY <2>2, <3>1, <3>2, <4>1
    <3>. QED
      BY <3>3, <3>4
  <2>6. ASSUME NEW k \in net, k.ok, Changes(k), NEW q \in Told(k)
        PROVE  k.ver[q] <= server'.ver[q]
    <3>1. q \in Rows /\ k.ver \in [Rows -> Nat]
      BY <2>6, TypeParts, ToldRows DEF CallType
    <3>2. k.ver[q] <= server.ver[q]
      BY <2>6 DEF AheadInv
    <3>. QED
      BY <1>1, <2>2, <2>3, <3>1, <3>2
  <2>. QED
    BY <2>2, <2>4, <2>5, <2>6 DEF AheadInv, Changes, Told
<1>3. ASSUME Refuse(m) \/ Lose(m) PROVE AheadInv'
  <2>1. PICK n : n = Answer(m, FALSE)
    OBVIOUS
  <2>2. ~n.ok
    BY <1>1, <2>1, RefusedFields
  <2>3. net' = (net \ {m}) \union {n} /\ UNCHANGED <<server, acked>>
    BY <1>3, <2>1, Zenon DEF Refuse, Lose, Becomes
  <2>. QED
    BY <2>2, <2>3 DEF AheadInv, UpToDate, Changes, Told
<1>. QED
  BY <1>2, <1>3 DEF Work

\* A call the user or a timer sends is not answered yet; the others stay as
\* they are, but for marks.
LEMMA UserStay ==
  ASSUME TypeInv, User
  PROVE  /\ UNCHANGED <<page, server, acked>>
         /\ \A x \in net' : ~x.ok \/ \E k \in net : Same(x, k)
<1>1. ASSUME NEW op, NEW r \in Rows \union {Nobody}, Start(op, r)
      PROVE  /\ UNCHANGED <<page, server, acked>>
             /\ \A x \in net' : ~x.ok \/ \E k \in net : Same(x, k)
  <2>1. PICK n : StartedAs(op, r, n)
    BY <1>1, StartFacts
  <2>2. ~n.ok
    BY <2>1 DEF StartedAs
  <2>3. UNCHANGED <<page, server, acked>>
    BY <1>1, Zenon DEF Start
  <2>. QED
    BY <2>1, <2>2, <2>3, StartStay
<1>2. \A k \in net : Same(k, k)
  BY DEF Same
<1>3. ASSUME NEW p \in Params, Filter(p)
      PROVE  /\ UNCHANGED <<page, server, acked>>
             /\ \A x \in net' : ~x.ok \/ \E k \in net : Same(x, k)
  <2>1. /\ UNCHANGED <<page, server, acked>>
        /\ net' \subseteq net \union {List(p)}
    BY <1>3, Zenon DEF Filter
  <2>2. ~List(p).ok
    BY PlainList, TypeParts
  <2>. QED
    BY <1>2, <2>1, <2>2
<1>4. ASSUME More
      PROVE  /\ UNCHANGED <<page, server, acked>>
             /\ \A x \in net' : ~x.ok \/ \E k \in net : Same(x, k)
  <2>1. UNCHANGED <<page, server, acked>>
    BY <1>4, Zenon DEF More
  <2>2. PICK n : n = NextListing
    OBVIOUS
  <2>3. SwapAs(Listings(param), n) /\ ~n.ok
    BY <1>4, <2>2, MoreSwaps
  <2>. QED
    BY <1>2, <2>1, <2>3 DEF SwapAs
<1>5. ASSUME Poll
      PROVE  /\ UNCHANGED <<page, server, acked>>
             /\ \A x \in net' : ~x.ok \/ \E k \in net : Same(x, k)
  <2>1. UNCHANGED <<page, server, acked>> /\ net' = net \union {List(param)}
    BY <1>5 DEF Poll
  <2>2. ~List(param).ok
    BY PlainList, TypeParts
  <2>. QED
    BY <1>2, <2>1, <2>2
<1>6. ASSUME Leave
      PROVE  /\ UNCHANGED <<page, server, acked>>
             /\ \A x \in net' : ~x.ok \/ \E k \in net : Same(x, k)
  <2>1. UNCHANGED <<page, server, acked>> /\ net' = {}
    BY <1>6, Zenon DEF Leave
  <2>. QED
    BY <2>1
<1>7. ASSUME PutAway
      PROVE  /\ UNCHANGED <<page, server, acked>>
             /\ \A x \in net' : ~x.ok \/ \E k \in net : Same(x, k)
  BY <1>7, PutAwayFacts, PutAwayStay
<1>8. ASSUME Hide
      PROVE  /\ UNCHANGED <<page, server, acked>>
             /\ \A x \in net' : ~x.ok \/ \E k \in net : Same(x, k)
  BY <1>2, <1>8, HideFacts
<1>. QED
  BY <1>1, <1>3, <1>4, <1>5, <1>6, <1>7, <1>8 DEF User

LEMMA AheadUser ==
  ASSUME TypeInv, AheadInv, User
  PROVE  AheadInv'
<1>1. /\ UNCHANGED <<page, server, acked>>
      /\ \A x \in net' : ~x.ok \/ \E k \in net : Same(x, k)
  BY UserStay
<1>2. ASSUME NEW x \in net', x.ok, Changes(x), NEW r \in Told(x)
      PROVE  x.ver[r] <= server.ver[r]
  <2>1. PICK k \in net : Same(x, k)
    BY <1>1, <1>2
  <2>. QED
    BY <1>2, <2>1, SameKind DEF Same, AheadInv
<1>. QED
  BY <1>1, <1>2 DEF AheadInv, UpToDate, Changes, Told

(***************************************************************************)
(* What is cached is known, and a screen on the cache shows no guess; a    *)
(* screen without a filter stays with the one it has.                      *)
(***************************************************************************)
LEMMA CopyHear ==
  ASSUME TypeInv, CopyInv, FixedInv, NEW m \in net, Hear(m)
  PROVE  CopyInv' /\ (page.filter = "fixed" => \A p \in Params : shown'[p].param = param)
<1>1. shown \in [Params -> CopyType] /\ Place(param) \in Params
      /\ Place(m.param) \in Params /\ m \in CallType
  BY TypeParts, BlankIs DEF Place, CallType
<1>2. CASE Listed(m)
  <2>1. PICK e \in CopyType :
          /\ shown' = [shown EXCEPT ![Place(m.param)] = e]
          /\ m.ok => e.known /\ e.param = m.param /\ e.guess = {}
          /\ ~m.ok => /\ e.known = shown[Place(m.param)].known
                      /\ e.valid = shown[Place(m.param)].valid
                      /\ e.param = shown[Place(m.param)].param
                      /\ e.guess = shown[Place(m.param)].guess
    BY <1>2, ListedShows
  <2>2. page' = page
    BY <1>2, Zenon DEF Listed
  <2>3. e.valid => e.known
    BY <1>1, <2>1 DEF CopyInv
  <2>4. page.filter = "keyed" => e.guess = {}
    BY <1>1, <2>1 DEF CopyInv
  <2>5. page.filter = "fixed" => e.param = param
    BY <1>1, <2>1 DEF FixedInv
  <2>. QED
    BY <1>1, <2>1, <2>2, <2>3, <2>4, <2>5 DEF CopyInv, FixedInv
<1>3. ASSUME shown' = Stale \/ shown' = shown, page' = page
      PROVE  CopyInv' /\ (page.filter = "fixed" => \A p \in Params : shown'[p].param = param)
  BY <1>1, <1>3, StaleIs DEF CopyInv, FixedInv
<1>4. CASE Done(m)
  <2>1. page' = page /\ m.op \in page.ops
    BY <1>4, DoneShows
  <2>2. CASE /\ m.op.after = "splice"
             /\ shown' = [shown EXCEPT ![Place(param)] = Spliced(shown[Place(param)], m)]
    <3>1. page.filter # "keyed"
      BY <2>1, <2>2, PageFits DEF TypeInv, CacheFits
    <3>2. PICK c, e : c = shown[Place(param)] /\ e = Spliced(c, m)
      OBVIOUS
    <3>3. c \in CopyType
      BY <1>1, <3>2
    <3>4. e.known = c.known /\ e.valid = c.valid /\ e.param = c.param
      BY <1>1, <2>1, <3>2, <3>3, SplicedFields
    <3>5. shown' = [shown EXCEPT ![Place(param)] = e]
      BY <2>2, <3>2
    <3>. QED
      BY <1>1, <2>1, <3>1, <3>2, <3>4, <3>5 DEF CopyInv, FixedInv
  <2>. QED
    BY <1>3, <1>4, <2>1, <2>2, DoneShows
<1>5. CASE Failed(m)
  BY <1>3, <1>5, FailedShows
<1>6. CASE LookAgain(m)
  BY <1>3, <1>6, LookFacts
<1>. QED
  BY <1>2, <1>4, <1>5, <1>6 DEF Hear

LEMMA FixedHear ==
  ASSUME TypeInv, OneListing, CopyInv, FixedInv, NEW m \in net, Hear(m)
  PROVE  FixedInv'
<1>1. PICK locks, gone, add : HeardAs(m, locks, gone, add)
  BY AnswerHeard
<1>2. page' = page /\ param' = param
  <2>1. Listed(m) => page' = page /\ param' = param
    BY Zenon DEF Listed
  <2>. QED
    BY <2>1, DoneShows, FailedShows, LookFacts DEF Hear
<1>3. \A n \in add : n.param \in {param, m.param}
  BY <1>1 DEF HeardAs
<1>4. ASSUME NEW x \in net' PROVE x.param = param \/ \E k \in net : x.param = k.param
  BY <1>1, <1>3, HeardStay DEF Same
<1>. QED
  BY <1>2, <1>4, CopyHear DEF FixedInv, Blank, Zero

LEMMA CopyUser ==
  ASSUME TypeInv, CopyInv, FixedInv, User
  PROVE  CopyInv' /\ FixedInv'
<1>1. ASSUME NEW op, NEW r \in Rows \union {Nobody}, Start(op, r)
      PROVE  CopyInv' /\ FixedInv'
  <2>1. /\ page' = page /\ param' = param /\ op \in page.ops
        /\ shown' = IF op.early /\ r \in Rows
                      THEN [shown EXCEPT ![Place(param)].guess = @ \union {r}]
                      ELSE shown
    BY <1>1, Zenon DEF Start
  <2>2. shown \in [Params -> CopyType] /\ Place(param) \in Params
    BY TypeParts, BlankIs DEF Place
  <2>3. \A p \in Params : /\ shown'[p].known = shown[p].known
                          /\ shown'[p].valid = shown[p].valid
                          /\ shown'[p].param = shown[p].param
                          /\ ~op.early => shown'[p].guess = shown[p].guess
    BY <2>1, <2>2 DEF CopyType
  <2>4. op.early => page.filter # "keyed"
    BY <2>1, PageFits DEF TypeInv, ListFits, CacheFits, Lists
  <2>5. PICK n : StartedAs(op, r, n)
    BY <1>1, StartFacts
  <2>6. n.param = param
    BY <2>5 DEF StartedAs
  <2>7. \A x \in net' : x = n \/ \E k \in net : Same(x, k)
    BY <2>5, StartStay
  <2>8. CopyInv'
    BY <2>1, <2>3, <2>4 DEF CopyInv
  <2>9. FixedInv'
    BY <2>1, <2>3, <2>6, <2>7 DEF FixedInv, Same, Blank, Zero
  <2>. QED
    BY <2>8, <2>9
<1>2. ASSUME page' = page, shown' = shown, param' = param,
             \A x \in net' : x.param = param \/ \E k \in net : x.param = k.param
      PROVE  CopyInv' /\ FixedInv'
  BY <1>2 DEF CopyInv, FixedInv, Blank, Zero
<1>3. ASSUME NEW p \in Params, Filter(p) PROVE CopyInv' /\ FixedInv'
  <2>1. page' = page /\ shown' = shown /\ page.filter # "fixed"
    BY <1>3, Zenon DEF Filter
  <2>. QED
    BY <2>1 DEF CopyInv, FixedInv
<1>4. CASE More
  <2>1. UNCHANGED <<page, shown, param>>
    BY <1>4, Zenon DEF More
  <2>2. PICK n : n = NextListing
    OBVIOUS
  <2>3. SwapAs(Listings(param), n) /\ n.param = param
    BY <1>4, <2>2, MoreSwaps
  <2>. QED
    BY <1>2, <2>1, <2>3 DEF SwapAs
<1>5. CASE Poll
  <2>1. UNCHANGED <<page, shown, param>> /\ net' = net \union {List(param)}
    BY <1>5 DEF Poll
  <2>2. List(param).param = param
    BY PlainList, TypeParts
  <2>. QED
    BY <1>2, <2>1, <2>2
<1>6. CASE Leave
  <2>1. UNCHANGED <<page, shown, param>> /\ net' = {}
    BY <1>6, Zenon DEF Leave
  <2>. QED
    BY <1>2, <2>1
<1>7. CASE PutAway
  BY <1>2, <1>7, PutAwayFacts, PutAwayStay DEF Same
<1>8. CASE Hide
  BY <1>2, <1>8, HideFacts
<1>. QED
  BY <1>1, <1>3, <1>4, <1>5, <1>6, <1>7, <1>8 DEF User

\* Serving, refusing or losing a call changes the call alone.
LEMMA WorkStay ==
  ASSUME TypeInv, NEW m \in net, Work(m) \/ Lose(m)
  PROVE  /\ UNCHANGED <<page, open, param, shown, acked>>
         /\ \E n : /\ net' = (net \ {m}) \union {n}
                   /\ n.id = m.id /\ n.op = m.op /\ n.param = m.param
                   /\ n.holds = m.holds /\ n.passed = m.passed
                   /\ m.op.kind # "create" => n.row = m.row
                   /\ ~n.ok => n.there = m.there /\ n.ver = m.ver
                   /\ n.ok => \E r : ServedAs(m, n, r)
<1>1. m \in CallType
  BY TypeParts
<1>2. CASE Serve(m)
  <2>1. PICK n, r : ServedAs(m, n, r)
    BY <1>2, ServeFacts
  <2>2. /\ UNCHANGED <<page, open, param, shown, acked>>
        /\ net' = (net \ {m}) \union {n} /\ n.ok
        /\ n.id = m.id /\ n.op = m.op /\ n.param = m.param
        /\ n.holds = m.holds /\ n.passed = m.passed
        /\ m.op.kind # "create" => n.row = m.row
    BY <2>1, Zenon DEF ServedAs
  <2>. QED
    BY <2>1, <2>2
<1>3. CASE Refuse(m) \/ Lose(m)
  <2>1. PICK n : n = Answer(m, FALSE)
    OBVIOUS
  <2>2. /\ ~n.ok /\ n.id = m.id /\ n.op = m.op /\ n.row = m.row /\ n.param = m.param
        /\ n.holds = m.holds /\ n.ver = m.ver /\ n.there = m.there
        /\ n.passed = m.passed
    BY <1>1, <2>1, RefusedFields
  <2>3. /\ net' = (net \ {m}) \union {n}
        /\ UNCHANGED <<page, open, param, shown, acked>>
    BY <1>3, <2>1, Zenon DEF Refuse, Lose, Becomes
  <2>. QED
    BY <2>2, <2>3
<1>. QED
  BY <1>2, <1>3 DEF Work

LEMMA CopyWork ==
  ASSUME TypeInv, CopyInv, FixedInv, NEW m \in net, Work(m) \/ Lose(m)
  PROVE  CopyInv' /\ FixedInv'
<1>1. /\ UNCHANGED <<page, param, shown>>
      /\ \E n : net' = (net \ {m}) \union {n} /\ n.param = m.param
  BY WorkStay
<1>. QED
  BY <1>1 DEF CopyInv, FixedInv, Blank, Zero

(***************************************************************************)
(* What a screen shows is up to date, or it says not, or the answer that   *)
(* will put it right is on its way.                                        *)
(***************************************************************************)
LEMMA GuessingHeard ==
  ASSUME TypeInv, NEW m \in net, NEW locks, NEW gone, NEW add,
         HeardAs(m, locks, gone, add), NEW r, Guessing(r)
  PROVE  \/ Guessing(r)'
         \/ ~IsList(m) /\ m.op.early /\ m.row = r
<1>1. PICK k \in net : ~IsList(k) /\ k.op.kind # "create" /\ k.op.early /\ k.row = r
  BY DEF Guessing
<1>2. CASE k = m
  BY <1>1, <1>2
<1>3. CASE k # m
  <2>1. k \in net \ gone
    BY <1>1, <1>3 DEF HeardAs
  <2>2. PICK x \in net' : Same(x, k)
    BY <2>1, HeardStay
  <2>3. ~IsList(x) /\ x.op.kind # "create" /\ x.op.early /\ x.row = r
    BY <1>1, <2>2, SameKind DEF Same
  <2>. QED
    BY <2>3 DEF Guessing, IsList
<1>. QED
  BY <1>2, <1>3

LEMMA FreshHear ==
  ASSUME TypeInv, OneListing, NEW m \in net, Hear(m),
         \A k \in net : ~k.passed => Fresh(k)
  PROVE  \A x \in net' : ~x.passed => Fresh(x)'
<1>1. PICK locks, gone, add : HeardAs(m, locks, gone, add)
  BY AnswerHeard
<1>2. SUFFICES ASSUME NEW x \in net', ~x.passed PROVE Fresh(x)'
  OBVIOUS
<1>3. x \in add => x.op.kind = "list" /\ ~x.ok
  BY <1>1, <1>2 DEF HeardAs
<1>4. CASE x \in add
  BY <1>3, <1>4 DEF Fresh
<1>5. CASE x \notin add
  <2>1. PICK k \in net \ gone :
          /\ k # m /\ Same(x, k) /\ ~k.passed
          /\ IsList(k) => IsList(m)
          /\ ~IsList(k) /\ ~IsList(m) => ~Meet(k, m)
    BY <1>1, <1>2, <1>5, HeardStay
  <2>2. /\ Fresh(x) /\ (IsList(x) <=> IsList(k)) /\ (Changes(x) <=> Changes(k))
        /\ Told(x) = Told(k)
    BY <2>1, SameKind
  <2>3. CASE acked' = acked
    BY <2>2, <2>3 DEF Fresh, UpToDate, IsList, Changes, Told
  <2>4. CASE Done(m)
    <3>1. /\ ~IsList(m)
          /\ acked' = [r \in Rows |->
                         IF Changes(m) /\ r \in Told(m) /\ m.ver[r] > acked[r]
                           THEN m.ver[r] ELSE acked[r]]
      BY <2>4, DoneShows
    <3>2. ~IsList(x) /\ x.op.kind # "more"
      BY <2>1, <2>2, <3>1 DEF IsList
    <3>3. ~Meet(k, m)
      BY <2>1, <2>2, <3>1, <3>2
    <3>4. Told(x) = {k.row} /\ Told(m) = {m.row} /\ k.row # m.row
      BY <2>2, <3>3 DEF Told, Meet
    <3>5. x.ok /\ Changes(x) => \A r \in Told(x) : r \in Rows /\ acked'[r] = acked[r]
      <4>1. x.ok /\ Changes(x) => Told(x) \subseteq Rows
        BY <2>1, <2>2, ToldRows DEF Same
      <4>. QED
        BY <3>1, <3>4, <4>1
    <3>. QED
      BY <2>2, <3>2, <3>5 DEF Fresh, IsList, Changes, Told
  <2>5. Listed(m) => acked' = acked
    BY Zenon DEF Listed
  <2>. QED
    BY <2>3, <2>4, <2>5, FailedShows, LookFacts DEF Hear
<1>. QED
  BY <1>4, <1>5

\* A screen that looks again has a listing on its way for the same filter; it
\* is none that drops answers or is on the cache.
LEMMA LookComes ==
  ASSUME TypeInv, NEW m \in net, LookAgain(m), NEW p, Place(m.param) = p
  PROVE  /\ Coming(p)' /\ page.filter # "flag" /\ ~Querying
         /\ \E n \in net' : IsList(n) /\ n.param = m.param
<1>1. /\ Again(m, {}) /\ UNCHANGED <<page, param>>
  BY Zenon DEF LookAgain
<1>2. m \in CallType /\ sent \in Nat
  BY TypeParts
<1>3. PICK hs, n : hs = {h \in m.holds : h.lock \notin {}} /\ n = Listing(m.param, hs)
  OBVIOUS
<1>4. n \in net'
  BY <1>1, <1>3 DEF Again, Listing
<1>5. hs \subseteq HoldType /\ m.param \in Params
  BY <1>2, <1>3 DEF CallType
<1>6. IsList(n) /\ n.param = m.param
  BY <1>2, <1>3, <1>5, NewList
<1>7. page.filter # "flag" /\ ~Querying
  <2>1. FlagsFit(page) /\ CacheFits(page)
    BY PageFits DEF TypeInv
  <2>. QED
    BY <2>1, LookFacts DEF FlagsFit, Querying, CacheFits, Lists
<1>. QED
  BY <1>1, <1>4, <1>6, <1>7 DEF Coming, IsList, Place, Blank, Zero

LEMMA SettledHear ==
  ASSUME TypeInv, OneListing, page.lists, open' = "yes", NEW m \in net, Hear(m),
         \A k \in net : ~k.passed => Fresh(k),
         \A p \in Params : InUse(p) => Settled(p),
         NEW q \in Params, InUse(q)'
  PROVE  Settled(q)'
<1>1. PICK locks, gone, add : HeardAs(m, locks, gone, add)
  BY AnswerHeard
<1>2. /\ shown \in [Params -> CopyType] /\ Place(param) \in Params
      /\ Place(m.param) \in Params /\ m \in CallType /\ acked \in [Rows -> Nat]
      /\ ListFits(page) /\ CacheFits(page) /\ m.ver \in [Rows -> Nat]
  BY TypeParts, PageFits, BlankIs DEF Place, CallType
<1>3. page' = page /\ param' = param
  <2>1. Listed(m) => page' = page /\ param' = param
    BY Zenon DEF Listed
  <2>. QED
    BY <2>1, DoneShows, FailedShows, LookFacts DEF Hear
<1>4. Place(param)' = Place(param)
  BY <1>3 DEF Place, Blank, Zero
<1>5. /\ Coming(q) => Coming(q)' \/ (IsList(m) /\ Place(m.param) = q)
      /\ Relists(m) => Coming(Place(param))'
  <2>1. \A p : Place(p)' = Place(p)
    BY <1>3 DEF Place, Blank, Zero
  <2>2. Relists(m) => \E x \in net' : IsList(x) /\ Place(x.param) = Place(param)
    BY <1>1, <1>3, ComingHeard
  <2>3. Relists(m) => Coming(Place(param))'
    BY <1>4, <2>1, <2>2 DEF Coming, IsList
  <2>. QED
    BY <1>1, <1>3, <2>3, ComingHeard
<1>6. ASSUME shown'[q] = shown[q], acked' = acked,
             ~(IsList(m) /\ Place(m.param) = q)
      PROVE  Settled(q)'
  <2>1. InUse(q)
    BY <1>3, <1>4, <1>6 DEF InUse
  <2>. QED
    BY <1>5, <1>6, <2>1 DEF Settled, UpToDate
<1>7. ASSUME Relists(m), q = Place(param) PROVE Settled(q)'
  BY <1>4, <1>5, <1>7 DEF Settled
<1>8. page.filter # "keyed" => q = Place(param)
  BY <1>3, <1>4 DEF InUse
<1>9. shown' = Stale => q = Place(param)
  BY <1>2, <1>4, StaleIs DEF InUse
<1>10. CASE Listed(m)
  <2>1. PICK e \in CopyType :
          /\ shown' = [shown EXCEPT ![Place(m.param)] = e]
          /\ m.ok => e.known /\ e.late = m.passed /\ e.ver = m.ver
          /\ ~m.ok => e.failed
    BY <1>10, ListedShows
  <2>2. acked' = acked /\ IsList(m)
    BY <1>10, Zenon DEF Listed
  <2>3. CASE q = Place(m.param)
    <3>1. shown'[q] = e
      BY <1>2, <2>1, <2>3
    <3>2. m.ok /\ ~m.passed => UpToDate(m.ver)
      BY <2>2 DEF Fresh
    <3>3. UpToDate(e.ver)' <=> UpToDate(e.ver)
      BY <2>2 DEF UpToDate
    <3>. QED
      BY <2>1, <3>1, <3>2, <3>3 DEF Settled, UpToDate
  <2>4. CASE q # Place(m.param)
    BY <1>2, <1>6, <2>1, <2>2, <2>4
  <2>. QED
    BY <2>3, <2>4
<1>11. CASE Done(m)
  <2>1. ~IsList(m) /\ m.ok /\ m.op \in page.ops
    BY <1>11, DoneShows
  <2>2. m.op.after # "leave"
    BY <1>11, DoneShows
  <2>3. CASE Relists(m)
    <3>1. m.op.after \in {"reload", "await"} => page.filter # "keyed"
      BY <1>2, <2>1 DEF CacheFits, Lists
    <3>2. m.op.after \in {"refresh", "invalidate"} => shown' = Stale
      BY <1>11, DoneShows
    <3>. QED
      BY <1>7, <1>8, <1>9, <2>1, <2>3, <3>1, <3>2 DEF Relists
  <2>4. CASE ~Relists(m)
    <3>1. m.op.after \in {"none", "splice"}
      <4>1. m.op.after \in {"none", "reload", "await", "splice", "refresh",
                            "invalidate", "leave"}
        BY <2>1, PageFits DEF TypeInv, OpType
      <4>. QED
        BY <2>1, <2>2, <2>4, <4>1 DEF Relists
    <3>2. CASE ~Changes(m)
      <4>1. shown' = shown /\ acked' = [r \in Rows |-> acked[r]]
        BY <1>11, <3>1, <3>2, DoneShows
      <4>2. acked' = acked
        BY <1>2, <4>1
      <4>. QED
        BY <1>6, <2>1, <4>1, <4>2
    <3>3. CASE Changes(m)
      <4>1. m.op.after = "splice" /\ page.filter # "keyed"
        BY <1>2, <2>1, <3>1, <3>3 DEF ListFits, CacheFits, Changes
      <4>2. q = Place(param)
        BY <1>8, <4>1
      <4>3. Settled(q)
        BY <4>2 DEF InUse
      <4>4. PICK c : c = shown[q]
        OBVIOUS
      <4>5. c \in CopyType
        BY <4>4, <1>2
      <4>6. CASE ~c.known
        <5>1. shown' = shown
          BY <1>11, <4>1, <4>2, <4>4, <4>6, DoneShows
        <5>. QED
          BY <1>5, <2>1, <4>3, <4>4, <4>6, <5>1 DEF Settled
      <4>7. CASE c.known
        <5>1. PICK e : e = Spliced(c, m)
          OBVIOUS
        <5>2. shown' = [shown EXCEPT ![q] = e]
          BY <1>11, <3>3, <4>1, <4>2, <4>4, <4>7, <5>1, DoneShows
        <5>3. shown'[q] = e
          BY <1>2, <5>2
        <5>4. /\ e.known = c.known /\ e.failed = c.failed
              /\ c.late => e.late
              /\ m.passed => e.late
              /\ e.ver = [r \in Rows |-> IF r \in Told(m) THEN m.ver[r] ELSE c.ver[r]]
          BY <1>2, <2>1, <4>5, <5>1, SplicedFields
        <5>5. ~m.passed => \A r \in Told(m) : m.ver[r] >= acked[r]
          BY <2>1, <3>3 DEF Fresh
        <5>6. acked' = [r \in Rows |-> IF r \in Told(m) /\ m.ver[r] > acked[r]
                                         THEN m.ver[r] ELSE acked[r]]
          BY <1>11, <3>3, DoneShows
        <5>7. ASSUME UpToDate(c.ver), ~m.passed PROVE UpToDate(e.ver)'
          <6>1. SUFFICES ASSUME NEW r \in Rows PROVE e.ver[r] >= acked'[r]
            BY DEF UpToDate
          <6>2. c.ver \in [Rows -> Nat] /\ c.ver[r] >= acked[r]
            BY <4>5, <5>7 DEF CopyType, UpToDate
          <6>3. CASE r \in Told(m)
            <7>1. e.ver[r] = m.ver[r] /\ m.ver[r] \in Nat /\ acked[r] \in Nat
              BY <1>2, <5>4, <6>3
            <7>2. m.ver[r] >= acked[r] /\ acked'[r] \in {m.ver[r], acked[r]}
              BY <5>5, <5>6, <5>7, <6>3
            <7>. QED
              BY <7>1, <7>2
          <6>4. CASE r \notin Told(m)
            BY <1>2, <5>4, <5>6, <6>2, <6>4
          <6>. QED
            BY <6>3, <6>4
        <5>. QED
          BY <1>5, <2>1, <4>3, <4>4, <5>3, <5>4, <5>7 DEF Settled
      <4>. QED
        BY <4>6, <4>7
    <3>. QED
      BY <3>2, <3>3
  <2>. QED
    BY <2>3, <2>4
<1>12. CASE Failed(m)
  <2>1. /\ ~IsList(m) /\ ~m.ok /\ acked' = acked
        /\ shown' = shown \/ (m.op.error = "invalidate" /\ shown' = Stale)
    BY <1>12, FailedShows
  <2>2. CASE shown' = shown
    BY <1>6, <2>1, <2>2
  <2>3. CASE m.op.error = "invalidate" /\ shown' = Stale
    BY <1>7, <1>9, <2>1, <2>3 DEF Relists
  <2>. QED
    BY <2>1, <2>2, <2>3
<1>13. CASE LookAgain(m)
  <2>1. shown' = shown /\ acked' = acked /\ IsList(m)
    BY <1>13, LookFacts
  <2>2. CASE Place(m.param) = q
    BY <1>13, <2>2, LookComes DEF Settled
  <2>3. CASE Place(m.param) # q
    BY <1>6, <2>1, <2>3
  <2>. QED
    BY <2>2, <2>3
<1>. QED
  BY <1>10, <1>11, <1>12, <1>13 DEF Hear

LEMMA GuessesHear ==
  ASSUME TypeInv, OneListing, page.lists, open' = "yes", NEW m \in net, Hear(m),
         \A p \in Params : InUse(p) => Settled(p), GuessesOwned
  PROVE  GuessesOwned'
<1>1. PICK locks, gone, add : HeardAs(m, locks, gone, add)
  BY AnswerHeard
<1>2. /\ shown \in [Params -> CopyType] /\ Place(param) \in Params
      /\ Place(m.param) \in Params /\ m \in CallType /\ ListFits(page)
  BY TypeParts, PageFits, BlankIs DEF Place, CallType
<1>3. page' = page /\ param' = param
  <2>1. Listed(m) => page' = page /\ param' = param
    BY Zenon DEF Listed
  <2>. QED
    BY <2>1, DoneShows, FailedShows, LookFacts DEF Hear
<1>4. \A p : Place(p)' = Place(p)
  BY <1>3 DEF Place, Blank, Zero
<1>5. PICK q : q = Place(param)
  OBVIOUS
<1>6. /\ Copy = shown[q] /\ Copy' = shown'[q] /\ Place(param)' = q /\ q \in Params
      /\ shown[q] \in CopyType
  BY <1>2, <1>3, <1>4, <1>5 DEF Copy, Place, Blank, Zero
<1>7. /\ Coming(q) => Coming(q)' \/ (IsList(m) /\ Place(m.param) = q)
      /\ Relists(m) => Coming(q)'
  <2>1. Relists(m) => \E x \in net' : IsList(x) /\ Place(x.param) = q
    BY <1>1, <1>3, <1>5, ComingHeard
  <2>2. Relists(m) => Coming(q)'
    BY <1>4, <2>1 DEF Coming, IsList
  <2>. QED
    BY <1>1, <1>3, <2>2, ComingHeard
<1>8. CASE Coming(q)'
  BY <1>6, <1>8 DEF GuessesOwned
<1>9. ASSUME shown'[q].failed = shown[q].failed, shown'[q].guess \subseteq shown[q].guess,
             ~Coming(q)', ~(IsList(m) /\ Place(m.param) = q),
             ~IsList(m) /\ m.op.early => m.row \notin shown'[q].guess
      PROVE  GuessesOwned'
  <2>1. shown[q].failed \/ \A r \in shown[q].guess : Guessing(r)
    BY <1>5, <1>6, <1>7, <1>9 DEF GuessesOwned
  <2>2. CASE shown[q].failed
    BY <1>6, <1>9, <2>2 DEF GuessesOwned
  <2>3. CASE \A r \in shown[q].guess : Guessing(r)
    <3>1. ASSUME NEW r \in shown'[q].guess PROVE Guessing(r)'
      <4>1. Guessing(r)
        BY <1>9, <2>3
      <4>. QED
        BY <1>1, <1>9, <4>1, GuessingHeard
    <3>. QED
      BY <1>6, <3>1 DEF GuessesOwned
  <2>. QED
    BY <2>1, <2>2, <2>3
<1>10. CASE Listed(m) /\ ~Coming(q)'
  <2>1. PICK e \in CopyType :
          /\ shown' = [shown EXCEPT ![Place(m.param)] = e]
          /\ m.ok => e.guess = {}
          /\ ~m.ok => e.failed
    BY <1>10, ListedShows
  <2>2. IsList(m)
    BY <1>10, Zenon DEF Listed
  <2>3. CASE q = Place(m.param)
    <3>1. shown'[q] = e
      BY <1>2, <2>1, <2>3
    <3>. QED
      BY <1>6, <2>1, <3>1 DEF GuessesOwned
  <2>4. CASE q # Place(m.param)
    BY <1>6, <1>9, <1>10, <2>1, <2>2, <2>4
  <2>. QED
    BY <2>3, <2>4
<1>11. CASE Done(m) /\ ~Coming(q)'
  <2>1. ~IsList(m) /\ m.ok /\ m.op \in page.ops /\ ~Relists(m)
    BY <1>7, <1>11, DoneShows
  <2>2. m.op.early => m.op.after = "splice" /\ Changes(m)
    BY <1>2, <2>1 DEF ListFits, Relists, Changes
  <2>3. m.op.after \notin {"refresh", "invalidate"}
    BY <2>1 DEF Relists
  <2>4. CASE /\ shown[q].known
             /\ shown' = [shown EXCEPT ![q] = Spliced(shown[q], m)]
    <3>1. PICK c, e : c = shown[q] /\ e = Spliced(c, m)
      OBVIOUS
    <3>2. e.failed = c.failed /\ e.guess = c.guess \ {m.row}
      BY <1>2, <1>6, <2>1, <3>1, SplicedFields
    <3>3. shown'[q] = e
      BY <1>2, <1>6, <2>4, <3>1
    <3>. QED
      BY <1>9, <1>11, <2>1, <3>1, <3>2, <3>3
  <2>5. CASE /\ m.op.after = "splice" => ~shown[q].known \/ ~Changes(m)
             /\ shown' = shown
    <3>1. CASE m.op.early
      <4>1. ~shown[q].known
        BY <2>2, <2>5, <3>1
      <4>2. shown[q].failed
        BY <1>5, <1>6, <1>7, <1>11, <2>1, <4>1 DEF InUse, Settled
      <4>. QED
        BY <1>6, <2>5, <4>2 DEF GuessesOwned
    <3>2. CASE ~m.op.early
      BY <1>9, <1>11, <2>1, <2>5, <3>2
    <3>. QED
      BY <3>1, <3>2
  <2>. QED
    BY <1>5, <1>11, <2>3, <2>4, <2>5, DoneShows
<1>12. CASE Failed(m) /\ ~Coming(q)'
  <2>1. ~IsList(m) /\ ~m.ok /\ ~Relists(m) /\ m.op.error = "say"
    BY <1>7, <1>12, FailedShows DEF Relists
  <2>2. shown' = shown
    BY <1>12, <2>1, FailedShows
  <2>3. ~m.op.early
    BY <1>2, <2>1 DEF ListFits, TypeInv, Fits
  <2>. QED
    BY <1>9, <1>12, <2>1, <2>2, <2>3
<1>13. CASE LookAgain(m) /\ ~Coming(q)'
  <2>1. shown' = shown /\ IsList(m)
    BY <1>13, LookFacts
  <2>2. Place(m.param) # q
    BY <1>13, LookComes
  <2>. QED
    BY <1>9, <1>13, <2>1, <2>2
<1>. QED
  BY <1>8, <1>10, <1>11, <1>12, <1>13 DEF Hear

LEMMA ShownHear ==
  ASSUME TypeInv, OneListing, ShownInv, NEW m \in net, Hear(m)
  PROVE  ShownInv'
<1>1. page' = page /\ (open' = "yes" => open = "yes")
  <2>1. Listed(m) => page' = page /\ open' = open
    BY Zenon DEF Listed
  <2>2. Done(m) => page' = page /\ (open' = "yes" => open = "yes")
    BY DoneShows
  <2>. QED
    BY <2>1, <2>2, FailedShows, LookFacts DEF Hear
<1>2. SUFFICES ASSUME open' = "yes", page.lists
               PROVE  /\ \A x \in net' : ~x.passed => Fresh(x)'
                      /\ \A p \in Params : InUse(p)' => Settled(p)'
                      /\ GuessesOwned'
  BY <1>1 DEF ShownInv
<1>3. /\ \A k \in net : ~k.passed => Fresh(k)
      /\ \A p \in Params : InUse(p) => Settled(p)
      /\ GuessesOwned
  BY <1>1, <1>2 DEF ShownInv
<1>4. \A x \in net' : ~x.passed => Fresh(x)'
  BY <1>3, FreshHear
<1>5. \A p \in Params : InUse(p)' => Settled(p)'
  BY <1>2, <1>3, SettledHear
<1>6. GuessesOwned'
  BY <1>2, <1>3, GuessesHear
<1>. QED
  BY <1>4, <1>5, <1>6

LEMMA ShownStart ==
  ASSUME TypeInv, ShownInv, NEW op, NEW r \in Rows \union {Nobody}, Start(op, r)
  PROVE  ShownInv'
<1>1. /\ UNCHANGED <<page, open, param, server, acked>>
      /\ op.kind \in Rowless <=> r = Nobody
      /\ shown' = IF op.early /\ r \in Rows
                    THEN [shown EXCEPT ![Place(param)].guess = @ \union {r}]
                    ELSE shown
  BY Zenon DEF Start
<1>2. shown \in [Params -> CopyType] /\ Place(param) \in Params
  BY TypeParts, BlankIs DEF Place
<1>3. SUFFICES ASSUME open = "yes", page.lists,
                      \A k \in net : ~k.passed => Fresh(k),
                      \A p \in Params : InUse(p) => Settled(p),
                      GuessesOwned
               PROVE  /\ \A x \in net' : ~x.passed => Fresh(x)'
                      /\ \A p \in Params : InUse(p)' => Settled(p)'
                      /\ GuessesOwned'
  BY <1>1 DEF ShownInv
<1>4. PICK n : StartedAs(op, r, n)
  BY StartFacts
<1>5. n \in net' /\ ~n.ok /\ ~IsList(n) /\ n.op = op /\ n.row = r
  BY <1>4 DEF StartedAs
<1>6. /\ \A k \in net : \E x \in net' : Same(x, k)
      /\ \A x \in net' : x # n => \E k \in net : Same(x, k) /\ x.passed = k.passed
  BY <1>4, StartStay
<1>7. \A p : Place(p)' = Place(p)
  BY <1>1 DEF Place, Blank, Zero
<1>8. \A p : Coming(p) => Coming(p)'
  <2>1. SUFFICES ASSUME NEW p, NEW k \in net, IsList(k), Place(k.param) = p
                 PROVE  \E x \in net' : IsList(x) /\ Place(x.param) = p
    BY <1>7 DEF Coming, IsList
  <2>2. PICK x \in net' : Same(x, k)
    BY <1>6
  <2>. QED
    BY <2>1, <2>2, SameKind DEF Same
<1>9. ASSUME NEW x \in net', ~x.passed PROVE Fresh(x)'
  <2>1. Fresh(x)
    <3>1. CASE x = n
      BY <1>5, <3>1 DEF Fresh, IsList
    <3>2. CASE x # n
      BY <1>3, <1>6, <1>9, <3>2, SameKind
    <3>. QED
      BY <3>1, <3>2
  <2>. QED
    BY <1>1, <2>1 DEF Fresh, UpToDate, Changes, IsList, Told
<1>10. \A p \in Params : /\ shown'[p].known = shown[p].known
                         /\ shown'[p].valid = shown[p].valid
                         /\ shown'[p].failed = shown[p].failed
                         /\ shown'[p].late = shown[p].late
                         /\ shown'[p].ver = shown[p].ver
  BY <1>1, <1>2 DEF CopyType
<1>11. \A p \in Params : InUse(p)' => Settled(p)'
  <2>1. \A p \in Params : InUse(p)' => InUse(p)
    BY <1>1, <1>7, <1>10 DEF InUse
  <2>. QED
    BY <1>1, <1>3, <1>8, <1>10, <2>1 DEF Settled, UpToDate
<1>12. GuessesOwned'
  <2>1. PICK q : q = Place(param)
    OBVIOUS
  <2>2. /\ Copy = shown[q] /\ Copy' = shown'[q] /\ Place(param)' = q /\ q \in Params
    BY <1>1, <1>2, <1>7, <2>1 DEF Copy, Place, Blank, Zero
  <2>3. CASE shown[q].failed \/ Coming(q)
    BY <1>8, <1>10, <2>2, <2>3 DEF GuessesOwned
  <2>4. CASE \A s \in shown[q].guess : Guessing(s)
    <3>1. ASSUME NEW s, Guessing(s) PROVE Guessing(s)'
      <4>1. PICK k \in net : ~IsList(k) /\ k.op.kind # "create" /\ k.op.early /\ k.row = s
        BY <3>1 DEF Guessing
      <4>2. PICK x \in net' : Same(x, k)
        BY <1>6
      <4>3. ~IsList(x) /\ x.op.kind # "create" /\ x.op.early /\ x.row = s
        BY <4>1, <4>2, SameKind DEF Same
      <4>. QED
        BY <4>3 DEF Guessing, IsList
    <3>2. ASSUME op.early, r \in Rows PROVE Guessing(r)'
      <4>1. n.op.kind # "create"
        BY <1>1, <1>5, <3>2, ScreensAssumption DEF Rowless
      <4>. QED
        BY <1>5, <3>2, <4>1 DEF Guessing, IsList
    <3>3. shown'[q].guess \subseteq shown[q].guess
            \union (IF op.early /\ r \in Rows THEN {r} ELSE {})
      BY <1>1, <1>2, <2>1 DEF CopyType
    <3>4. \A s \in shown'[q].guess : Guessing(s)'
      BY <2>4, <3>1, <3>2, <3>3
    <3>. QED
      BY <2>2, <3>4 DEF GuessesOwned
  <2>. QED
    BY <1>3, <2>1, <2>2, <2>3, <2>4 DEF GuessesOwned
<1>. QED
  BY <1>9, <1>11, <1>12

LEMMA ShownFilter ==
  ASSUME TypeInv, CopyInv, ShownInv, NEW p \in Params, Filter(p)
  PROVE  ShownInv'
<1>1. /\ UNCHANGED <<page, open, shown, server, acked>> /\ param' = p
      /\ page.filter # "fixed"
      /\ \/ net' = (net \ Dropped) \union {List(p)}
         \/ /\ page.filter = "keyed" /\ (Listings(p) # {} \/ shown[p].valid)
            /\ net' = net
  BY Zenon DEF Filter
<1>2. SUFFICES ASSUME open = "yes", page.lists,
                      \A k \in net : ~k.passed => Fresh(k),
                      \A q \in Params : InUse(q) => Settled(q)
               PROVE  /\ \A x \in net' : ~x.passed => Fresh(x)'
                      /\ \A q \in Params : InUse(q)' => Settled(q)'
                      /\ GuessesOwned'
  BY <1>1 DEF ShownInv
<1>3. PICK n : n = List(p)
  OBVIOUS
<1>4. IsList(n) /\ n.param = p /\ ~n.ok /\ n.op.kind = "list"
  BY <1>3, PlainList, TypeParts
<1>5. \A q : Place(q)' = Place(q)
  BY <1>1 DEF Place, Blank, Zero
<1>6. PICK place : place = Place(p)
  OBVIOUS
<1>11. Place(param)' = place /\ place \in Params
  BY <1>1, <1>6, BlankIs DEF Place, Blank, Zero
<1>7. ASSUME NEW x \in net', ~x.passed PROVE Fresh(x)'
  <2>1. x = n \/ x \in net
    BY <1>1, <1>3
  <2>2. Fresh(x)
    BY <1>2, <1>4, <1>7, <2>1 DEF Fresh
  <2>. QED
    BY <1>1, <2>2 DEF Fresh, UpToDate, Changes, IsList, Told
<1>8. n \in net' => Coming(place)'
  BY <1>4, <1>5, <1>6 DEF Coming, IsList
<1>9. CASE page.filter # "keyed"
  <2>1. Coming(place)'
    BY <1>1, <1>3, <1>8, <1>9
  <2>2. \A q \in Params : InUse(q)' => q = place
    BY <1>1, <1>9, <1>11 DEF InUse
  <2>3. \A q \in Params : InUse(q)' => Settled(q)'
    BY <2>1, <2>2 DEF Settled
  <2>4. GuessesOwned'
    BY <1>11, <2>1 DEF GuessesOwned
  <2>. QED
    BY <1>7, <2>3, <2>4
<1>10. CASE page.filter = "keyed"
  <2>1. net \subseteq net' /\ place = p
    BY <1>1, <1>6, <1>10 DEF Dropped, Place
  <2>2. \A q : Coming(q) => Coming(q)'
    BY <1>5, <2>1 DEF Coming, IsList
  <2>3. ASSUME NEW q \in Params, Settled(q) PROVE Settled(q)'
    BY <1>1, <2>2, <2>3 DEF Settled, UpToDate
  <2>4. ASSUME NEW q \in Params, InUse(q)' PROVE Settled(q)'
    <3>1. CASE shown[q].valid
      BY <1>2, <1>10, <2>3, <3>1 DEF InUse
    <3>2. CASE ~shown[q].valid
      <4>1. q = p
        BY <1>1, <1>11, <2>1, <2>4, <3>2 DEF InUse
      <4>2. Coming(p)'
        <5>1. CASE n \in net'
          BY <1>8, <2>1, <5>1
        <5>2. CASE Listings(p) # {}
          <6>1. PICK k \in net : IsList(k) /\ k.param = p
            BY <5>2 DEF Listings
          <6>2. Place(k.param) = p
            BY <1>10, <6>1 DEF Place
          <6>3. Coming(p)
            BY <6>1, <6>2 DEF Coming
          <6>. QED
            BY <2>2, <6>3
        <5>. QED
          BY <1>1, <1>3, <3>2, <4>1, <5>1, <5>2
      <4>. QED
        BY <4>1, <4>2 DEF Settled
    <3>. QED
      BY <3>1, <3>2
  <2>5. Copy'.guess = {}
    BY <1>1, <1>10, <1>11, <2>1 DEF CopyInv, Copy
  <2>. QED
    BY <1>7, <2>4, <2>5 DEF GuessesOwned
<1>. QED
  BY <1>9, <1>10

LEMMA ShownMore ==
  ASSUME TypeInv, FixedInv, ShownInv, More
  PROVE  ShownInv'
<1>1. /\ UNCHANGED <<page, open, param, shown, server, acked>>
      /\ page.more /\ Copy.known
  BY Zenon DEF More
<1>2. SUFFICES ASSUME open = "yes", page.lists,
                      \A k \in net : ~k.passed => Fresh(k),
                      \A q \in Params : InUse(q) => Settled(q)
               PROVE  /\ \A x \in net' : ~x.passed => Fresh(x)'
                      /\ \A q \in Params : InUse(q)' => Settled(q)'
                      /\ GuessesOwned'
  BY <1>1 DEF ShownInv
<1>3. PICK n, gone : n = NextListing /\ gone = Listings(param)
  OBVIOUS
<1>4. /\ net' = (net \ gone) \union {n}
      /\ n.op.kind = "more" /\ n.param = param /\ ~n.ok
      /\ n.ver = Copy.ver /\ n.there = Copy.there
      /\ (gone # {} \/ Copy.failed \/ Copy.late) => n.passed
  BY <1>3, MoreSwaps DEF SwapAs
<1>5. IsList(n)
  BY <1>4 DEF IsList
<1>6. PICK q : q = Place(param)
  OBVIOUS
<1>7. q \in Params /\ Copy = shown[q] /\ Copy \in CopyType
  BY <1>6, TypeParts, BlankIs DEF Place, Copy
<1>8. \A p : Place(p)' = Place(p)
  BY <1>1 DEF Place, Blank, Zero
<1>9. /\ page.filter = "keyed" \/ page.filter = "fixed"
      /\ \A k \in net : IsList(k) /\ Place(k.param) = q => k \in gone
      /\ \A k \in gone : Place(k.param) = q
  <2>1. page.filter \in {"fixed", "keyed"}
    BY <1>1, PageFits DEF TypeInv, CacheFits
  <2>2. \A k \in net : IsList(k) /\ Place(k.param) = q => k.param = param
    BY <1>6, <2>1 DEF FixedInv, Place
  <2>. QED
    BY <1>3, <1>6, <2>1, <2>2 DEF Listings
<1>10. n.passed \/ UpToDate(Copy.ver)
  <2>1. ~n.passed => ~Coming(q)
    BY <1>4, <1>9 DEF Coming
  <2>2. Settled(q)
    BY <1>2, <1>6, <1>7 DEF InUse
  <2>. QED
    BY <1>4, <1>7, <2>1, <2>2 DEF Settled
<1>11. ~n.passed => Fresh(n)
  <2>1. ~n.passed => \A r \in n.there : n.ver[r] >= acked[r]
    BY <1>4, <1>7, <1>10 DEF CopyType, UpToDate
  <2>. QED
    BY <1>4, <2>1 DEF Fresh
<1>12. ASSUME NEW x \in net', ~x.passed PROVE Fresh(x)'
  <2>1. Fresh(x)
    BY <1>2, <1>4, <1>11, <1>12
  <2>. QED
    BY <1>1, <2>1 DEF Fresh, UpToDate, Changes, IsList, Told
<1>13. Coming(q)'
  BY <1>4, <1>5, <1>6, <1>8 DEF Coming, IsList
<1>14. ASSUME NEW p, Coming(p) PROVE Coming(p)'
  <2>1. PICK k \in net : IsList(k) /\ Place(k.param) = p
    BY <1>14 DEF Coming
  <2>2. CASE k \in gone
    BY <1>9, <1>13, <2>1, <2>2
  <2>3. CASE k \notin gone
    BY <1>4, <1>8, <2>1, <2>3 DEF Coming, IsList
  <2>. QED
    BY <2>2, <2>3
<1>15. \A p \in Params : InUse(p)' => Settled(p)'
  <2>1. \A p \in Params : InUse(p)' => InUse(p)
    BY <1>1 DEF InUse, Place, Blank, Zero
  <2>. QED
    BY <1>1, <1>2, <1>14, <2>1 DEF Settled, UpToDate
<1>16. GuessesOwned'
  <2>1. Place(param)' = q
    BY <1>1, <1>6 DEF Place, Blank, Zero
  <2>. QED
    BY <1>13, <2>1 DEF GuessesOwned
<1>. QED
  BY <1>12, <1>15, <1>16

LEMMA ShownPoll ==
  ASSUME TypeInv, ShownInv, Poll
  PROVE  ShownInv'
<1>1. /\ UNCHANGED <<page, open, param, shown, server, acked>>
      /\ net' = net \union {List(param)}
  BY DEF Poll
<1>2. PICK n, q : n = List(param) /\ q = Place(param)
  OBVIOUS
<1>3. IsList(n) /\ n.param = param /\ ~n.ok /\ n.op.kind = "list" /\ n \in net'
  BY <1>1, <1>2, PlainList, TypeParts
<1>4. \A p : Place(p)' = Place(p)
  BY <1>1 DEF Place, Blank, Zero
<1>5. Coming(q)' /\ Place(param)' = q
  BY <1>1, <1>2, <1>3, <1>4 DEF Coming, IsList, Place, Blank, Zero
<1>6. \A p : Coming(p) => Coming(p)'
  BY <1>1, <1>4 DEF Coming, IsList
<1>7. SUFFICES ASSUME open = "yes", page.lists,
                      \A k \in net : ~k.passed => Fresh(k),
                      \A p \in Params : InUse(p) => Settled(p)
               PROVE  /\ \A x \in net' : ~x.passed => Fresh(x)'
                      /\ \A p \in Params : InUse(p)' => Settled(p)'
                      /\ GuessesOwned'
  BY <1>1 DEF ShownInv
<1>8. ASSUME NEW x \in net', ~x.passed PROVE Fresh(x)'
  <2>1. Fresh(x)
    BY <1>1, <1>2, <1>3, <1>7, <1>8 DEF Fresh
  <2>. QED
    BY <1>1, <2>1 DEF Fresh, UpToDate, Changes, IsList, Told
<1>9. \A p \in Params : InUse(p)' => Settled(p)'
  <2>1. \A p \in Params : InUse(p)' => InUse(p)
    BY <1>1 DEF InUse, Place, Blank, Zero
  <2>. QED
    BY <1>1, <1>6, <1>7, <2>1 DEF Settled, UpToDate
<1>10. GuessesOwned'
  BY <1>5 DEF GuessesOwned
<1>. QED
  BY <1>8, <1>9, <1>10

LEMMA ShownStays ==
  ASSUME ShownInv, UNCHANGED <<page, open, param, shown, server, acked>>,
         \A k \in net : \E x \in net' : Same(x, k) /\ x.passed = k.passed,
         \A x \in net' : \E k \in net : Same(x, k) /\ x.passed = k.passed
  PROVE  ShownInv'
<1>1. \A p : Place(p)' = Place(p)
  BY DEF Place, Blank, Zero
<1>2. ASSUME NEW x \in net', ~x.passed, \A k \in net : ~k.passed => Fresh(k)
      PROVE  Fresh(x)'
  <2>1. PICK k \in net : Same(x, k) /\ x.passed = k.passed
    OBVIOUS
  <2>2. Fresh(x)
    BY <1>2, <2>1, SameKind
  <2>. QED
    BY <2>2 DEF Fresh, UpToDate, Changes, IsList, Told
<1>3. ASSUME NEW p, Coming(p) PROVE Coming(p)'
  <2>1. PICK k \in net : IsList(k) /\ Place(k.param) = p
    BY <1>3 DEF Coming
  <2>2. PICK x \in net' : Same(x, k)
    OBVIOUS
  <2>3. IsList(x) /\ x.param = k.param
    BY <2>1, <2>2, SameKind DEF Same
  <2>. QED
    BY <1>1, <2>1, <2>3 DEF Coming, IsList
<1>4. ASSUME NEW r, Guessing(r) PROVE Guessing(r)'
  <2>1. PICK k \in net : ~IsList(k) /\ k.op.kind # "create" /\ k.op.early /\ k.row = r
    BY <1>4 DEF Guessing
  <2>2. PICK x \in net' : Same(x, k)
    OBVIOUS
  <2>3. ~IsList(x) /\ x.op.kind # "create" /\ x.op.early /\ x.row = r
    BY <2>1, <2>2, SameKind DEF Same
  <2>. QED
    BY <2>3 DEF Guessing, IsList
<1>5. Copy' = Copy /\ Place(param)' = Place(param)
  BY DEF Copy, Place, Blank, Zero
<1>6. \A p : (InUse(p)' => InUse(p)) /\ (Settled(p) => Settled(p)')
  BY <1>3, <1>5 DEF InUse, Settled, UpToDate
<1>7. GuessesOwned => GuessesOwned'
  BY <1>3, <1>4, <1>5 DEF GuessesOwned
<1>. QED
  BY <1>2, <1>6, <1>7 DEF ShownInv

LEMMA ShownUser ==
  ASSUME TypeInv, CopyInv, FixedInv, ShownInv, User
  PROVE  ShownInv'
<1>1. CASE Leave
  <2>1. open' = "no"
    BY <1>1, Zenon DEF Leave
  <2>. QED
    BY <2>1 DEF ShownInv
<1>2. CASE PutAway
  BY <1>2, PutAwayFacts, PutAwayStay, ShownStays
<1>3. CASE Hide
  <2>1. /\ UNCHANGED <<page, open, param, shown, net, server, acked>>
    BY <1>3, HideFacts
  <2>2. \A k \in net : Same(k, k)
    BY DEF Same
  <2>. QED
    BY <2>1, <2>2, ShownStays
<1>. QED
  BY <1>1, <1>2, <1>3, ShownStart, ShownFilter, ShownMore, ShownPoll DEF User

LEMMA ShownWork ==
  ASSUME TypeInv, AheadInv, ShownInv, NEW m \in net, Work(m) \/ Lose(m)
  PROVE  ShownInv'
<1>1. UNCHANGED <<page, open, param, shown, acked>>
  BY WorkStay
<1>2. PICK n : /\ net' = (net \ {m}) \union {n}
               /\ n.id = m.id /\ n.op = m.op /\ n.param = m.param
               /\ n.passed = m.passed
               /\ m.op.kind # "create" => n.row = m.row
               /\ ~n.ok => n.there = m.there /\ n.ver = m.ver
               /\ n.ok => \E r : ServedAs(m, n, r)
  BY WorkStay
<1>3. SUFFICES ASSUME open = "yes", page.lists,
                      \A k \in net : ~k.passed => Fresh(k),
                      \A q \in Params : InUse(q) => Settled(q),
                      GuessesOwned
               PROVE  /\ \A x \in net' : ~x.passed => Fresh(x)'
                      /\ \A q \in Params : InUse(q)' => Settled(q)'
                      /\ GuessesOwned'
  BY <1>1 DEF ShownInv
<1>4. /\ server.ver \in [Rows -> Nat] /\ acked \in [Rows -> Nat]
      /\ server.there \in SUBSET Rows /\ m \in CallType
  BY TypeParts
<1>5. ASSUME ~n.passed PROVE Fresh(n)
  <2>1. Fresh(m)
    BY <1>2, <1>3, <1>5
  <2>2. CASE ~n.ok
    BY <1>2, <2>1, <2>2 DEF Fresh
  <2>3. CASE n.ok
    <3>1. PICK r : ServedAs(m, n, r)
      BY <1>2, <2>3
    <3>2. /\ Changes(m) /\ m.op.kind # "all" => r \in Rows
          /\ n.row = r
          /\ server'.ver = [x \in Rows |-> IF x \in Changed(m, r)
                                            THEN server.ver[x] + 1 ELSE server.ver[x]]
          /\ Whole(m) => n.ver = server'.ver /\ n.there = server'.there
          /\ m.op.kind = "more" =>
               /\ n.ver = [q \in Rows |-> IF q \in m.there THEN m.ver[q] ELSE server.ver[q]]
               /\ n.there = m.there \union server.there
          /\ ~Whole(m) /\ m.op.kind # "more" =>
               n.ver = [x \in Rows |-> IF x = r THEN server'.ver[x] ELSE 0]
          /\ server' \in [ver : [Rows -> Nat], there : SUBSET Rows, key : [Rows -> Nat],
                           ended : SUBSET Rows]
      BY <3>1, Zenon DEF ServedAs
    <3>7. \A q \in Rows : server'.ver[q] >= acked[q]
      BY <1>4, <3>2 DEF AheadInv, UpToDate
    <3>3. ASSUME Changes(n), NEW q \in Told(n) PROVE n.ver[q] >= acked[q]
      <4>1. Changes(m) /\ m.op.kind # "more"
        BY <1>2, <3>3 DEF Changes
      <4>2. CASE m.op.kind = "all"
        BY <1>2, <3>2, <3>3, <3>7, <4>2 DEF Told, Whole
      <4>3. CASE m.op.kind # "all"
        <5>1. q = r /\ r \in Rows /\ ~Whole(m)
          BY <1>2, <3>2, <3>3, <4>1, <4>3 DEF Told, Whole, Changes
        <5>. QED
          BY <3>2, <3>7, <4>1, <5>1
      <4>. QED
        BY <4>2, <4>3
    <3>4. n.op.kind = "list" => UpToDate(n.ver)
      BY <1>2, <3>2, <3>7 DEF UpToDate, Whole
    <3>5. ASSUME n.op.kind = "more", NEW q \in Rows PROVE n.ver[q] >= acked[q]
      <4>1. q \in m.there => m.ver[q] >= acked[q]
        BY <1>2, <2>1, <3>5 DEF Fresh
      <4>2. server.ver[q] >= acked[q]
        BY DEF AheadInv, UpToDate
      <4>. QED
        BY <1>2, <3>2, <3>5, <4>1, <4>2
    <3>6. n.op.kind = "more" => n.there \subseteq Rows
      BY <1>2, <1>4, <3>2 DEF CallType
    <3>. QED
      BY <3>3, <3>4, <3>5, <3>6 DEF Fresh, UpToDate, IsList
  <2>. QED
    BY <2>2, <2>3
<1>6. ASSUME NEW x \in net', ~x.passed PROVE Fresh(x)'
  <2>1. Fresh(x)
    BY <1>2, <1>3, <1>5, <1>6
  <2>. QED
    BY <1>1, <2>1 DEF Fresh, UpToDate, Changes, IsList, Told
<1>7. \A p : Place(p)' = Place(p)
  BY <1>1 DEF Place, Blank, Zero
<1>8. \A p : Coming(p) => Coming(p)'
  BY <1>2, <1>7 DEF Coming, IsList
<1>9. \A r : Guessing(r) => Guessing(r)'
  BY <1>2 DEF Guessing, IsList
<1>10. \A p \in Params : InUse(p)' => Settled(p)'
  <2>1. \A p \in Params : InUse(p)' => InUse(p)
    BY <1>1 DEF InUse, Place, Blank, Zero
  <2>. QED
    BY <1>1, <1>3, <1>8, <2>1 DEF Settled, UpToDate
<1>11. GuessesOwned'
  <2>1. PICK q : q = Place(param)
    OBVIOUS
  <2>2. Place(param)' = q /\ Copy' = Copy
    BY <1>1, <2>1 DEF Place, Copy, Blank, Zero
  <2>3. Coming(Place(param)) => Coming(q)'
    BY <1>8, <2>1
  <2>. QED
    BY <1>3, <1>9, <2>2, <2>3 DEF GuessesOwned
<1>. QED
  BY <1>6, <1>10, <1>11

ListInv == AheadInv /\ CopyInv /\ FixedInv /\ ShownInv

LEMMA InitCalls ==
  ASSUME Init
  PROVE  /\ TypeInv /\ param = Blank.param /\ open = "yes"
         /\ shown = [p \in Params |-> Blank] /\ acked = Zero
         /\ ~page.lists => net = {}
         /\ page.lists =>
              \E n : /\ net = {n} /\ IsList(n) /\ n.op.kind = "list" /\ ~n.ok
                     /\ n.param = param /\ n.holds = {} /\ n.id = 1
<1>1. TypeInv
  BY InitTypes
<1>2. /\ shown = [p \in Params |-> Blank] /\ acked = Zero /\ open = "yes"
      /\ net = IF page.lists THEN {[List(param) EXCEPT !.id = 1]} ELSE {}
      /\ param = Blank.param /\ sent = 1 /\ param \in Params
  BY BlankIs DEF Init
<1>3. PICK x, n : x = List(param) /\ n = [x EXCEPT !.id = 1]
  OBVIOUS
<1>4. x \in CallType /\ x.op.kind = "list" /\ ~x.ok /\ x.param = param /\ x.holds = {}
  BY <1>2, <1>3, PlainList
<1>5. /\ n.op.kind = "list" /\ ~n.ok /\ n.param = param /\ n.holds = {}
      /\ n.id = 1 /\ IsList(n)
  BY <1>3, <1>4 DEF CallType, IsList
<1>. QED
  BY <1>1, <1>2, <1>3, <1>5

LEMMA InitLists ==
  ASSUME Init
  PROVE  ListInv
<1>1. /\ param = Blank.param /\ open = "yes" /\ param \in Params
      /\ shown = [p \in Params |-> Blank] /\ acked = Zero
      /\ server.ver \in [Rows -> Nat]
  BY InitCalls, BlankIs, TypeParts
<1>2. \A k \in net : IsList(k) /\ k.op.kind = "list" /\ ~k.ok /\ k.param = param
  BY InitCalls
<1>3. AheadInv
  BY <1>1, <1>2 DEF AheadInv, UpToDate, Zero
<1>4. CopyInv /\ FixedInv
  BY <1>1, <1>2, BlankIs DEF CopyInv, FixedInv
<1>5. ShownInv
  <2>1. SUFFICES ASSUME page.lists
                 PROVE  /\ \A k \in net : ~k.passed => Fresh(k)
                        /\ \A p \in Params : InUse(p) => Settled(p)
                        /\ GuessesOwned
    BY DEF ShownInv
  <2>2. Coming(Place(param))
    BY <2>1, InitCalls DEF Coming
  <2>3. \A p \in Params : InUse(p) => p = Place(param)
    BY <1>1, BlankIs DEF InUse
  <2>4. \A k \in net : Fresh(k)
    BY <1>2 DEF Fresh
  <2>. QED
    BY <2>2, <2>3, <2>4 DEF Settled, GuessesOwned
<1>. QED
  BY <1>3, <1>4, <1>5 DEF ListInv

LEMMA ListsNext ==
  ASSUME TypeInv, OneListing, ListInv, [Next]_vars
  PROVE  ListInv'
<1>1. AheadInv /\ CopyInv /\ FixedInv /\ ShownInv
  BY DEF ListInv
<1>2. CASE User
  BY <1>1, <1>2, AheadUser, CopyUser, ShownUser DEF ListInv
<1>3. ASSUME NEW m \in net, Work(m) \/ Lose(m) PROVE ListInv'
  BY <1>1, <1>3, AheadWork, CopyWork, ShownWork DEF ListInv
<1>4. ASSUME NEW m \in net, Hear(m) PROVE ListInv'
  BY <1>1, <1>4, AheadHear, CopyHear, FixedHear, ShownHear DEF ListInv
<1>5. CASE UNCHANGED vars
  <2>1. /\ UNCHANGED <<page, open, param, shown, net, server, acked>>
        /\ \A p : Place(p)' = Place(p)
    BY <1>5 DEF vars, Place, Blank, Zero
  <2>2. AheadInv' /\ CopyInv'
    BY <1>1, <2>1 DEF AheadInv, UpToDate, Changes, Told, CopyInv
  <2>3. FixedInv'
    BY <1>1, <2>1 DEF FixedInv, Blank, Zero
  <2>4. Copy' = Copy /\ Place(param)' = Place(param)
    BY <2>1 DEF Copy, Place, Blank, Zero
  <2>5. /\ \A k : Fresh(k)' = Fresh(k)
        /\ \A p : Coming(p)' = Coming(p)
        /\ \A r : Guessing(r)' = Guessing(r)
        /\ \A p : InUse(p)' = InUse(p)
    BY <2>1, <2>4 DEF Fresh, UpToDate, Changes, IsList, Told, Coming, Guessing,
         InUse
  <2>6. \A p : Settled(p)' = Settled(p)
    BY <2>1, <2>5 DEF Settled, UpToDate
  <2>7. GuessesOwned' = GuessesOwned
    <3>1. PICK q : q = Place(param)
      OBVIOUS
    <3>2. Place(param)' = q
      BY <2>4, <3>1
    <3>. QED
      BY <2>4, <2>5, <3>1, <3>2 DEF GuessesOwned
  <2>8. ShownInv'
    BY <1>1, <2>1, <2>5, <2>6, <2>7 DEF ShownInv
  <2>. QED
    BY <2>2, <2>3, <2>8 DEF ListInv
<1>. QED
  BY <1>2, <1>3, <1>4, <1>5 DEF Next

LEMMA ListsStay == Spec => [](TypeInv /\ OneListing /\ ListInv)
<1>1. Init => ListInv
  BY InitLists
<1>2. TypeInv /\ FlagInv /\ ListInv /\ [Next]_vars => ListInv'
  BY ListsNext DEF FlagInv
<1>3. FlagInv => OneListing
  BY DEF FlagInv
<1>. QED
  BY <1>1, <1>2, <1>3, FlagsStay, PTL DEF Spec

(***************************************************************************)
(* A screen at rest shows every change of its own that it was told of, and *)
(* no guess, unless its last listing failed or it shows an answer that     *)
(* another had passed.                                                     *)
(***************************************************************************)
THEOREM OwnChangesAreShown == Spec => []OwnChangesShown
<1>1. TypeInv /\ ListInv => OwnChangesShown
  <2>1. SUFFICES ASSUME TypeInv, ShownInv, open = "yes", net = {}, page.lists,
                        ~Copy.failed, ~Copy.late
                 PROVE  (\A r \in Rows : Copy.ver[r] >= acked[r]) /\ Copy.guess = {}
    BY DEF ListInv, OwnChangesShown, Quiet
  <2>2. Copy = shown[Place(param)] /\ Place(param) \in Params
    BY <2>1, TypeParts, BlankIs DEF Copy, Place
  <2>3. Settled(Place(param)) /\ GuessesOwned
    BY <2>1, <2>2 DEF ShownInv, InUse
  <2>4. ~Coming(Place(param)) /\ \A r : ~Guessing(r)
    BY <2>1 DEF Coming, Guessing
  <2>. QED
    BY <2>1, <2>2, <2>3, <2>4 DEF Settled, UpToDate, GuessesOwned
<1>. QED
  BY <1>1, ListsStay, PTL

(***************************************************************************)
(* What a screen shows is for its filter, or the answer for that filter is *)
(* on its way.                                                             *)
(***************************************************************************)
\* What is shown, apart from guesses and rows put into place, stays; and so
\* do the listings.
LooksSame ==
  \A p \in Params :
    /\ shown'[p].known = shown[p].known /\ shown'[p].param = shown[p].param
    /\ shown'[p].failed = shown[p].failed /\ shown'[p].late = shown[p].late
ListingsStay ==
  /\ \A x \in net' : IsList(x) =>
       \/ x.param = param /\ x.holds = {}
       \/ \E k \in net : /\ IsList(k) /\ x.id = k.id /\ x.param = k.param
                         /\ k.passed => x.passed
                         /\ k.holds = {} => x.holds = {}
  /\ \A k \in net : IsList(k) =>
       \E x \in net' : IsList(x) /\ x.id = k.id /\ x.param = k.param

LEMMA FilterStay ==
  ASSUME TypeInv, KeyedInv, FlagPageInv, FreeInv, LooksSame, ListingsStay,
         page' = page, param' = param
  PROVE  KeyedInv' /\ FlagPageInv' /\ FreeInv'
<1>1. KeyedInv'
  BY DEF KeyedInv, LooksSame
<1>2. PICK q : q = Place(param)
  OBVIOUS
<1>3. /\ q \in Params /\ Copy = shown[q] /\ Copy' = shown'[q]
  BY <1>2, TypeParts, BlankIs DEF Copy, Place, Blank, Zero
<1>4. /\ Copy'.param = Copy.param /\ Copy'.failed = Copy.failed
      /\ Copy'.late = Copy.late
  BY <1>3 DEF LooksSame
<1>5. \A k \in net : IsList(k) =>
        \E x \in net' : IsList(x)' /\ IsList(x) /\ x.id = k.id /\ x.param = k.param
  BY DEF ListingsStay, IsList
<1>6. FlagPageInv'
  <2>1. SUFFICES ASSUME page.filter = "flag"
                 PROVE  /\ \A x \in net' : IsList(x) => x.holds = {} /\ x.param = param
                        /\ Copy'.param = param \/ Copy'.failed \/ \E x \in net' : IsList(x)
    BY DEF FlagPageInv, IsList
  <2>. QED
    BY <1>4, <2>1 DEF FlagPageInv, ListingsStay
<1>7. \A j \in Listings(param) :
        \E x \in Listings(param)' : x.id = j.id
  BY <1>5 DEF Listings
<1>8. FreeInv'
  <2>1. SUFFICES ASSUME page.filter = "free"
                 PROVE  /\ \A x \in net' : IsList(x) =>
                             \/ x.param = param \/ x.passed
                             \/ \E k \in Listings(param)' : k.id > x.id
                        /\ \/ Copy'.param = param \/ Copy'.failed \/ Copy'.late
                           \/ Listings(param)' # {}
    BY DEF FreeInv, IsList
  <2>2. Listings(param) # {} => Listings(param)' # {}
    BY <1>7
  <2>3. ASSUME NEW x \in net', IsList(x), x.param # param, ~x.passed
        PROVE  \E k \in Listings(param)' : k.id > x.id
    <3>1. PICK k \in net : /\ IsList(k) /\ x.id = k.id /\ x.param = k.param
                           /\ k.passed => x.passed
      BY <2>3 DEF ListingsStay
    <3>2. PICK j \in Listings(param) : j.id > k.id
      BY <2>1, <2>3, <3>1 DEF FreeInv
    <3>. QED
      BY <1>7, <3>1, <3>2
  <2>. QED
    BY <1>4, <2>1, <2>2, <2>3 DEF FreeInv
<1>. QED
  BY <1>1, <1>6, <1>8

LEMMA OperationLooks ==
  ASSUME TypeInv, NEW m \in net, Done(m) \/ Failed(m)
  PROVE  /\ ~IsList(m) /\ UNCHANGED <<page, param>>
         /\ \A p \in Params :
              /\ shown'[p].known = shown[p].known /\ shown'[p].param = shown[p].param
              /\ shown'[p].failed = shown[p].failed
              /\ shown[p].late => shown'[p].late
<1>1. /\ shown \in [Params -> CopyType] /\ Place(param) \in Params
      /\ m \in CallType
  BY TypeParts, BlankIs DEF Place
<1>2. ~IsList(m) /\ UNCHANGED <<page, param>>
  BY DoneShows, FailedShows
<1>3. ASSUME shown' = Stale \/ shown' = shown
      PROVE  \A p \in Params :
               /\ shown'[p].known = shown[p].known /\ shown'[p].param = shown[p].param
               /\ shown'[p].failed = shown[p].failed
               /\ shown[p].late => shown'[p].late
  BY <1>1, <1>3, StaleIs
<1>4. CASE Failed(m)
  BY <1>2, <1>3, <1>4, FailedShows
<1>5. CASE Done(m)
  <2>2. CASE shown' = [shown EXCEPT ![Place(param)] = Spliced(shown[Place(param)], m)]
    <3>1. PICK c, e : c = shown[Place(param)] /\ e = Spliced(c, m)
      OBVIOUS
    <3>2. c \in CopyType
      BY <1>1, <3>1
    <3>3. /\ e.known = c.known /\ e.param = c.param /\ e.failed = c.failed
          /\ c.late => e.late
      BY <1>1, <3>1, <3>2, SplicedFields
    <3>4. shown' = [shown EXCEPT ![Place(param)] = e]
      BY <2>2, <3>1
    <3>. QED
      BY <1>1, <1>2, <3>1, <3>3, <3>4
  <2>. QED
    BY <1>2, <1>3, <1>5, <2>2, DoneShows
<1>. QED
  BY <1>4, <1>5

LEMMA KeyedHear ==
  ASSUME TypeInv, KeyedInv, NEW m \in net, Hear(m)
  PROVE  KeyedInv'
<1>1. CASE Listed(m)
  <2>1. page' = page
    BY <1>1, Zenon DEF Listed
  <2>2. /\ shown \in [Params -> CopyType]
        /\ Place(m.param) \in Params
    BY TypeParts, BlankIs DEF Place, CallType
  <2>3. PICK e \in CopyType :
          /\ shown' = [shown EXCEPT ![Place(m.param)] = e]
          /\ m.ok => e.param = m.param
          /\ ~m.ok => /\ e.known = shown[Place(m.param)].known
                      /\ e.param = shown[Place(m.param)].param
    BY <1>1, ListedShows
  <2>4. SUFFICES ASSUME page.filter = "keyed", NEW p \in Params, shown'[p].known
                 PROVE  shown'[p].param = p
    BY <2>1 DEF KeyedInv
  <2>5. Place(m.param) = m.param
    BY <2>4 DEF Place
  <2>. QED
    BY <2>2, <2>3, <2>4, <2>5 DEF KeyedInv
<1>2. CASE Done(m) \/ Failed(m)
  BY <1>2, OperationLooks DEF KeyedInv
<1>3. CASE LookAgain(m)
  BY <1>3, LookFacts DEF KeyedInv
<1>. QED
  BY <1>1, <1>2, <1>3 DEF Hear

LEMMA FlagHear ==
  ASSUME TypeInv, OneListing, FlagPageInv, NEW m \in net, Hear(m)
  PROVE  FlagPageInv'
<1>1. PICK locks, gone, add : HeardAs(m, locks, gone, add)
  BY AnswerHeard
<1>2. page' = page /\ param' = param
  <2>1. Listed(m) => page' = page /\ param' = param
    BY Zenon DEF Listed
  <2>. QED
    BY <2>1, OperationLooks, LookFacts DEF Hear
<1>3. SUFFICES ASSUME page.filter = "flag"
               PROVE  /\ \A x \in net' : IsList(x) => x.holds = {} /\ x.param = param
                      /\ Copy'.param = param \/ Copy'.failed \/ \E x \in net' : IsList(x)
  BY <1>2 DEF FlagPageInv, IsList
<1>4. net' = {Later(k, m, locks) : k \in net \ {m}}
  <2>1. add = {} /\ gone = {m}
    BY <1>1, <1>3 DEF HeardAs
  <2>. QED
    BY <1>1, <2>1 DEF HeardAs
<1>5. ASSUME NEW k \in net, NEW x, x = Later(k, m, locks)
      PROVE  /\ x.param = k.param /\ (IsList(x) <=> IsList(k))
             /\ k.holds = {} => x.holds = {}
  <2>1. k \in CallType
    BY TypeParts
  <2>2. x.param = k.param /\ x.op = k.op /\ x.holds = {Mark(h, locks, AnyRow) : h \in k.holds}
    BY <1>5, <2>1, LaterFields
  <2>. QED
    BY <2>2 DEF IsList
<1>6. ASSUME NEW x \in net', IsList(x) PROVE x.holds = {} /\ x.param = param
  <2>1. PICK k \in net : x = Later(k, m, locks)
    BY <1>4
  <2>. QED
    BY <1>3, <1>5, <1>6, <2>1 DEF FlagPageInv
<1>7. PICK q : q = Place(param)
  OBVIOUS
<1>8. /\ q \in Params /\ Copy = shown[q] /\ Copy' = shown'[q]
      /\ shown \in [Params -> CopyType] /\ Place(m.param) = q
  BY <1>2, <1>3, <1>7, TypeParts, BlankIs DEF Copy, Place, Blank, Zero
<1>9. CASE Listed(m)
  <2>1. IsList(m)
    BY <1>9, Zenon DEF Listed
  <2>2. PICK e \in CopyType :
          /\ shown' = [shown EXCEPT ![Place(m.param)] = e]
          /\ m.ok => e.param = m.param
          /\ ~m.ok => e.failed
    BY <1>9, ListedShows
  <2>. QED
    BY <1>3, <1>6, <1>8, <2>1, <2>2 DEF FlagPageInv
<1>10. CASE Done(m) \/ Failed(m)
  <2>1. /\ ~IsList(m) /\ Copy'.param = Copy.param /\ Copy'.failed = Copy.failed
    BY <1>8, <1>10, OperationLooks
  <2>2. ASSUME NEW k \in net, IsList(k) PROVE \E x \in net' : IsList(x)
    <3>1. PICK x : x = Later(k, m, locks)
      OBVIOUS
    <3>. QED
      BY <1>4, <1>5, <2>1, <2>2, <3>1
  <2>. QED
    BY <1>3, <1>6, <2>1, <2>2 DEF FlagPageInv
<1>11. CASE LookAgain(m)
  BY <1>3, <1>11, LookComes
<1>. QED
  BY <1>9, <1>10, <1>11 DEF Hear

LEMMA FreeHear ==
  ASSUME TypeInv, OneListing, FreeInv, NEW m \in net, Hear(m)
  PROVE  FreeInv'
<1>1. PICK locks, gone, add : HeardAs(m, locks, gone, add)
  BY AnswerHeard
<1>2. page' = page /\ param' = param
  <2>1. Listed(m) => page' = page /\ param' = param
    BY Zenon DEF Listed
  <2>. QED
    BY <2>1, OperationLooks, LookFacts DEF Hear
<1>3. SUFFICES ASSUME page.filter = "free"
               PROVE  /\ \A x \in net' : IsList(x) =>
                           \/ x.param = param \/ x.passed
                           \/ \E j \in Listings(param)' : j.id > x.id
                      /\ \/ Copy'.param = param \/ Copy'.failed \/ Copy'.late
                         \/ Listings(param)' # {}
  BY <1>2 DEF FreeInv, IsList
<1>4. gone = {m} /\ \A n \in add : n.passed \/ n.param = param
  <2>1. ~Querying
    BY <1>3, PageFits DEF TypeInv, Querying, CacheFits
  <2>. QED
    BY <1>1, <2>1 DEF HeardAs
<1>5. /\ \A k \in net \ {m} : \E x \in net' : Same(x, k)
      /\ \A x \in net' : x \notin add =>
           \E k \in net \ {m} :
             /\ Same(x, k) /\ (k.passed => x.passed)
             /\ IsList(k) /\ (~IsList(m) \/ k.id < m.id) => x.passed
  BY <1>1, <1>4, HeardStay
<1>6. ASSUME NEW j \in Listings(param), j # m
      PROVE  \E x \in Listings(param)' : x.id = j.id
  <2>1. j \in net \ {m} /\ IsList(j) /\ j.param = param
    BY <1>6 DEF Listings
  <2>2. PICK x \in net' : Same(x, j)
    BY <1>5, <2>1
  <2>3. IsList(x)' /\ x.param = param /\ x.id = j.id
    BY <2>1, <2>2 DEF Same, IsList
  <2>. QED
    BY <1>2, <2>3 DEF Listings
<1>7. ASSUME NEW x \in net', IsList(x), x.param # param, ~x.passed
      PROVE  \E j \in Listings(param)' : j.id > x.id
  <2>1. PICK k \in net \ {m} :
             /\ Same(x, k) /\ (k.passed => x.passed)
             /\ IsList(k) /\ (~IsList(m) \/ k.id < m.id) => x.passed
    BY <1>4, <1>5, <1>7
  <2>2. IsList(k) /\ x.param = k.param /\ x.id = k.id
    BY <1>7, <2>1, SameKind DEF Same
  <2>3. PICK j \in Listings(param) : j.id > k.id
    BY <1>3, <1>7, <2>1, <2>2 DEF FreeInv
  <2>4. j # m
    BY <1>7, <2>1, <2>2, <2>3 DEF Listings
  <2>. QED
    BY <1>6, <2>2, <2>3, <2>4
<1>8. PICK q : q = Place(param)
  OBVIOUS
<1>9. /\ q \in Params /\ Copy = shown[q] /\ Copy' = shown'[q]
      /\ shown \in [Params -> CopyType] /\ Place(m.param) = q /\ m \in CallType
  BY <1>2, <1>3, <1>8, TypeParts, BlankIs DEF Copy, Place, Blank, Zero
<1>10. CASE Listed(m)
  <2>1. IsList(m)
    BY <1>10, Zenon DEF Listed
  <2>2. PICK e \in CopyType :
          /\ shown' = [shown EXCEPT ![Place(m.param)] = e]
          /\ m.ok => e.param = m.param /\ e.late = m.passed
          /\ ~m.ok => e.failed
    BY <1>10, ListedShows
  <2>3. Copy' = e
    BY <1>9, <2>2
  <2>4. CASE m.ok /\ m.param # param /\ ~m.passed
    <3>1. PICK j \in Listings(param) : j.id > m.id
      BY <1>3, <2>1, <2>4 DEF FreeInv
    <3>2. j # m
      BY <1>9, <3>1 DEF CallType
    <3>. QED
      BY <1>6, <1>7, <3>1, <3>2
  <2>. QED
    BY <1>7, <2>2, <2>3, <2>4
<1>11. CASE Done(m) \/ Failed(m)
  <2>1. /\ ~IsList(m) /\ Copy'.param = Copy.param /\ Copy'.failed = Copy.failed
        /\ Copy.late => Copy'.late
    BY <1>9, <1>11, OperationLooks
  <2>2. Listings(param) # {} => Listings(param)' # {}
    BY <1>6, <2>1 DEF Listings
  <2>. QED
    BY <1>3, <1>7, <2>1, <2>2 DEF FreeInv
<1>12. CASE LookAgain(m)
  <2>1. Copy' = Copy
    BY <1>9, <1>12, LookFacts
  <2>2. ASSUME NEW j \in Listings(param) PROVE Listings(param)' # {}
    <3>1. CASE j # m
      BY <1>6, <3>1
    <3>2. CASE j = m
      <4>1. PICK n \in net' : IsList(n) /\ n.param = m.param
        BY <1>12, LookComes
      <4>2. m.param = param
        BY <3>2 DEF Listings
      <4>. QED
        BY <1>2, <4>1, <4>2 DEF Listings, IsList
    <3>. QED
      BY <3>1, <3>2
  <2>. QED
    BY <1>3, <1>7, <2>1, <2>2 DEF FreeInv
<1>. QED
  BY <1>10, <1>11, <1>12 DEF Hear

LEMMA FilterStart ==
  ASSUME TypeInv, KeyedInv, FlagPageInv, FreeInv,
         NEW op, NEW r \in Rows \union {Nobody}, Start(op, r)
  PROVE  KeyedInv' /\ FlagPageInv' /\ FreeInv'
<1>1. /\ page' = page /\ param' = param
      /\ shown' = IF op.early /\ r \in Rows
                    THEN [shown EXCEPT ![Place(param)].guess = @ \union {r}]
                    ELSE shown
  BY Zenon DEF Start
<1>2. shown \in [Params -> CopyType] /\ Place(param) \in Params
  BY TypeParts, BlankIs DEF Place
<1>3. LooksSame
  BY <1>1, <1>2 DEF LooksSame, CopyType
<1>4. PICK n : StartedAs(op, r, n)
  BY StartFacts
<1>5. ~IsList(n)
  BY <1>4 DEF StartedAs
<1>6. PICK locks, rows : locks = {op.lock} /\ rows = Rows \ {r}
  OBVIOUS
<1>7. net' = {Marked(k, locks, rows) : k \in net} \union {n}
  BY <1>4, <1>6 DEF StartedAs
<1>8. ASSUME NEW k \in net, NEW x, x = Marked(k, locks, rows)
      PROVE  /\ x.id = k.id /\ x.param = k.param /\ x.passed = k.passed
             /\ IsList(x) <=> IsList(k)
             /\ k.holds = {} => x.holds = {}
  <2>1. k \in CallType
    BY TypeParts
  <2>2. /\ x.id = k.id /\ x.param = k.param /\ x.passed = k.passed /\ x.op = k.op
        /\ x.holds = {Mark(h, locks, rows) : h \in k.holds}
    BY <1>8, <2>1, MarkedFields
  <2>. QED
    BY <2>2 DEF IsList
<1>9. ListingsStay
  <2>1. ASSUME NEW x \in net', IsList(x)
        PROVE  \E k \in net : /\ IsList(k) /\ x.id = k.id /\ x.param = k.param
                              /\ k.passed => x.passed
                              /\ k.holds = {} => x.holds = {}
    <3>1. PICK k \in net : x = Marked(k, locks, rows)
      BY <1>5, <1>7, <2>1
    <3>. QED
      BY <1>8, <2>1, <3>1
  <2>2. ASSUME NEW k \in net, IsList(k)
        PROVE  \E x \in net' : IsList(x) /\ x.id = k.id /\ x.param = k.param
    <3>1. PICK x : x = Marked(k, locks, rows)
      OBVIOUS
    <3>. QED
      BY <1>7, <1>8, <2>2, <3>1
  <2>. QED
    BY <2>1, <2>2 DEF ListingsStay
<1>. QED
  BY <1>1, <1>3, <1>9, FilterStay

LEMMA FilterFilter ==
  ASSUME TypeInv, KeyedInv, FlagPageInv, NEW p \in Params, Filter(p)
  PROVE  KeyedInv' /\ FlagPageInv' /\ FreeInv'
<1>1. /\ page' = page /\ shown' = shown /\ param' = p
      /\ page.filter # "keyed" => net' = (net \ Dropped) \union {List(p)}
  BY Zenon DEF Filter
<1>2. PICK n : n = List(p)
  OBVIOUS
<1>3. IsList(n) /\ n.param = p /\ n.holds = {} /\ n.id = sent + 1
  BY <1>2, PlainList, TypeParts
<1>4. KeyedInv'
  BY <1>1 DEF KeyedInv
<1>5. FlagPageInv'
  <2>1. SUFFICES ASSUME page.filter = "flag"
                 PROVE  /\ \A x \in net' : IsList(x) => x.holds = {} /\ x.param = p
                        /\ \E x \in net' : IsList(x)
    BY <1>1 DEF FlagPageInv, IsList
  <2>2. \A x \in net : IsList(x) => x \in Dropped
    BY <2>1 DEF FlagPageInv, Dropped
  <2>. QED
    BY <1>1, <1>2, <1>3, <2>1, <2>2
<1>6. FreeInv'
  <2>1. SUFFICES ASSUME page.filter = "free"
                 PROVE  /\ \A x \in net' : IsList(x) =>
                             \/ x.param = p \/ \E k \in Listings(p)' : k.id > x.id
                        /\ Listings(p)' # {}
    BY <1>1 DEF FreeInv, IsList, Listings
  <2>2. net' = net \union {n}
    BY <1>1, <1>2, <2>1 DEF Dropped
  <2>3. n \in Listings(p)'
    BY <1>3, <2>2 DEF Listings, IsList
  <2>4. \A x \in net : x.id \in Nat /\ x.id <= sent /\ sent \in Nat
    BY TypeParts DEF TypeInv, Fits, CallType
  <2>. QED
    BY <1>3, <2>2, <2>3, <2>4
<1>. QED
  BY <1>4, <1>5, <1>6

LEMMA FilterPutAway ==
  ASSUME TypeInv, KeyedInv, FlagPageInv, FreeInv, PutAway
  PROVE  KeyedInv' /\ FlagPageInv' /\ FreeInv'
<1>. DEFINE F(k) == Marked(k, Away, AnyRow)
<1>1. /\ UNCHANGED <<page, param, shown>>
      /\ net' = {F(k) : k \in net}
  BY PutAwayFacts
<1>2. ASSUME NEW k \in net
      PROVE  /\ F(k).id = k.id /\ F(k).param = k.param /\ F(k).passed = k.passed
             /\ IsList(F(k)) <=> IsList(k)
             /\ k.holds = {} => F(k).holds = {}
  <2>1. k \in CallType
    BY TypeParts
  <2>2. PICK x, locks, rows : x = Marked(k, locks, rows) /\ locks = Away /\ rows = AnyRow
    OBVIOUS
  <2>3. /\ x.id = k.id /\ x.param = k.param /\ x.passed = k.passed /\ x.op = k.op
        /\ x.holds = {Mark(h, locks, rows) : h \in k.holds}
    BY <2>1, <2>2, MarkedFields
  <2>. QED
    BY <2>2, <2>3 DEF IsList
<1>. HIDE DEF F
<1>3. ListingsStay
  BY <1>1, <1>2 DEF ListingsStay
<1>4. LooksSame
  BY <1>1 DEF LooksSame
<1>. QED
  BY <1>1, <1>3, <1>4, FilterStay

LEMMA FilterUser ==
  ASSUME TypeInv, KeyedInv, FlagPageInv, FreeInv, User, Here'
  PROVE  KeyedInv' /\ FlagPageInv' /\ FreeInv'
<1>1. CASE More
  <2>1. page' = page /\ shown' = shown /\ page.more
    BY <1>1, Zenon DEF More
  <2>2. page.filter \in {"fixed", "keyed"}
    BY <2>1, PageFits DEF TypeInv, CacheFits
  <2>. QED
    BY <2>1, <2>2 DEF KeyedInv, FlagPageInv, FreeInv
<1>2. CASE Poll
  <2>1. /\ UNCHANGED <<page, shown, param>> /\ net' = net \union {List(param)}
    BY <1>2 DEF Poll
  <2>2. List(param).param = param /\ List(param).holds = {}
    BY PlainList, TypeParts
  <2>3. ListingsStay
    BY <2>1, <2>2 DEF ListingsStay
  <2>4. LooksSame
    BY <2>1 DEF LooksSame
  <2>. QED
    BY <2>1, <2>3, <2>4, FilterStay
<1>3. CASE Leave
  BY <1>3, Zenon DEF Leave, Here
<1>4. CASE PutAway
  BY <1>4, FilterPutAway
<1>5. CASE Hide
  <2>1. UNCHANGED <<page, shown, param, net>>
    BY <1>5, HideFacts
  <2>2. LooksSame /\ ListingsStay
    BY <2>1 DEF LooksSame, ListingsStay
  <2>. QED
    BY <2>1, <2>2, FilterStay
<1>. QED
  BY <1>1, <1>2, <1>3, <1>4, <1>5, FilterStart, FilterFilter DEF User

LEMMA FilterWork ==
  ASSUME TypeInv, KeyedInv, FlagPageInv, FreeInv, NEW m \in net, Work(m) \/ Lose(m)
  PROVE  KeyedInv' /\ FlagPageInv' /\ FreeInv'
<1>1. UNCHANGED <<page, param, shown>>
  BY WorkStay
<1>2. PICK n : /\ net' = (net \ {m}) \union {n}
               /\ n.id = m.id /\ n.op = m.op /\ n.param = m.param
               /\ n.holds = m.holds /\ n.passed = m.passed
  BY WorkStay
<1>3. ListingsStay
  BY <1>2 DEF ListingsStay, IsList
<1>4. LooksSame
  BY <1>1 DEF LooksSame
<1>. QED
  BY <1>1, <1>3, <1>4, FilterStay

LEMMA InitFilter ==
  ASSUME Init
  PROVE  FilterInv
<1>1. /\ param = Blank.param /\ param \in Params
      /\ shown = [p \in Params |-> Blank]
      /\ \A n \in net : n.param = param /\ n.holds = {}
  BY InitCalls, BlankIs
<1>2. Copy.param = param
  BY <1>1, BlankIs DEF Copy, Place
<1>. QED
  BY <1>1, <1>2, BlankIs DEF FilterInv, KeyedInv, FlagPageInv, FreeInv

LEMMA FilterNext ==
  ASSUME TypeInv, OneListing, FilterInv, [Next]_vars
  PROVE  FilterInv'
<1>1. Here' => Here
  <2>1. \A m \in net : Listed(m) \/ LookAgain(m) \/ Done(m) \/ Failed(m) => Here
    BY Zenon DEF Listed, LookAgain, Done, Failed
  <2>2. \A m \in net : Work(m) \/ Lose(m) => open' = open
    BY WorkStay
  <2>3. User => Here
    BY Zenon DEF User, Start, Filter, More, Poll, PutAway, Hide, Leave
  <2>4. UNCHANGED vars => open' = open
    BY DEF vars
  <2>. QED
    BY <2>1, <2>2, <2>3, <2>4 DEF Next, Hear, Here
<1>2. SUFFICES ASSUME Here', KeyedInv, FlagPageInv, FreeInv
               PROVE  KeyedInv' /\ FlagPageInv' /\ FreeInv'
  BY <1>1 DEF FilterInv
<1>3. CASE UNCHANGED vars
  <2>1. UNCHANGED <<page, param, shown, net>>
    BY <1>3 DEF vars
  <2>2. LooksSame /\ ListingsStay
    BY <2>1 DEF LooksSame, ListingsStay
  <2>. QED
    BY <1>2, <2>1, <2>2, FilterStay
<1>4. CASE User
  BY <1>2, <1>4, FilterUser
<1>5. ASSUME NEW m \in net, Work(m) \/ Lose(m)
      PROVE  KeyedInv' /\ FlagPageInv' /\ FreeInv'
  BY <1>2, <1>5, FilterWork
<1>6. ASSUME NEW m \in net, Hear(m)
      PROVE  KeyedInv' /\ FlagPageInv' /\ FreeInv'
  BY <1>2, <1>6, KeyedHear, FlagHear, FreeHear
<1>. QED
  BY <1>3, <1>4, <1>5, <1>6 DEF Next

(***************************************************************************)
(* A screen at rest shows what its filter asks for, unless its last        *)
(* listing failed; only a screen without a clean-up and without a query    *)
(* cache may end on an answer that another had passed.                     *)
(***************************************************************************)
THEOREM FilterIsShown == Spec => []FilterShown
<1>1. Init => FilterInv
  BY InitFilter
<1>2. TypeInv /\ OneListing /\ FilterInv /\ [Next]_vars => FilterInv'
  BY FilterNext
<1>3. TypeInv /\ ListInv /\ FilterInv => FilterShown
  <2>1. SUFFICES ASSUME TypeInv, FixedInv, ShownInv, KeyedInv, FlagPageInv, FreeInv,
                        open = "yes", net = {}, page.lists, ~Copy.failed
                 PROVE  Copy.param = param \/ (page.filter = "free" /\ Copy.late)
    BY DEF ListInv, FilterInv, FilterShown, Quiet, Here
  <2>2. Copy = shown[Place(param)] /\ Place(param) \in Params
    BY <2>1, TypeParts, BlankIs DEF Copy, Place
  <2>3. CASE page.filter = "fixed"
    BY <2>1, <2>2, <2>3 DEF FixedInv
  <2>4. CASE page.filter = "keyed"
    <3>1. Settled(Place(param)) /\ ~Coming(Place(param))
      BY <2>1, <2>2 DEF ShownInv, InUse, Coming
    <3>2. Copy.known
      BY <2>1, <2>2, <3>1 DEF Settled
    <3>3. Place(param) = param
      BY <2>4 DEF Place
    <3>. QED
      BY <2>1, <2>2, <2>4, <3>2, <3>3 DEF KeyedInv
  <2>5. CASE page.filter = "flag"
    BY <2>1, <2>5 DEF FlagPageInv
  <2>6. CASE page.filter = "free"
    BY <2>1, <2>6 DEF FreeInv, Listings
  <2>7. page.filter \in {"fixed", "keyed", "flag", "free"}
    BY <2>1, PageFits DEF TypeInv, PageType
  <2>. QED
    BY <2>3, <2>4, <2>5, <2>6, <2>7
<1>. QED
  BY <1>1, <1>2, <1>3, ListsStay, PTL DEF Spec
=============================================================================
