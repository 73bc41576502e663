---------------------------- MODULE Imports_proofs ----------------------------
(***************************************************************************)
(* Theorems about Imports, for any uploads, files, records and bounds.     *)
(***************************************************************************)
EXTENDS Imports, SequenceTheorems, WellFoundedInduction, TLAPS

-----------------------------------------------------------------------------
(* The loop over the rows of a file is a recursive function: what it does  *)
(* is proved by induction, which rests on the order of the numbers.        *)

LEMMA LeastNat ==
  ASSUME NEW S, S \subseteq Nat, S # {}
  PROVE  \E x \in S : \A y \in S : x <= y
<1> DEFINE R == {ss \in Nat \X Nat : ss[1] < ss[2]}
<1>1. IsWellFoundedOn(R, Nat)
  BY NatLessThanWellFounded DEF OpToRel
<1>2. \A x, y \in Nat : y < x => <<y, x>> \in R
  OBVIOUS
<1> HIDE DEF R
<1>3. PICK x \in S : \A y \in S : ~ (<<y, x>> \in R)
  BY <1>1, WFMin
<1>4. \A y \in S : ~(y < x)
  BY <1>2, <1>3
<1> QED
  BY <1>4

LEMMA Induction ==
  ASSUME NEW S, 0 \in S, \A n \in Nat : n \in S => n + 1 \in S
  PROVE  Nat \subseteq S
<1> DEFINE B == Nat \ S
<1>1. SUFFICES ASSUME B # {} PROVE FALSE
  OBVIOUS
<1>2. PICK x \in B : \A y \in B : x <= y
  <2> HIDE DEF B
  <2>1. B \subseteq Nat
    BY DEF B
  <2> QED
    BY <1>1, <2>1, LeastNat
<1>3. x # 0 /\ x - 1 \in Nat
  OBVIOUS
<1> QED
  BY <1>2, <1>3

\* The table and the index at the start of phase 3, and one row more.
Begin(i) == [table |-> table, email |-> index[i].email, phone |-> index[i].phone,
             clash |-> FALSE]
OneMore(i, works, n) == {Row(work, file[i].rows[n], i) : work \in works}

Looped(i, after, last) ==
  after = [n \in 0..last |-> IF n = 0 THEN {Begin(i)} ELSE OneMore(i, after[n - 1], n)]

\* The recursion of the loop defines a function.
LEMMA LoopDefined ==
  ASSUME NEW i, Len(file[i].rows) \in Nat
  PROVE  \E after : Looped(i, after, Len(file[i].rows)) /\ Outcomes(i) = after[Len(file[i].rows)]
<1> DEFINE S == {m \in Nat : \E f : Looped(i, f, m)}
<1>1. 0 \in S
  <2> DEFINE f == [n \in 0..0 |-> {Begin(i)}]
  <2>1. Looped(i, f, 0)
    BY DEF Looped
  <2> QED
    BY <2>1
<1>2. ASSUME NEW m \in Nat, m \in S PROVE m + 1 \in S
  <2>1. PICK f : Looped(i, f, m)
    BY <1>2
  <2> DEFINE g == [n \in 0..(m + 1) |-> IF n = m + 1 THEN OneMore(i, f[m], m + 1) ELSE f[n]]
  <2>2. /\ \A n \in 0..m : g[n] = f[n]
        /\ g[m + 1] = OneMore(i, f[m], m + 1)
    OBVIOUS
  <2>5. g = [n \in 0..(m + 1) |-> g[n]]
    OBVIOUS
  <2> HIDE DEF g
  <2>3. \A n \in 0..m : f[n] = IF n = 0 THEN {Begin(i)} ELSE OneMore(i, f[n - 1], n)
    BY <2>1 DEF Looped
  <2>4. ASSUME NEW n \in 0..(m + 1)
        PROVE  g[n] = IF n = 0 THEN {Begin(i)} ELSE OneMore(i, g[n - 1], n)
    <3>1. CASE n = m + 1
      <4>1. g[n - 1] = f[m]
        BY <2>2, <3>1
      <4> QED
        BY <2>2, <3>1, <4>1
    <3>2. CASE n \in 1..m
      <4>1. g[n - 1] = f[n - 1] /\ g[n] = f[n]
        BY <2>2, <3>2
      <4> QED
        BY <2>3, <3>2, <4>1
    <3>3. CASE n = 0
      BY <2>2, <2>3, <3>3
    <3> QED
      BY <3>1, <3>2, <3>3
  <2>6. Looped(i, g, m + 1)
    BY <2>4, <2>5 DEF Looped
  <2> QED
    BY <2>6
<1>3. Len(file[i].rows) \in S
  <2> HIDE DEF S
  <2> QED
    BY <1>1, <1>2, Induction
<1>4. \E f : Looped(i, f, Len(file[i].rows))
  BY <1>3
<1> DEFINE chosen == CHOOSE after : Looped(i, after, Len(file[i].rows))
<1>5. Looped(i, chosen, Len(file[i].rows))
  BY <1>4
<1>6. Outcomes(i) = chosen[Len(file[i].rows)]
  BY DEF Outcomes, Looped, OneMore, Begin
<1> QED
  BY <1>5, <1>6

-----------------------------------------------------------------------------
(* The invariant.                                                          *)

\* How far the request, the job row and the run of an upload are, together.
StageInv ==
  \A i \in Imports :
    /\ upload[i] \in {"idle", "checked", "stored"} => job[i] = "none" /\ run[i] = "none"
    /\ upload[i] = "committed" => job[i] = "pending" /\ run[i] = "none"
    /\ run[i] # "none" => job[i] # "none"
    /\ run[i] \in {"claimed", "indexed"} => job[i] = "processing"
    /\ run[i] = "indexed" => file[i].readable
    /\ job[i] = "failed" => ~file[i].readable
    /\ i \in collided => run[i] = "gone"

\* Two uploads past the guard, or in flight, at once were both past it before
\* either had a job row, but for a job that failed and is taken up again.
Entered(i) == PastCheck(i) \/ InFlight(i)

EntriesRaced ==
  \A i, j \in Imports :
    /\ i # j /\ Entered(i) /\ Entered(j)
    /\ file[i].readable /\ file[j].readable
    => {i, j} \in raced

\* An index says of every key no more than the table has, and nothing of a blank.
IdsIn(records, ids) ==
  ids[None] = 0 /\ \A key \in DOMAIN ids : ids[key] <= Len(records)

\* It has every phone a record had all along, and every email if nobody has
\* changed the table.
PhonesKnown(changed, records, phones) ==
  \A k \in DOMAIN records :
    /\ records[k].live /\ ~records[k].moved /\ records[k].phone # None
    /\ records[k].author \notin changed
    => phones[records[k].phone] # 0

EmailsKnown(records, emails) ==
  \A k \in DOMAIN records :
    records[k].live /\ records[k].email # None => emails[records[k].email] # 0

IndexInv ==
  \A i \in Imports : run[i] = "indexed" =>
    /\ IdsIn(table, index[i].email) /\ IdsIn(table, index[i].phone)
    /\ PhonesKnown(stale[i], table, index[i].phone)
    /\ stale[i] = {} => EmailsKnown(table, index[i].email)

IInv ==
  /\ TypeOK /\ StageInv /\ EntriesRaced /\ IndexInv
  /\ ImportedOnce /\ SettledTable /\ TwinsAccounted /\ CollisionsAccounted

Twins(records) ==
  \A old, new \in DOMAIN records :
    /\ old < new /\ records[old].live /\ records[new].live
    /\ records[old].phone = records[new].phone /\ records[old].phone # None
    /\ records[new].author \in Imports
    => \/ records[old].author \in stale[records[new].author]
       \/ records[old].moved \/ records[new].moved

\* What the loop of import i may make of the table: the records keep their
\* authors, and their phones unless marked, and the new ones are its own.
Grown(i, records) ==
  /\ Len(table) <= Len(records)
  /\ \A k \in DOMAIN records :
       IF k <= Len(table)
         THEN /\ records[k].author = table[k].author
              /\ records[k].live = table[k].live
              /\ ~records[k].moved => ~table[k].moved /\ records[k].phone = table[k].phone
         ELSE records[k].author = i

Works == [table : Seq(Records), email : Index(Emails, Nat), phone : Index(Phones, Nat),
          clash : BOOLEAN]

\* The invariant of the loop.
WorkInv(i, work) ==
  /\ work \in Works
  /\ Grown(i, work.table)
  /\ IdsIn(work.table, work.email) /\ IdsIn(work.table, work.phone)
  /\ PhonesKnown(stale[i], work.table, work.phone)
  /\ Twins(work.table)
  /\ file[i].mode = "create" /\ stale[i] = {} =>
       EmailsKnown(work.table, work.email) /\ ~work.clash

-----------------------------------------------------------------------------
(* The loop keeps its invariant.                                           *)

LEMMA SequenceFacts ==
  ASSUME NEW S, NEW s \in Seq(S)
  PROVE  /\ Len(s) \in Nat /\ DOMAIN s = 1..Len(s) /\ \A k \in 1..Len(s) : s[k] \in S
         /\ \A x \in S : /\ Append(s, x) \in Seq(S) /\ Len(Append(s, x)) = Len(s) + 1
                         /\ \A k \in 1..Len(s) : Append(s, x)[k] = s[k]
                         /\ Append(s, x)[Len(s) + 1] = x
         /\ \A x \in S, k \in 1..Len(s) :
              /\ [s EXCEPT ![k] = x] \in Seq(S) /\ Len([s EXCEPT ![k] = x]) = Len(s)
              /\ \A j \in 1..Len(s) : [s EXCEPT ![k] = x][j] = IF j = k THEN x ELSE s[j]
  BY LenProperties, ElementOfSeq, AppendProperties, ExceptSeq

\* setdefault: a key that has an id keeps it, and the key learned has one.
LEMMA LearnLearns ==
  ASSUME NEW keys, NEW ids \in Index(keys, Nat), NEW key \in keys \union {None},
         NEW id \in Nat \ {0}, ids[None] = 0
  PROVE  /\ Learn(ids, key, id) \in Index(keys, Nat)
         /\ Learn(ids, key, id)[None] = 0
         /\ \A k \in keys \union {None} : /\ Learn(ids, key, id)[k] \in {ids[k], id}
                                          /\ ids[k] # 0 => Learn(ids, key, id)[k] # 0
         /\ key # None => Learn(ids, key, id)[key] # 0
<1>1. CASE key = None \/ ids[key] # 0
  BY <1>1 DEF Learn, Index
<1>2. CASE key # None /\ ids[key] = 0
  BY <1>2 DEF Learn, Index
<1> QED
  BY <1>1, <1>2

LEMMA RecordTyped ==
  ASSUME NEW keys \in Keys, NEW author \in Authors
  PROVE  /\ Record(keys, author) \in Records
         /\ Record(keys, author).email = keys.email /\ keys.email \in Emails \union {None}
         /\ Record(keys, author).phone = keys.phone /\ keys.phone \in Phones \union {None}
         /\ Record(keys, author).author = author
         /\ Record(keys, author).live /\ ~Record(keys, author).moved
  BY DEF Record, Records, Keys

\* A row that matches nothing: a twin of the new record, or a record with its
\* email, would have been in the index, and the row would have matched it.
LEMMA CreatedKeeps ==
  ASSUME TypeOK, NEW i \in Imports, NEW w, WorkInv(i, w), NEW row \in Keys,
         Match(w, row) = 0, ~w.clash
  PROVE  WorkInv(i, Created(w, row, i))
<1> DEFINE id == Len(w.table) + 1
           r == Record(row, i)
           t == Append(w.table, r)
           c == Created(w, row, i)
<1>1. /\ w.table \in Seq(Records) /\ w.email \in Index(Emails, Nat)
      /\ w.phone \in Index(Phones, Nat) /\ w.email[None] = 0 /\ w.phone[None] = 0
  BY DEF WorkInv, Works, IdsIn
<1>2. /\ r \in Records /\ r.email = row.email /\ row.email \in Emails \union {None}
      /\ r.phone = row.phone /\ row.phone \in Phones \union {None}
      /\ r.author = i /\ r.live /\ ~r.moved
  BY RecordTyped DEF Authors
<1>3. /\ Len(w.table) \in Nat /\ DOMAIN w.table = 1..Len(w.table)
      /\ \A k \in 1..Len(w.table) : w.table[k] \in Records
      /\ t \in Seq(Records) /\ Len(t) = id /\ DOMAIN t = 1..id
      /\ \A k \in 1..Len(w.table) : t[k] = w.table[k]
      /\ t[id] = r
  BY <1>1, <1>2, SequenceFacts
<1>4. id \in Nat \ {0}
  BY <1>3
<1> DEFINE email == Learn(w.email, row.email, id)
           phone == Learn(w.phone, row.phone, id)
           clash == Taken(w.table, row.email, id)
<1> HIDE DEF id
<1>5. /\ email \in Index(Emails, Nat) /\ email[None] = 0
      /\ row.email # None => email[row.email] # 0
  <2>1. email \in Index(Emails, Nat)
    BY <1>1, <1>2, <1>4, LearnLearns
  <2>2. email[None] = 0
    BY <1>1, <1>2 DEF Learn, Index
  <2>3. row.email # None => email[row.email] # 0
    BY <1>1, <1>2, <1>4, LearnLearns
  <2> QED
    BY <2>1, <2>2, <2>3
<1>5a. \A k \in Emails \union {None} : /\ email[k] \in {w.email[k], id}
                                       /\ w.email[k] # 0 => email[k] # 0
  BY <1>1, <1>2, <1>4, LearnLearns
<1>6. /\ phone \in Index(Phones, Nat) /\ phone[None] = 0
      /\ row.phone # None => phone[row.phone] # 0
  <2>1. phone \in Index(Phones, Nat)
    BY <1>1, <1>2, <1>4, LearnLearns
  <2>2. phone[None] = 0
    BY <1>1, <1>2 DEF Learn, Index
  <2>3. row.phone # None => phone[row.phone] # 0
    BY <1>1, <1>2, <1>4, LearnLearns
  <2> QED
    BY <2>1, <2>2, <2>3
<1>6a. \A k \in Phones \union {None} : /\ phone[k] \in {w.phone[k], id}
                                       /\ w.phone[k] # 0 => phone[k] # 0
  BY <1>1, <1>2, <1>4, LearnLearns
<1> USE DEF id
<1>7. c = [table |-> t, email |-> email, phone |-> phone, clash |-> clash]
  BY DEF Created
<1>8. w.email[row.email] = 0 /\ w.phone[row.phone] = 0
  BY DEF Match
<1> HIDE DEF t, r, email, phone
<1>9. c \in Works
  BY <1>3, <1>5, <1>6, <1>7 DEF Works, Taken
<1>10. Grown(i, t)
  <2>1. Len(table) \in Nat
    BY SequenceFacts DEF TypeOK
  <2>2. Grown(i, w.table)
    BY DEF WorkInv
  <2>3. ASSUME NEW k \in 1..id, k # id PROVE k \in 1..Len(w.table)
    BY <1>3, <2>3
  <2> QED
    BY <1>2, <1>3, <2>1, <2>2, <2>3 DEF Grown
<1>11. IdsIn(t, email)
  BY <1>1, <1>3, <1>5, <1>5a DEF IdsIn, WorkInv, Index
<1>12. IdsIn(t, phone)
  BY <1>1, <1>3, <1>6, <1>6a DEF IdsIn, WorkInv, Index
<1>13. PhonesKnown(stale[i], t, phone)
  <2> SUFFICES ASSUME NEW k \in 1..id, t[k].live, ~t[k].moved, t[k].phone # None,
                      t[k].author \notin stale[i]
               PROVE  phone[t[k].phone] # 0
    BY <1>3 DEF PhonesKnown
  <2>1. CASE k = id
    BY <1>2, <1>3, <1>6, <2>1
  <2>2. CASE k # id
    <3>1. k \in 1..Len(w.table) /\ t[k] = w.table[k]
      BY <1>3, <2>2
    <3>2. w.phone[t[k].phone] # 0 /\ t[k].phone \in Phones \union {None}
      BY <1>3, <3>1 DEF WorkInv, PhonesKnown, Records
    <3> QED
      BY <1>6a, <3>2
  <2> QED
    BY <2>1, <2>2
<1>14. Twins(t)
  <2> SUFFICES ASSUME NEW old \in 1..id, NEW new \in 1..id,
                      old < new, t[old].live, t[new].live, t[old].phone = t[new].phone,
                      t[old].phone # None, t[new].author \in Imports
               PROVE  \/ t[old].author \in stale[t[new].author]
                      \/ t[old].moved \/ t[new].moved
    BY <1>3 DEF Twins
  <2>1. old \in 1..Len(w.table) /\ t[old] = w.table[old]
    BY <1>3
  <2>2. CASE new = id
    BY <1>2, <1>3, <1>8, <2>1, <2>2 DEF WorkInv, PhonesKnown
  <2>3. CASE new # id
    <3>1. new \in 1..Len(w.table) /\ t[new] = w.table[new]
      BY <1>3, <2>3
    <3> QED
      BY <1>3, <2>1, <3>1 DEF WorkInv, Twins
  <2> QED
    BY <2>2, <2>3
<1>15. ASSUME file[i].mode = "create", stale[i] = {}
       PROVE  EmailsKnown(t, email) /\ ~clash
  <2>1. EmailsKnown(w.table, w.email)
    BY <1>15 DEF WorkInv
  <2>2. ~clash
    BY <1>3, <1>8, <2>1 DEF Taken, EmailsKnown
  <2>3. ASSUME NEW k \in 1..id, t[k].live, t[k].email # None PROVE email[t[k].email] # 0
    <3>1. CASE k = id
      BY <1>2, <1>3, <1>5, <2>3, <3>1
    <3>2. CASE k # id
      <4>1. k \in 1..Len(w.table) /\ t[k] = w.table[k]
        BY <1>3, <3>2
      <4>2. w.email[t[k].email] # 0 /\ t[k].email \in Emails \union {None}
        BY <1>3, <2>1, <2>3, <4>1 DEF EmailsKnown, Records
      <4> QED
        BY <1>5a, <4>2
    <3> QED
      BY <3>1, <3>2
  <2> QED
    BY <1>3, <2>2, <2>3 DEF EmailsKnown
<1>16. c.table = t /\ c.email = email /\ c.phone = phone /\ c.clash = clash
  BY <1>7
<1> HIDE DEF c, clash
<1>17. WorkInv(i, c)
  BY <1>16, <1>9, <1>10, <1>11, <1>12, <1>13, <1>14, <1>15 DEF WorkInv
<1> QED
  BY <1>17 DEF c

\* Records that are changed where they are: nobody else's, none revived, and a
\* phone that changed is marked.
Touched(before, after) ==
  /\ Len(after) = Len(before)
  /\ \A k \in 1..Len(before) :
       /\ after[k].author = before[k].author
       /\ after[k].live => before[k].live
       /\ ~after[k].moved => ~before[k].moved /\ after[k].phone = before[k].phone

LEMMA TouchedKeeps ==
  ASSUME NEW before \in Seq(Records), NEW after \in Seq(Records), Touched(before, after)
  PROVE  /\ Twins(before) => Twins(after)
         /\ \A changed, phones : PhonesKnown(changed, before, phones) => PhonesKnown(changed, after, phones)
<1>1. /\ DOMAIN before = 1..Len(before) /\ DOMAIN after = 1..Len(before)
  BY SequenceFacts DEF Touched
<1>2. Twins(before) => Twins(after)
  BY <1>1 DEF Twins, Touched
<1>3. \A changed, phones : PhonesKnown(changed, before, phones) => PhonesKnown(changed, after, phones)
  BY <1>1 DEF PhonesKnown, Touched
<1> QED
  BY <1>2, <1>3

\* The columns an upsert overwrites: the author and the place stay, and a
\* phone that changes leaves a mark.
LEMMA OverwrittenKeeps ==
  ASSUME TypeOK, NEW i \in Imports, NEW w, WorkInv(i, w), NEW row \in Keys,
         NEW id \in 1..Len(w.table), file[i].mode = "upsert"
  PROVE  WorkInv(i, Overwritten(w, row, id))
<1> DEFINE old == w.table[id]
           new == [old EXCEPT !.email = IF row.email = None THEN @ ELSE row.email,
                              !.phone = IF row.phone = None THEN @ ELSE row.phone,
                              !.moved = @ \/ row.phone \notin {None, old.phone}]
           t == [w.table EXCEPT ![id] = new]
           o == Overwritten(w, row, id)
           clash == Taken(w.table, new.email, id)
<1>1. w \in Works /\ w.table \in Seq(Records) /\ Len(w.table) \in Nat /\ old \in Records
  BY SequenceFacts DEF WorkInv, Works
<1>2. /\ new \in Records /\ new.author = old.author /\ new.live = old.live
      /\ ~new.moved => ~old.moved /\ new.phone = old.phone
  <2>1. row.email \in Emails \union {None} /\ row.phone \in Phones \union {None}
    BY DEF Keys
  <2> QED
    BY <1>1, <2>1 DEF Records
<1> HIDE DEF new
<1>3. /\ t \in Seq(Records) /\ Len(t) = Len(w.table)
      /\ DOMAIN t = 1..Len(w.table) /\ DOMAIN w.table = 1..Len(w.table)
      /\ \A k \in 1..Len(w.table) : t[k] = IF k = id THEN new ELSE w.table[k]
  BY <1>1, <1>2, SequenceFacts
<1>4. o = [w EXCEPT !.table = t, !.clash = clash]
  BY DEF Overwritten, new
<1> HIDE DEF t
<1>5. /\ o.table = t /\ o.email = w.email /\ o.phone = w.phone
      /\ o \in Works
  BY <1>1, <1>3, <1>4 DEF Works, Taken
<1>6. Touched(w.table, t)
  BY <1>2, <1>3 DEF Touched
<1>7. Twins(t) /\ PhonesKnown(stale[i], t, w.phone)
  BY <1>1, <1>3, <1>6, TouchedKeeps DEF WorkInv
<1>8. Grown(i, t)
  BY <1>2, <1>3 DEF WorkInv, Grown
<1>9. IdsIn(t, w.email) /\ IdsIn(t, w.phone)
  BY <1>3 DEF WorkInv, IdsIn
<1> HIDE DEF o
<1>10. WorkInv(i, o)
  BY <1>5, <1>7, <1>8, <1>9 DEF WorkInv
<1> QED
  BY <1>10 DEF o

\* One row of the loop.
LEMMA RowKeeps ==
  ASSUME TypeOK, NEW i \in Imports, NEW w, WorkInv(i, w), NEW row \in Keys \union {Bad}
  PROVE  WorkInv(i, Row(w, row, i))
<1> USE ImportsAssumption DEF ImportsAssumption
<1>1. CASE w.clash \/ row = Bad
  BY <1>1 DEF Row
<1>2. CASE ~w.clash /\ row # Bad
  <2> DEFINE id == Match(w, row)
  <2>1. row \in Keys
    BY <1>2
  <2>2. row.email \in Emails \union {None} /\ row.phone \in Phones \union {None}
    BY <2>1 DEF Keys
  <2>3. /\ w.email \in Index(Emails, Nat) /\ w.phone \in Index(Phones, Nat)
        /\ w.table \in Seq(Records)
    BY DEF WorkInv, Works
  <2>4. id \in Nat /\ id <= Len(w.table) /\ Len(w.table) \in Nat
    BY <2>2, <2>3, SequenceFacts DEF Match, WorkInv, IdsIn, Index
  <2>5. CASE id = 0
    <3>1. Row(w, row, i) = Created(w, row, i)
      BY <1>2, <2>5 DEF Row
    <3> QED
      BY <1>2, <2>1, <2>5, <3>1, CreatedKeeps
  <2>6. CASE id # 0
    <3>1. Row(w, row, i) = IF file[i].mode = "upsert" /\ w.table[id].live
                           THEN Overwritten(w, row, id) ELSE w
      BY <1>2, <2>6 DEF Row
    <3>2. id \in 1..Len(w.table)
      BY <2>4, <2>6
    <3> HIDE DEF id
    <3> QED
      BY <2>1, <3>1, <3>2, OverwrittenKeeps
  <2> QED
    BY <2>5, <2>6
<1> QED
  BY <1>1, <1>2

\* The table as the run finds it, with the index as it read it.
LEMMA BeginOK ==
  ASSUME IInv, NEW i \in Imports, run[i] = "indexed"
  PROVE  WorkInv(i, Begin(i))
<1>1. /\ Begin(i).table = table /\ Begin(i).email = index[i].email
      /\ Begin(i).phone = index[i].phone /\ Begin(i).clash = FALSE
      /\ Begin(i) \in Works
  BY DEF Begin, Works, IInv, TypeOK
<1>2. Grown(i, table)
  <2>1. Len(table) \in Nat /\ DOMAIN table = 1..Len(table)
    BY SequenceFacts DEF IInv, TypeOK
  <2> QED
    BY <2>1 DEF Grown
<1>3. Twins(table)
  BY DEF IInv, TwinsAccounted, Twins
<1> QED
  BY <1>1, <1>2, <1>3 DEF WorkInv, IInv, IndexInv

\* What an import makes of the table and of the index, whatever its rows.
LEMMA OutcomesKeep ==
  ASSUME IInv, NEW i \in Imports, run[i] = "indexed", NEW work \in Outcomes(i)
  PROVE  WorkInv(i, work)
<1> DEFINE rows == file[i].rows
<1>1. rows \in Seq(Keys \union {Bad})
  BY ImportsAssumption DEF ImportsAssumption, IInv, TypeOK
<1>2. /\ Len(rows) \in Nat
      /\ \A n \in 1..Len(rows) : rows[n] \in Keys \union {Bad}
  <2> HIDE DEF rows
  <2> QED
    BY <1>1, SequenceFacts
<1>3. PICK after : Looped(i, after, Len(rows)) /\ Outcomes(i) = after[Len(rows)]
  BY <1>2, LoopDefined
<1>4. \A n \in 0..Len(rows) :
        after[n] = IF n = 0 THEN {Begin(i)} ELSE OneMore(i, after[n - 1], n)
  BY <1>3 DEF Looped
<1> DEFINE S == {n \in Nat : n <= Len(rows) => \A w \in after[n] : WorkInv(i, w)}
<1>5. 0 \in S
  BY <1>2, <1>4, BeginOK
<1>6. ASSUME NEW n \in Nat, n \in S PROVE n + 1 \in S
  <2> SUFFICES ASSUME n + 1 <= Len(rows), NEW w \in after[n + 1] PROVE WorkInv(i, w)
    OBVIOUS
  <2>1. n + 1 \in 1..Len(rows) /\ (n + 1) - 1 = n /\ n + 1 # 0 /\ n + 1 \in 0..Len(rows)
    BY <1>2
  <2>2. after[n + 1] = OneMore(i, after[n], n + 1)
    BY <1>4, <2>1
  <2>3. PICK v \in after[n] : w = Row(v, rows[n + 1], i)
    BY <2>2 DEF OneMore
  <2>4. WorkInv(i, v)
    BY <1>2, <1>6
  <2>5. rows[n + 1] \in Keys \union {Bad}
    BY <1>2, <2>1
  <2> HIDE DEF rows
  <2> QED
    BY <2>3, <2>4, <2>5, RowKeeps DEF IInv
<1>7. Len(rows) \in S
  <2> HIDE DEF S
  <2> QED
    BY <1>2, <1>5, <1>6, Induction
<1> QED
  BY <1>2, <1>3, <1>7

-----------------------------------------------------------------------------
(* Every step keeps the invariant.                                         *)

\* The steps that change neither the table, nor what was read of it, nor who
\* has changed it since.
LEMMA QuietKeeps ==
  ASSUME IInv, TypeOK', StageInv', EntriesRaced', ImportedOnce',
         UNCHANGED <<file, table, index, stale, collided>>, raced \subseteq raced',
         \A i \in Imports : run'[i] = "indexed" => run[i] = "indexed"
  PROVE  IInv'
<1>1. IndexInv'
  BY DEF IInv, IndexInv, IdsIn, PhonesKnown, EmailsKnown
<1>2. SettledTable'
  BY DEF IInv, SettledTable
<1>3. TwinsAccounted' /\ CollisionsAccounted'
  BY DEF IInv, TwinsAccounted, CollisionsAccounted
<1> QED
  BY <1>1, <1>2, <1>3 DEF IInv

\* The steps that leave the job rows and the records alone as well.
LEMMA JobsKept ==
  ASSUME IInv, UNCHANGED <<file, table, job, wrote>>
  PROVE  /\ ImportedOnce'
         /\ raced \subseteq raced' /\ (\A i \in Imports : PastCheck(i)' => PastCheck(i))
              => EntriesRaced'
  BY DEF IInv, ImportedOnce, EntriesRaced, Entered, InFlight

\* The request: whoever passes the guard meets none in flight, and is noted
\* beside everyone who is past it.
LEMMA RequestKeeps ==
  ASSUME IInv, NEW i \in Imports,
         Check(i) \/ Store(i) \/ Commit(i) \/ Push(i) \/ HandlerFails(i)
  PROVE  IInv'
<1>1. /\ TypeOK /\ StageInv
      /\ upload \in [Imports -> {"idle", "checked", "stored", "committed", "ended"}]
      /\ job \in [Imports -> {"none", "pending", "processing", "completed", "failed"}]
      /\ run \in [Imports -> {"none", "waiting", "started", "claimed", "indexed", "ended", "gone"}]
  BY DEF IInv, TypeOK
<1> USE ImportsAssumption DEF ImportsAssumption
<1>2. CASE Check(i)
  <2>1. TypeOK'
    <3> DEFINE pairs == {{i, j} : j \in {k \in Imports : PastCheck(k)}}
    <3>1. pairs \subseteq SUBSET Imports
      OBVIOUS
    <3>2. raced' \subseteq SUBSET Imports
      <4>1. raced' = raced \union pairs /\ raced \subseteq SUBSET Imports
        BY <1>2 DEF Check, IInv, TypeOK
      <4> QED
        BY <3>1, <4>1
    <3> QED
      BY <1>1, <1>2, <3>2 DEF Check, TypeOK, runVars, boundVars, outcomeVars
  <2>2. StageInv'
    BY <1>1, <1>2 DEF Check, StageInv, runVars, outcomeVars
  <2>3. /\ UNCHANGED <<file, table, index, stale, collided, job, wrote, run>>
        /\ raced' = raced \union {{i, j} : j \in {k \in Imports : PastCheck(k)}}
    BY <1>2 DEF Check, runVars, outcomeVars
  <2>4. \A j \in Imports : ~InFlight(j) /\ ~InFlight(j)'
    BY <1>2, <2>3 DEF Check, InFlight
  <2>5. \A j \in Imports : j # i => PastCheck(j)' = PastCheck(j)
    BY <1>1, <1>2 DEF Check, PastCheck
  <2>6. EntriesRaced'
    <3> SUFFICES ASSUME NEW a \in Imports, NEW b \in Imports, a # b,
                        Entered(a)', Entered(b)', file[a].readable, file[b].readable
                 PROVE  {a, b} \in raced'
      BY <2>3 DEF EntriesRaced
    <3>1. PastCheck(a)' /\ PastCheck(b)'
      BY <2>4 DEF Entered
    <3>2. CASE a # i /\ b # i
      <4>1. {a, b} \in raced
        BY <2>5, <3>1, <3>2 DEF IInv, EntriesRaced, Entered
      <4> QED
        BY <2>3, <4>1
    <3>3. CASE a = i
      <4>1. PastCheck(b)
        BY <2>5, <3>1, <3>3
      <4> QED
        BY <2>3, <3>3, <4>1
    <3>4. CASE b = i
      <4>1. PastCheck(a) /\ {a, b} = {b, a}
        BY <2>5, <3>1, <3>4
      <4> QED
        BY <2>3, <3>4, <4>1
    <3> QED
      BY <3>2, <3>3, <3>4
  <2>7. ImportedOnce'
    BY <2>3, JobsKept
  <2> QED
    BY <2>1, <2>2, <2>3, <2>6, <2>7, QuietKeeps
<1>3. CASE Store(i)
  <2>1. TypeOK' /\ StageInv'
    BY <1>1, <1>3 DEF Store, TypeOK, StageInv, runVars, boundVars, outcomeVars
  <2>2. \A j \in Imports : PastCheck(j)' => PastCheck(j)
    BY <1>1, <1>3 DEF Store, PastCheck
  <2>3. UNCHANGED <<file, table, index, stale, collided, job, wrote, run, raced>>
    BY <1>3 DEF Store, runVars, outcomeVars
  <2>4. ImportedOnce' /\ EntriesRaced'
    BY <2>2, <2>3, JobsKept
  <2> QED
    BY <2>1, <2>3, <2>4, QuietKeeps
<1>4. CASE Commit(i)
  <2>1. TypeOK'
    BY <1>1, <1>4 DEF Commit, TypeOK, runVars, boundVars, outcomeVars
  <2>2. StageInv'
    BY <1>1, <1>4 DEF Commit, StageInv, runVars, outcomeVars
  <2>3. UNCHANGED <<file, table, index, stale, collided, wrote, run, raced>>
    BY <1>4 DEF Commit, runVars, outcomeVars
  <2>4. job[i] = "none" /\ job' = [job EXCEPT ![i] = "pending"] /\ PastCheck(i)
    BY <1>1, <1>4 DEF Commit, StageInv, PastCheck
  <2>5. ImportedOnce'
    BY <1>1, <2>3, <2>4 DEF IInv, ImportedOnce
  <2>6. \A j \in Imports : Entered(j)' => Entered(j)
    BY <1>1, <1>4, <2>4 DEF Commit, Entered, PastCheck, InFlight
  <2>7. EntriesRaced'
    BY <2>3, <2>6 DEF IInv, EntriesRaced
  <2> QED
    BY <2>1, <2>2, <2>3, <2>5, <2>7, QuietKeeps
<1>5. CASE Push(i)
  <2>1. TypeOK'
    BY <1>1, <1>5 DEF Push, TypeOK, boundVars, outcomeVars
  <2>2. StageInv'
    BY <1>1, <1>5 DEF Push, StageInv, outcomeVars
  <2>3. \A j \in Imports : PastCheck(j)' => PastCheck(j)
    BY <1>1, <1>5 DEF Push, PastCheck
  <2>4. UNCHANGED <<file, table, index, stale, collided, job, wrote, raced>>
    BY <1>5 DEF Push, outcomeVars
  <2>5. \A j \in Imports : run'[j] = "indexed" => run[j] = "indexed"
    BY <1>1, <1>5 DEF Push
  <2>6. ImportedOnce' /\ EntriesRaced'
    BY <2>3, <2>4, JobsKept
  <2> QED
    BY <2>1, <2>2, <2>4, <2>5, <2>6, QuietKeeps
<1>6. CASE HandlerFails(i)
  <2>1. TypeOK'
    BY <1>1, <1>6 DEF HandlerFails, TypeOK, runVars
  <2>2. StageInv'
    BY <1>1, <1>6 DEF HandlerFails, StageInv, runVars
  <2>3. \A j \in Imports : PastCheck(j)' => PastCheck(j)
    BY <1>1, <1>6 DEF HandlerFails, PastCheck
  <2>4. UNCHANGED <<file, table, index, stale, collided, job, wrote, run, raced>>
    BY <1>6 DEF HandlerFails, runVars
  <2>5. ImportedOnce' /\ EntriesRaced'
    BY <2>3, <2>4, JobsKept
  <2> QED
    BY <2>1, <2>2, <2>4, <2>5, QuietKeeps
<1> QED
  BY <1>2, <1>3, <1>4, <1>5, <1>6

\* The steps of a run that neither read the table nor write it.  Only a job
\* that is not completed is claimed, and one that had failed is unreadable.
LEMMA RunKeeps ==
  ASSUME IInv, NEW i \in Imports,
         PickUp(i) \/ Claim(i) \/ Reject(i) \/ Finish(i) \/ Raise(i) \/ Crash(i)
  PROVE  IInv'
<1>1. /\ TypeOK /\ StageInv
      /\ job \in [Imports -> {"none", "pending", "processing", "completed", "failed"}]
      /\ run \in [Imports -> {"none", "waiting", "started", "claimed", "indexed", "ended", "gone"}]
  BY DEF IInv, TypeOK
<1> USE ImportsAssumption DEF ImportsAssumption
<1>2. /\ UNCHANGED <<file, upload, raced, table, index, stale, collided, wrote>>
      /\ \E s : run' = [run EXCEPT ![i] = s] /\ s # "indexed" /\ s # "none"
      /\ run[i] # "none" /\ run[i] # "gone"
  BY DEF PickUp, Claim, Reject, Finish, Raise, Crash, Running, runVars, requestVars,
         boundVars, outcomeVars
<1>3. /\ \A j \in Imports : run'[j] = "indexed" => run[j] = "indexed"
      /\ \A j \in Imports : PastCheck(j)' = PastCheck(j)
  BY <1>1, <1>2 DEF PastCheck
<1>4. CASE UNCHANGED job
  <2>1. TypeOK'
    <3>1. CASE PickUp(i)
      <4>1. tries \in [Imports -> 0..MaxTries] /\ dropped \subseteq Imports
        BY <1>1 DEF TypeOK
      <4>2. tries' \in [Imports -> 0..MaxTries] /\ dropped' \subseteq Imports
        BY <3>1, <4>1 DEF PickUp
      <4>3. run' \in [Imports -> {"none", "waiting", "started", "claimed", "indexed", "ended", "gone"}]
        BY <1>1, <3>1 DEF PickUp
      <4>4. UNCHANGED <<file, upload, raced, job, index, table, faults, hands, stale, wrote, collided>>
        BY <3>1 DEF PickUp, requestVars, boundVars
      <4> QED
        BY <1>1, <4>2, <4>3, <4>4 DEF TypeOK
    <3>2. CASE Claim(i)
      <4>1. run' \in [Imports -> {"none", "waiting", "started", "claimed", "indexed", "ended", "gone"}]
        BY <1>1, <3>2 DEF Claim
      <4>2. UNCHANGED <<file, requestVars, tries, index, table, boundVars, stale, outcomeVars>>
        BY <1>4, <3>2 DEF Claim
      <4> QED
        BY <1>1, <1>4, <4>1, <4>2 DEF TypeOK, requestVars, boundVars, outcomeVars
    <3>3. CASE Finish(i)
      BY <1>1, <3>3 DEF Finish, TypeOK, requestVars, boundVars, outcomeVars
    <3>4. CASE Raise(i)
      BY <1>1, <3>4 DEF Raise, TypeOK, requestVars
    <3>5. CASE Crash(i)
      BY <1>1, <3>5 DEF Crash, TypeOK, requestVars, outcomeVars
    <3>6. CASE Reject(i)
      <4>1. run' \in [Imports -> {"none", "waiting", "started", "claimed", "indexed", "ended", "gone"}]
        BY <1>1, <3>6 DEF Reject
      <4>2. UNCHANGED <<file, requestVars, tries, index, table, boundVars, stale, outcomeVars>>
        BY <1>4, <3>6 DEF Reject
      <4> QED
        BY <1>1, <1>4, <4>1, <4>2 DEF TypeOK, requestVars, boundVars, outcomeVars
    <3> QED
      BY <3>1, <3>2, <3>3, <3>4, <3>5, <3>6
  <2>2. run'[i] # "claimed" \/ job[i] = "processing"
    BY <1>1, <1>4 DEF PickUp, Claim, Reject, Finish, Raise, Crash
  <2>3. StageInv'
    BY <1>1, <1>2, <1>4, <2>2 DEF StageInv
  <2>4. ImportedOnce' /\ EntriesRaced'
    BY <1>2, <1>3, <1>4, JobsKept
  <2> QED
    BY <1>2, <1>3, <2>1, <2>3, <2>4, QuietKeeps
<1>5. CASE Claim(i) /\ job[i] # "completed"
  <2>1. /\ run' = [run EXCEPT ![i] = "claimed"] /\ job' = [job EXCEPT ![i] = "processing"]
        /\ job[i] # "none" /\ run[i] = "started"
    BY <1>1, <1>5 DEF Claim, StageInv
  <2>2. TypeOK'
    <3>1. /\ run' \in [Imports -> {"none", "waiting", "started", "claimed", "indexed", "ended", "gone"}]
          /\ job' \in [Imports -> {"none", "pending", "processing", "completed", "failed"}]
      BY <1>1, <2>1
    <3>2. UNCHANGED <<file, requestVars, tries, index, table, boundVars, stale, outcomeVars>>
      BY <1>5 DEF Claim
    <3> QED
      BY <1>1, <3>1, <3>2 DEF TypeOK, requestVars, boundVars, outcomeVars
  <2>3. StageInv'
    BY <1>1, <1>2, <2>1 DEF StageInv
  <2>4. ImportedOnce'
    BY <1>1, <1>2, <1>5, <2>1 DEF IInv, ImportedOnce
  <2>5. job[i] \in {"pending", "processing"} \/ ~file[i].readable
    BY <1>1, <1>5, <2>1 DEF StageInv
  <2>6. \A j \in Imports : Entered(j)' /\ file[j].readable => Entered(j)
    BY <1>1, <1>3, <2>1, <2>5 DEF Entered, InFlight
  <2>7. EntriesRaced'
    BY <1>2, <2>6 DEF IInv, EntriesRaced
  <2> QED
    BY <1>2, <1>3, <2>2, <2>3, <2>4, <2>7, QuietKeeps
<1>6. CASE Reject(i)
  <2>1. /\ run' = [run EXCEPT ![i] = "ended"] /\ job' = [job EXCEPT ![i] = "failed"]
        /\ job[i] = "processing" /\ ~file[i].readable /\ run[i] = "claimed"
    BY <1>1, <1>6 DEF Reject, StageInv
  <2>2. TypeOK'
    BY <1>1, <1>6 DEF Reject, TypeOK, requestVars, boundVars, outcomeVars
  <2>3. StageInv'
    BY <1>1, <1>2, <2>1 DEF StageInv
  <2>4. ImportedOnce'
    BY <1>1, <1>2, <2>1 DEF IInv, ImportedOnce
  <2>5. \A j \in Imports : Entered(j)' => Entered(j)
    BY <1>1, <1>3, <2>1 DEF Entered, InFlight
  <2>6. EntriesRaced'
    BY <1>2, <2>5 DEF IInv, EntriesRaced
  <2> QED
    BY <1>2, <1>3, <2>2, <2>3, <2>4, <2>6, QuietKeeps
<1> QED
  BY <1>4, <1>5, <1>6 DEF PickUp, Claim, Finish, Raise, Crash

\* Every column of a record has its values, and every id is in the table.
LEMMA TableFacts ==
  ASSUME IInv
  PROVE  /\ table \in Seq(Records) /\ Len(table) \in Nat /\ DOMAIN table = 1..Len(table)
         /\ \A k \in DOMAIN table : table[k] \in Records
  BY SequenceFacts DEF IInv, TypeOK

\* What a reading of the table knows: a holder of every key that has one.
LEMMA KeyIndexesKnow ==
  ASSUME IInv, NEW keys, NEW column, NEW ids \in KeyIndexes(keys, column)
  PROVE  /\ ids \in Index(keys, Nat) /\ IdsIn(table, ids)
         /\ \A k \in DOMAIN table : table[k].live /\ column[k] \in keys => ids[column[k]] # 0
<1>1. Len(table) \in Nat /\ DOMAIN table = 1..Len(table)
  BY TableFacts
<1>2. ids \in Index(keys, 0..Len(table)) /\ ids[None] = 0
  BY DEF KeyIndexes
<1>3. ids \in Index(keys, Nat) /\ IdsIn(table, ids)
  BY <1>1, <1>2 DEF Index, IdsIn
<1>4. ASSUME NEW k \in DOMAIN table, table[k].live, column[k] \in keys
      PROVE  ids[column[k]] # 0
  <2> DEFINE holders == {h \in DOMAIN table : table[h].live /\ column[h] = column[k]}
  <2>1. k \in holders
    BY <1>4
  <2>2. ids[column[k]] \in holders
    BY <1>4, <2>1 DEF KeyIndexes
  <2> QED
    BY <1>1, <2>2
<1> QED
  BY <1>3, <1>4

\* A run reads the table: no record of its import is there, so nobody relies
\* any more on who changed the table since an earlier reading.
LEMMA ReadTableKeeps ==
  ASSUME IInv, NEW i \in Imports, ReadTable(i)
  PROVE  IInv'
<1>1. /\ TypeOK /\ StageInv
      /\ run \in [Imports -> {"none", "waiting", "started", "claimed", "indexed", "ended", "gone"}]
      /\ stale \in [Imports -> SUBSET Authors]
      /\ index \in [Imports -> [email : Index(Emails, Nat), phone : Index(Phones, Nat)]]
  BY DEF IInv, TypeOK
<1>2. PICK emails \in KeyIndexes(Emails, EmailColumn), phones \in KeyIndexes(Phones, PhoneColumn) :
        index' = [index EXCEPT ![i] = [email |-> emails, phone |-> phones]]
  BY DEF ReadTable
<1>3. /\ run' = [run EXCEPT ![i] = "indexed"] /\ stale' = [stale EXCEPT ![i] = {}]
      /\ run[i] = "claimed" /\ file[i].readable
      /\ UNCHANGED <<file, upload, raced, job, table, wrote, collided>>
  BY DEF ReadTable, requestVars, outcomeVars
<1>4. /\ emails \in Index(Emails, Nat) /\ IdsIn(table, emails)
      /\ \A k \in DOMAIN table :
           table[k].live /\ EmailColumn[k] \in Emails => emails[EmailColumn[k]] # 0
  BY KeyIndexesKnow
<1>5. /\ phones \in Index(Phones, Nat) /\ IdsIn(table, phones)
      /\ \A k \in DOMAIN table :
           table[k].live /\ PhoneColumn[k] \in Phones => phones[PhoneColumn[k]] # 0
  BY KeyIndexesKnow
<1>6. TypeOK'
  BY <1>1, <1>2, <1>3, <1>4, <1>5 DEF ReadTable, TypeOK, requestVars, boundVars, outcomeVars
<1>7. StageInv'
  BY <1>1, <1>3 DEF StageInv
<1>8. ImportedOnce' /\ EntriesRaced'
  BY <1>3 DEF IInv, ImportedOnce, EntriesRaced, Entered, InFlight, PastCheck
<1>9. IndexInv'
  <2> SUFFICES ASSUME NEW j \in Imports, run'[j] = "indexed"
               PROVE  /\ IdsIn(table, index'[j].email) /\ IdsIn(table, index'[j].phone)
                      /\ PhonesKnown(stale'[j], table, index'[j].phone)
                      /\ stale'[j] = {} => EmailsKnown(table, index'[j].email)
    BY <1>3 DEF IndexInv, IdsIn, PhonesKnown, EmailsKnown
  <2>1. CASE j = i
    <3>1. index'[j].email = emails /\ index'[j].phone = phones
      BY <1>1, <1>2, <2>1
    <3>2. EmailsKnown(table, emails)
      BY <1>4, TableFacts DEF EmailsKnown, EmailColumn, Records
    <3>3. \A k \in DOMAIN table : table[k].live /\ table[k].phone # None
                                    => phones[table[k].phone] # 0
      BY <1>5, TableFacts DEF PhoneColumn, Records
    <3> QED
      BY <1>3, <1>4, <1>5, <3>1, <3>2, <3>3 DEF PhonesKnown
  <2>2. CASE j # i
    <3>1. run[j] = "indexed" /\ index'[j] = index[j] /\ stale'[j] = stale[j]
      BY <1>1, <1>2, <1>3, <2>2
    <3> QED
      BY <1>3, <3>1 DEF IInv, IndexInv, PhonesKnown
  <2> QED
    BY <2>1, <2>2
<1>10. SettledTable'
  BY <1>1, <1>3 DEF IInv, SettledTable
<1>11. TwinsAccounted'
  <2>1. \A k \in DOMAIN table : table[k].author # i
    BY <1>3 DEF IInv, StageInv, ImportedOnce
  <2>2. \A j \in Imports : j # i => stale'[j] = stale[j]
    BY <1>1, <1>3
  <2> QED
    BY <1>3, <2>1, <2>2 DEF IInv, TwinsAccounted
<1>12. CollisionsAccounted'
  <2>1. i \notin collided
    BY <1>3 DEF IInv, StageInv
  <2> QED
    BY <1>1, <1>3, <2>1 DEF IInv, CollisionsAccounted, TypeOK
<1> QED
  BY <1>6, <1>7, <1>8, <1>9, <1>10, <1>11, <1>12 DEF IInv

\* A change of the table: whoever has read it hears of the author, and of the
\* records only what is unmarked and not that author's is relied on.
LEMMA ChangedIndexes ==
  ASSUME IInv, NEW author \in Authors, NEW records \in Seq(Records),
         table' = records, Changed(author), UNCHANGED <<file, index>>,
         \A j \in Imports : run'[j] = "indexed" => run[j] = "indexed" /\ j # author,
         Len(table) <= Len(records),
         \A k \in 1..Len(records) :
           IF k <= Len(table)
             THEN /\ records[k].author = table[k].author
                  /\ records[k].live => table[k].live
                  /\ ~records[k].moved => ~table[k].moved /\ records[k].phone = table[k].phone
             ELSE records[k].author = author
  PROVE  IndexInv'
<1>1. /\ Len(records) \in Nat /\ DOMAIN records = 1..Len(records)
      /\ Len(table) \in Nat /\ DOMAIN table = 1..Len(table)
      /\ \A k \in 1..Len(records) : records[k] \in Records
  BY TableFacts, SequenceFacts
<1> SUFFICES ASSUME NEW j \in Imports, run'[j] = "indexed"
             PROVE  /\ IdsIn(records, index[j].email) /\ IdsIn(records, index[j].phone)
                    /\ PhonesKnown(stale'[j], records, index[j].phone)
                    /\ stale'[j] # {}
  BY DEF IndexInv, IdsIn, PhonesKnown, EmailsKnown
<1>2. stale'[j] = stale[j] \union {author}
  BY DEF Changed
<1>3. /\ IdsIn(table, index[j].email) /\ IdsIn(table, index[j].phone)
      /\ PhonesKnown(stale[j], table, index[j].phone)
      /\ index[j] \in [email : Index(Emails, Nat), phone : Index(Phones, Nat)]
  BY DEF IInv, IndexInv, TypeOK
<1>4. IdsIn(records, index[j].email) /\ IdsIn(records, index[j].phone)
  BY <1>1, <1>3 DEF IdsIn, Index
<1>5. ASSUME NEW k \in 1..Len(records), records[k].live, ~records[k].moved,
             records[k].phone # None, records[k].author \notin stale'[j]
      PROVE  index[j].phone[records[k].phone] # 0
  <2>1. k \in 1..Len(table)
    BY <1>1, <1>2, <1>5
  <2>2. /\ table[k].live /\ ~table[k].moved /\ table[k].phone = records[k].phone
        /\ table[k].author \notin stale[j]
    BY <1>2, <1>5, <2>1
  <2> QED
    BY <1>1, <1>3, <1>5, <2>1, <2>2 DEF PhonesKnown
<1>6. PhonesKnown(stale'[j], records, index[j].phone)
  BY <1>1, <1>5 DEF PhonesKnown
<1> QED
  BY <1>2, <1>4, <1>6

\* The rows and the stamp: another run that has read the table hears of it,
\* and both uploads were in flight, so they had raced past the guard.
LEMMA WriteKeeps ==
  ASSUME IInv, NEW i \in Imports, run[i] = "indexed", NEW work, WorkInv(i, work),
         Write(i, work.table)
  PROVE  IInv'
<1> DEFINE records == work.table
<1>1. /\ TypeOK /\ StageInv
      /\ run \in [Imports -> {"none", "waiting", "started", "claimed", "indexed", "ended", "gone"}]
      /\ job \in [Imports -> {"none", "pending", "processing", "completed", "failed"}]
      /\ stale \in [Imports -> SUBSET Authors] /\ wrote \in [Imports -> Nat]
      /\ job[i] = "processing" /\ file[i].readable
  BY DEF IInv, TypeOK, StageInv
<1>2. /\ table' = records /\ job' = [job EXCEPT ![i] = "completed"]
      /\ run' = [run EXCEPT ![i] = "ended"] /\ wrote' = [wrote EXCEPT ![i] = @ + 1]
      /\ Changed(i)
      /\ UNCHANGED <<file, upload, raced, index, collided>>
      /\ UNCHANGED <<tries, boundVars, dropped>>
  BY DEF Write, requestVars
<1>3. /\ records \in Seq(Records) /\ Grown(i, records) /\ Twins(records)
      /\ Len(records) \in Nat /\ DOMAIN records = 1..Len(records)
      /\ Len(table) \in Nat /\ DOMAIN table = 1..Len(table)
  BY SequenceFacts, TableFacts DEF WorkInv, Works
<1> HIDE DEF records
<1>4. /\ i \in Authors
      /\ \A j \in Imports : stale'[j] = IF run[j] = "indexed" /\ j # i
                                        THEN stale[j] \union {i} ELSE stale[j]
  BY <1>2 DEF Changed, Authors
<1>5. TypeOK'
  <2>1. stale' \in [Imports -> SUBSET Authors]
    BY <1>1, <1>2, <1>4 DEF Changed
  <2>2. job' \in [Imports -> {"none", "pending", "processing", "completed", "failed"}]
        /\ run' \in [Imports -> {"none", "waiting", "started", "claimed", "indexed", "ended", "gone"}]
        /\ wrote' \in [Imports -> Nat]
    BY <1>1, <1>2
  <2> QED
    BY <1>1, <1>2, <1>3, <2>1, <2>2 DEF TypeOK, boundVars
<1>6. StageInv'
  BY <1>1, <1>2 DEF StageInv
<1>7. EntriesRaced'
  <2>1. \A j \in Imports : Entered(j)' => Entered(j)
    BY <1>1, <1>2 DEF Entered, PastCheck, InFlight
  <2> QED
    BY <1>2, <2>1 DEF IInv, EntriesRaced
<1>8. ImportedOnce'
  <2>1. ASSUME NEW j \in Imports
        PROVE  /\ wrote'[j] = IF job'[j] = "completed" THEN 1 ELSE 0
               /\ job'[j] # "completed" => \A k \in DOMAIN records : records[k].author # j
    <3>1. CASE j = i
      BY <1>1, <1>2, <3>1 DEF IInv, ImportedOnce
    <3>2. CASE j # i
      <4>1. job'[j] = job[j] /\ wrote'[j] = wrote[j]
        BY <1>1, <1>2, <3>2
      <4>2. ASSUME job[j] # "completed", NEW k \in 1..Len(records)
            PROVE  records[k].author # j
        <5>1. k <= Len(table) => k \in DOMAIN table
          BY <1>3
        <5> QED
          BY <1>3, <3>2, <4>2, <5>1 DEF IInv, ImportedOnce, Grown
      <4> QED
        BY <1>3, <4>1, <4>2 DEF IInv, ImportedOnce
    <3> QED
      BY <3>1, <3>2
  <2> QED
    BY <1>2, <2>1 DEF ImportedOnce
<1>9. IndexInv'
  <2>1. \A j \in Imports : run'[j] = "indexed" => run[j] = "indexed" /\ j # i
    BY <1>1, <1>2
  <2> QED
    BY <1>2, <1>3, <1>4, <2>1, ChangedIndexes DEF Grown
<1>10. SettledTable'
  <2>1. ASSUME NEW j \in Imports, NEW a \in stale'[j] \ {Person} PROVE {j, a} \in raced
    <3>1. CASE a \in stale[j]
      BY <3>1 DEF IInv, SettledTable
    <3>2. CASE a \notin stale[j]
      <4>1. a = i /\ j # i /\ run[j] = "indexed"
        <5>1. stale'[j] = IF run[j] = "indexed" /\ j # i THEN stale[j] \union {i} ELSE stale[j]
          BY <1>4
        <5>2. a \in stale'[j]
          BY <2>1
        <5>3. CASE run[j] = "indexed" /\ j # i
          BY <3>2, <5>1, <5>2, <5>3
        <5>4. CASE ~(run[j] = "indexed" /\ j # i)
          <6>1. stale'[j] = stale[j]
            BY <5>1, <5>4
          <6> QED
            BY <3>2, <5>2, <6>1
        <5> QED
          BY <5>3, <5>4
      <4>2. job[j] = "processing" /\ file[j].readable
        BY <1>1, <4>1 DEF StageInv
      <4> QED
        BY <1>1, <4>1, <4>2 DEF IInv, EntriesRaced, Entered, InFlight
    <3> QED
      BY <3>1, <3>2
  <2> QED
    BY <1>2, <2>1 DEF SettledTable
<1>11. TwinsAccounted'
  <2>1. \A j \in Imports : stale[j] \subseteq stale'[j]
    BY <1>4
  <2> QED
    BY <1>2, <1>3, <2>1 DEF TwinsAccounted, Twins
<1>12. CollisionsAccounted'
  <2>1. \A j \in Imports : stale[j] # {} => stale'[j] # {}
    BY <1>4
  <2> QED
    BY <1>1, <1>2, <2>1 DEF IInv, CollisionsAccounted, TypeOK
<1> QED
  BY <1>5, <1>6, <1>7, <1>8, <1>9, <1>10, <1>11, <1>12 DEF IInv

\* The statement that breaks the unique index.
LEMMA CollideKeeps ==
  ASSUME IInv, NEW i \in Imports, run[i] = "indexed", NEW work, WorkInv(i, work),
         work.clash, Collide(i)
  PROVE  IInv'
<1>1. /\ TypeOK /\ StageInv
      /\ run \in [Imports -> {"none", "waiting", "started", "claimed", "indexed", "ended", "gone"}]
      /\ file[i] \in Files
  BY DEF IInv, TypeOK
<1>2. /\ run' = [run EXCEPT ![i] = "gone"] /\ collided' = collided \union {i}
      /\ UNCHANGED <<file, upload, raced, job, index, table, stale, wrote>>
      /\ UNCHANGED <<tries, boundVars, dropped>>
  BY DEF Collide, requestVars
<1>3. stale[i] # {} \/ file[i].mode = "upsert"
  BY <1>1, ImportsAssumption DEF ImportsAssumption, WorkInv
<1>4. TypeOK'
  BY <1>1, <1>2 DEF TypeOK, boundVars
<1>5. StageInv'
  BY <1>1, <1>2 DEF StageInv
<1>6. IndexInv'
  BY <1>1, <1>2 DEF IInv, IndexInv, IdsIn, PhonesKnown, EmailsKnown
<1>7. /\ EntriesRaced' /\ ImportedOnce' /\ SettledTable' /\ TwinsAccounted'
      /\ CollisionsAccounted'
  BY <1>2, <1>3 DEF IInv, EntriesRaced, Entered, InFlight, PastCheck, ImportedOnce,
                    SettledTable, TwinsAccounted, CollisionsAccounted
<1> QED
  BY <1>4, <1>5, <1>6, <1>7 DEF IInv

\* People change the table: every run that has read it hears of it.
LEMMA HandKeeps ==
  ASSUME IInv, NEW records \in Seq(Records), ChangeByHand(records), Twins(records),
         Len(table) <= Len(records),
         \A k \in 1..Len(records) :
           IF k <= Len(table)
             THEN /\ records[k].author = table[k].author
                  /\ records[k].live => table[k].live
                  /\ ~records[k].moved => ~table[k].moved /\ records[k].phone = table[k].phone
             ELSE records[k].author = Person
  PROVE  IInv'
<1>1. /\ TypeOK /\ stale \in [Imports -> SUBSET Authors]
      /\ Person \in Authors /\ Person \notin Imports
  BY ImportsAssumption DEF ImportsAssumption, IInv, TypeOK, Authors
<1>2. /\ table' = records /\ Changed(Person)
      /\ UNCHANGED <<file, upload, raced, job, run, tries, index, wrote, dropped, collided, faults>>
      /\ hands' = hands + 1 /\ hands < MaxHand
  BY DEF ChangeByHand, requestVars, runVars, outcomeVars
<1>3. /\ Len(records) \in Nat /\ DOMAIN records = 1..Len(records)
      /\ Len(table) \in Nat /\ DOMAIN table = 1..Len(table)
  BY SequenceFacts, TableFacts
<1>4. \A j \in Imports : stale'[j] = IF run[j] = "indexed" THEN stale[j] \union {Person}
                                     ELSE stale[j]
  BY <1>1, <1>2 DEF Changed
<1>5. TypeOK'
  <2>1. stale' \in [Imports -> SUBSET Authors]
    BY <1>1, <1>2, <1>4 DEF Changed
  <2>2. hands' \in 0..MaxHand
    BY <1>1, <1>2, ImportsAssumption DEF ImportsAssumption, TypeOK
  <2> QED
    BY <1>1, <1>2, <2>1, <2>2 DEF TypeOK
<1>6. StageInv'
  BY <1>2 DEF IInv, StageInv
<1>7. EntriesRaced'
  BY <1>2 DEF IInv, EntriesRaced, Entered, InFlight, PastCheck
<1>8. ImportedOnce'
  <2>1. ASSUME NEW j \in Imports, job[j] # "completed", NEW k \in 1..Len(records)
        PROVE  records[k].author # j
    <3>1. k <= Len(table) => k \in DOMAIN table
      BY <1>3
    <3> QED
      BY <1>1, <2>1, <3>1 DEF IInv, ImportedOnce
  <2> QED
    BY <1>2, <1>3, <2>1 DEF IInv, ImportedOnce
<1>9. IndexInv'
  BY <1>1, <1>2, ChangedIndexes
<1>10. SettledTable'
  BY <1>2, <1>4 DEF IInv, SettledTable
<1>11. TwinsAccounted'
  <2>1. \A j \in Imports : stale[j] \subseteq stale'[j]
    BY <1>4
  <2> QED
    BY <1>2, <2>1 DEF TwinsAccounted, Twins
<1>12. CollisionsAccounted'
  <2>1. \A j \in Imports : stale[j] # {} => stale'[j] # {}
    BY <1>4
  <2> QED
    BY <1>1, <1>2, <2>1 DEF IInv, CollisionsAccounted, TypeOK
<1> QED
  BY <1>5, <1>6, <1>7, <1>8, <1>9, <1>10, <1>11, <1>12 DEF IInv

LEMMA PeopleKeep ==
  ASSUME IInv,
         \/ \E keys \in ByHand : Add(keys) \/ \E id \in DOMAIN table : Edit(id, keys)
         \/ \E id \in DOMAIN table : Trash(id)
  PROVE  IInv'
<1>1. /\ table \in Seq(Records) /\ Len(table) \in Nat /\ DOMAIN table = 1..Len(table)
      /\ \A k \in 1..Len(table) : table[k] \in Records
      /\ Twins(table) /\ Person \in Authors /\ Person \notin Imports /\ ByHand \subseteq Keys
  BY TableFacts, ImportsAssumption
     DEF ImportsAssumption, IInv, TwinsAccounted, Twins, Authors
<1>2. ASSUME NEW keys \in ByHand, Add(keys) PROVE IInv'
  <2> DEFINE r == Record(keys, Person)
             t == Append(table, r)
  <2>1. r \in Records /\ r.author = Person
    BY <1>1, RecordTyped
  <2> HIDE DEF r
  <2>2. /\ t \in Seq(Records) /\ Len(t) = Len(table) + 1 /\ DOMAIN t = 1..(Len(table) + 1)
        /\ \A k \in 1..Len(table) : t[k] = table[k]
        /\ t[Len(table) + 1] = r
    BY <1>1, <2>1, SequenceFacts
  <2>3. ChangeByHand(t)
    BY <1>2 DEF Add, r
  <2> HIDE DEF t
  <2>4. \A k \in 1..Len(t) : k \in 1..Len(table) \/ k = Len(table) + 1
    BY <1>1, <2>2
  <2>5. Twins(t)
    <3> SUFFICES ASSUME NEW old \in DOMAIN t, NEW new \in DOMAIN t, old < new,
                        t[old].live, t[new].live, t[old].phone = t[new].phone,
                        t[old].phone # None, t[new].author \in Imports
                 PROVE  \/ t[old].author \in stale[t[new].author]
                        \/ t[old].moved \/ t[new].moved
      BY DEF Twins
    <3>1. new \in 1..Len(table) /\ old \in 1..Len(table)
      BY <1>1, <2>1, <2>2, <2>4
    <3> QED
      BY <1>1, <2>2, <3>1 DEF Twins
  <2>6. \A k \in 1..Len(t) : IF k <= Len(table) THEN t[k] = table[k] ELSE t[k].author = Person
    BY <1>1, <2>1, <2>2, <2>4
  <2> QED
    BY <1>1, <2>2, <2>3, <2>5, <2>6, HandKeeps
<1>3. ASSUME NEW r \in Records, NEW id \in 1..Len(table), r.author = table[id].author,
             r.live => table[id].live,
             ~r.moved => ~table[id].moved /\ r.phone = table[id].phone,
             ChangeByHand([table EXCEPT ![id] = r])
      PROVE  IInv'
  <2> DEFINE t == [table EXCEPT ![id] = r]
  <2>1. /\ t \in Seq(Records) /\ Len(t) = Len(table)
        /\ \A k \in 1..Len(table) : t[k] = IF k = id THEN r ELSE table[k]
    BY <1>1, SequenceFacts
  <2>2. ChangeByHand(t)
    BY <1>3
  <2> HIDE DEF t
  <2>3. Touched(table, t)
    BY <1>3, <2>1 DEF Touched
  <2>4. Twins(t)
    BY <1>1, <2>1, <2>3, TouchedKeeps
  <2> QED
    BY <1>1, <2>1, <2>2, <2>3, <2>4, HandKeeps DEF Touched
<1>4. ASSUME NEW keys \in ByHand, NEW id \in DOMAIN table, Edit(id, keys) PROVE IInv'
  <2> DEFINE moved == table[id].moved \/ keys.phone # table[id].phone
             r == [table[id] EXCEPT !.email = keys.email, !.phone = keys.phone,
                                    !.moved = moved]
  <2>1. keys.email \in Emails \union {None} /\ keys.phone \in Phones \union {None}
    BY <1>1 DEF Keys
  <2>2. /\ r \in Records /\ r.author = table[id].author /\ r.live = table[id].live
        /\ r.moved = moved /\ r.phone = keys.phone
    BY <1>1, <2>1 DEF Records
  <2>3. ~r.moved => ~table[id].moved /\ r.phone = table[id].phone
    BY <2>2
  <2>4. ChangeByHand([table EXCEPT ![id] = r])
    BY <1>4 DEF Edit
  <2> HIDE DEF r
  <2> QED
    BY <1>1, <1>3, <2>2, <2>3, <2>4
<1>5. ASSUME NEW id \in DOMAIN table, Trash(id) PROVE IInv'
  <2> DEFINE r == [table[id] EXCEPT !.live = FALSE]
  <2>1. /\ r \in Records /\ r.author = table[id].author /\ ~r.live
        /\ r.moved = table[id].moved /\ r.phone = table[id].phone
    BY <1>1 DEF Records
  <2>2. ChangeByHand([table EXCEPT ![id] = r])
    BY <1>5 DEF Trash
  <2> HIDE DEF r
  <2> QED
    BY <1>1, <1>3, <2>1, <2>2
<1> QED
  BY <1>2, <1>4, <1>5

LEMMA NextIInv == IInv /\ [Next]_vars => IInv'
<1> SUFFICES ASSUME IInv, [Next]_vars PROVE IInv'
  OBVIOUS
<1>1. ASSUME NEW i \in Imports, WriteRows(i) PROVE IInv'
  <2>1. PICK work \in Outcomes(i) : IF work.clash THEN Collide(i) ELSE Write(i, work.table)
    BY <1>1 DEF WriteRows
  <2>2. run[i] = "indexed" /\ WorkInv(i, work)
    BY <1>1, <2>1, OutcomesKeep DEF WriteRows
  <2> QED
    BY <2>1, <2>2, WriteKeeps, CollideKeeps
<1>2. ASSUME NEW i \in Imports, Check(i) \/ Handle(i) \/ HandlerFails(i) PROVE IInv'
  BY <1>2, RequestKeeps DEF Handle
<1>3. ASSUME NEW i \in Imports, Process(i) \/ Raise(i) \/ Crash(i) PROVE IInv'
  BY <1>1, <1>3, RunKeeps, ReadTableKeeps DEF Process
<1>4. CASE UNCHANGED vars
  <2>1. /\ UNCHANGED <<file, upload, raced, job, run, tries, index, table, faults, hands>>
        /\ UNCHANGED <<stale, wrote, dropped, collided>>
    BY <1>4 DEF vars, requestVars, runVars, boundVars, outcomeVars
  <2>2. TypeOK' /\ StageInv' /\ EntriesRaced' /\ ImportedOnce'
    BY <2>1 DEF IInv, TypeOK, StageInv, EntriesRaced, Entered, InFlight, PastCheck, ImportedOnce
  <2> QED
    BY <2>1, <2>2, QuietKeeps
<1> QED
  BY <1>2, <1>3, <1>4, PeopleKeep DEF Next

LEMMA InitIInv == Init => IInv
<1> SUFFICES ASSUME Init PROVE IInv
  OBVIOUS
<1> USE ImportsAssumption DEF ImportsAssumption
<1>1. /\ Len(Start) \in Nat /\ DOMAIN Start = 1..Len(Start)
      /\ \A k \in 1..Len(Start) : Start[k] \in Keys
  BY SequenceFacts
<1>2. \A k \in DOMAIN Start : Record(Start[k], Person) \in Records
  BY <1>1, RecordTyped DEF Authors
<1>3. table \in Seq(Records)
  <2>1. table \in [1..Len(Start) -> Records]
    BY <1>1, <1>2 DEF Init
  <2> QED
    BY <1>1, <2>1, SeqDef
<1>4. \A k \in DOMAIN table : table[k].author = Person
  BY <1>1, RecordTyped DEF Init, Authors
<1>5. NoIndex \in [email : Index(Emails, Nat), phone : Index(Phones, Nat)]
  BY DEF NoIndex, Index
<1>6. TypeOK
  BY <1>3, <1>5 DEF Init, TypeOK
<1>7. StageInv /\ EntriesRaced /\ IndexInv
  BY DEF Init, StageInv, EntriesRaced, Entered, InFlight, PastCheck, IndexInv
<1>8. ImportedOnce /\ SettledTable /\ CollisionsAccounted
  BY <1>4 DEF Init, ImportedOnce, SettledTable, CollisionsAccounted
<1>9. TwinsAccounted
  BY <1>4 DEF TwinsAccounted
<1> QED
  BY <1>6, <1>7, <1>8, <1>9 DEF IInv

LEMMA SpecIInv == Spec => []IInv
  BY InitIInv, NextIInv, PTL DEF Spec

\* Who takes a job in flight over from whom.
LEMMA NextStranded == IInv /\ NoneStranded /\ [Next]_vars => NoneStranded'
<1> SUFFICES ASSUME IInv, NoneStranded, [Next]_vars PROVE NoneStranded'
  OBVIOUS
<1> USE DEF NoneStranded, InFlight
<1>1. /\ upload \in [Imports -> {"idle", "checked", "stored", "committed", "ended"}]
      /\ job \in [Imports -> {"none", "pending", "processing", "completed", "failed"}]
      /\ run \in [Imports -> {"none", "waiting", "started", "claimed", "indexed", "ended", "gone"}]
      /\ StageInv
  BY DEF IInv, TypeOK
<1>2. ASSUME NEW i \in Imports, Check(i) \/ Handle(i) \/ HandlerFails(i) PROVE NoneStranded'
  <2> USE <1>1 DEF runVars, outcomeVars
  <2>1. CASE Check(i)
    BY <2>1 DEF Check
  <2>2. CASE Store(i) \/ Commit(i)
    BY <2>2 DEF Store, Commit
  <2>3. CASE Push(i)
    BY <2>3 DEF Push, outcomeVars
  <2>4. CASE HandlerFails(i)
    BY <2>4 DEF HandlerFails, StageInv
  <2> QED
    BY <1>2, <2>1, <2>2, <2>3, <2>4 DEF Handle
<1>3. ASSUME NEW i \in Imports, Process(i) \/ Raise(i) \/ Crash(i) PROVE NoneStranded'
  <2> USE <1>1 DEF requestVars, outcomeVars
  <2>1. CASE PickUp(i)
    BY <2>1 DEF PickUp
  <2>2. CASE Claim(i) \/ Reject(i)
    BY <2>2 DEF Claim, Reject
  <2>3. CASE ReadTable(i)
    BY <2>3 DEF ReadTable
  <2>4. CASE WriteRows(i)
    <3>1. ASSUME NEW records, Write(i, records) PROVE NoneStranded'
      BY <3>1 DEF Write
    <3>2. CASE Collide(i)
      BY <3>2 DEF Collide
    <3> QED
      BY <2>4, <3>1, <3>2 DEF WriteRows
  <2>5. CASE Finish(i)
    BY <2>5 DEF Finish
  <2>6. CASE Raise(i) \/ Crash(i)
    BY <2>6 DEF Raise, Crash
  <2> QED
    BY <1>3, <2>1, <2>2, <2>3, <2>4, <2>5, <2>6 DEF Process
<1>4. CASE UNCHANGED <<upload, job, run, dropped, collided>>
  BY <1>4
<1>5. ASSUME NEW records, ChangeByHand(records) PROVE NoneStranded'
  BY <1>4, <1>5 DEF ChangeByHand, requestVars, runVars, outcomeVars
<1>6. CASE UNCHANGED vars
  BY <1>4, <1>6 DEF vars, requestVars, runVars, outcomeVars
<1> QED
  BY <1>2, <1>3, <1>5, <1>6 DEF Next, Add, Edit, Trash

-----------------------------------------------------------------------------
(* Theorems.                                                               *)

\* Every variable has its type; the ids an index gives stay in the table.
THEOREM TypeCorrect == Spec => []TypeOK
<1>1. IInv => TypeOK
  BY DEF IInv
<1> QED
  BY <1>1, SpecIInv, PTL

\* process_import's phases 1 and 3: whatever runs die and are started again,
\* the rows of a file are committed once, with the status.
THEOREM RowsImportedOnce == Spec => []ImportedOnce
<1>1. IInv => ImportedOnce
  BY DEF IInv
<1> QED
  BY <1>1, SpecIInv, PTL

\* The guards of create_import: two imports change the table between each
\* other's reading and commit only when they raced past the first guard.
THEOREM TableSettled == Spec => []SettledTable
<1>1. IInv => SettledTable
  BY DEF IInv
<1> QED
  BY <1>1, SpecIInv, PTL

\* The index of phase 3: a duplicate phone slips in only behind its back.
THEOREM TwinsAreAccounted == Spec => []TwinsAccounted
<1>1. IInv => TwinsAccounted
  BY DEF IInv
<1> QED
  BY <1>1, SpecIInv, PTL

\* A file imported in create mode into a table nobody else changes never meets
\* the unique index, however its rows repeat the table's emails or their own.
THEOREM CollisionsAreAccounted == Spec => []CollisionsAccounted
<1>1. IInv => CollisionsAccounted
  BY DEF IInv
<1> QED
  BY <1>1, SpecIInv, PTL

\* Commit, push, claim and arq's restarts hand a job on: one in flight that has
\* nobody left is one whose handler, run or statement raised, or was given up.
THEOREM JobsAreCarried == Spec => []NoneStranded
<1>1. Init => NoneStranded
  BY DEF Init, NoneStranded, InFlight
<1> QED
  BY <1>1, SpecIInv, NextStranded, PTL DEF Spec
=============================================================================
