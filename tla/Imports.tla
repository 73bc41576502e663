------------------------------- MODULE Imports -------------------------------
(***************************************************************************)
(* Bulk imports of one table of one organization: `create_import`          *)
(* (app/api/imports.py) checks that no import is in flight, stores the     *)
(* file, commits an ImportJob and only then pushes a job; the worker's     *)
(* `process_import` (app/worker/jobs.py) claims the row, parses the file,  *)
(* reads an index of the emails and phones the table has, and in the same  *)
(* transaction writes every row and stamps the job `completed`.            *)
(*                                                                         *)
(* The records are a sequence, a record's id its place in it.  People add, *)
(* edit and trash records meanwhile (app/api/leads.py).  A row or a record *)
(* is the two keys it is matched by, None where a column is blank; names   *)
(* and other columns decide nothing.  The unique index on the live emails  *)
(* is the database's: a statement that breaks it raises.                   *)
(*                                                                         *)
(* arq gives a job to one worker at a time, starts it again when its       *)
(* worker dies or is stopped, gives it up when it was started max_tries    *)
(* times, and takes any other exception, the job's timeout included, for   *)
(* its end.                                                                *)
(***************************************************************************)
EXTENDS Integers, Sequences, FiniteSets

CONSTANTS Imports,   \* uploads that may be made
          Files,     \* what is uploaded: [readable, mode, rows]
          Emails, Phones,
          None,      \* a blank column
          Bad,       \* a row that validate_row refuses
          Start,     \* keys of the records there are already
          ByHand,    \* keys that people give to records
          DailyCap,  \* settings.import_daily_cap
          MaxTries,  \* WorkerSettings.max_tries
          MaxFaults, \* bound: errors and crashes of handlers and workers
          MaxHand    \* bound: changes made by people

\* Who is behind a record or a change that no import made.
Person == "person"
Authors == Imports \union {Person}

Keys == [email : Emails \union {None}, phone : Phones \union {None}]

ASSUME ImportsAssumption ==
  /\ None \notin Emails \union Phones /\ Bad \notin Keys
  /\ \A f \in Files : /\ f.readable \in BOOLEAN /\ f.mode \in {"create", "upsert"}
                      /\ f.rows \in Seq(Keys \union {Bad})
  /\ Start \in Seq(Keys) /\ ByHand \subseteq Keys
  /\ Person \notin Imports
  /\ DailyCap \in Nat /\ MaxTries \in Nat \ {0} /\ MaxFaults \in Nat /\ MaxHand \in Nat

VARIABLES
  file,     \* the file of each upload
  upload,   \* the request: idle, checked, stored, committed, ended
  job,      \* ImportJob.status, "none" before the row exists
  run,      \* the queued job: none, waiting, started, claimed, indexed, ended, gone
  tries,    \* how often arq has started it
  index,    \* what the latest run read: email -> id and phone -> id, 0 for no id
  table,    \* the records: keys, author, live, and whether a phone was overwritten
  faults, hands, \* how much of the bounds is spent
  raced,    \* pairs of uploads that were both past the check before either committed
  stale,    \* who changed the table between the latest run's reading and its end
  wrote,    \* how often an import's rows were committed
  dropped,  \* imports whose handler failed after its commit, or whose run raised or was given up
  collided  \* imports whose run raised on the unique index

requestVars == <<upload, raced>>
runVars == <<run, tries, index>>
boundVars == <<faults, hands>>
outcomeVars == <<wrote, dropped, collided>>
vars == <<file, requestVars, job, runVars, table, boundVars, stale, outcomeVars>>

Records == [email : Emails \union {None}, phone : Phones \union {None},
            author : Authors, live : BOOLEAN, moved : BOOLEAN]

Index(keys, ids) == [keys \union {None} -> ids]

TypeOK ==
  /\ file \in [Imports -> Files]
  /\ upload \in [Imports -> {"idle", "checked", "stored", "committed", "ended"}]
  /\ job \in [Imports -> {"none", "pending", "processing", "completed", "failed"}]
  /\ run \in [Imports -> {"none", "waiting", "started", "claimed", "indexed", "ended", "gone"}]
  /\ tries \in [Imports -> 0..MaxTries]
  /\ index \in [Imports -> [email : Index(Emails, Nat), phone : Index(Phones, Nat)]]
  /\ table \in Seq(Records)
  /\ faults \in 0..MaxFaults /\ hands \in 0..MaxHand
  /\ raced \subseteq SUBSET Imports
  /\ stale \in [Imports -> SUBSET Authors]
  /\ wrote \in [Imports -> Nat]
  /\ dropped \subseteq Imports /\ collided \subseteq Imports

Record(keys, author) ==
  [email |-> keys.email, phone |-> keys.phone, author |-> author, live |-> TRUE, moved |-> FALSE]

NoIndex == [email |-> [e \in Emails \union {None} |-> 0],
            phone |-> [p \in Phones \union {None} |-> 0]]

Init ==
  /\ file \in [Imports -> Files]
  /\ upload = [i \in Imports |-> "idle"]
  /\ job = [i \in Imports |-> "none"]
  /\ run = [i \in Imports |-> "none"]
  /\ tries = [i \in Imports |-> 0]
  /\ index = [i \in Imports |-> NoIndex]
  /\ table = [k \in DOMAIN Start |-> Record(Start[k], Person)]
  /\ faults = 0 /\ hands = 0
  /\ raced = {}
  /\ stale = [i \in Imports |-> {}]
  /\ wrote = [i \in Imports |-> 0]
  /\ dropped = {} /\ collided = {}

\* Who has read the table and not ended hears of a change only when it writes.
Changed(author) ==
  stale' = [i \in Imports |-> IF run[i] = "indexed" /\ i # author
                              THEN stale[i] \union {author} ELSE stale[i]]

\* uq_leads_org_email_live, uq_customers_org_email_live.
Taken(records, email, id) ==
  email # None /\ \E k \in DOMAIN records \ {id} : records[k].live /\ records[k].email = email

-----------------------------------------------------------------------------
(* The request.                                                            *)

InFlight(i) == job[i] \in {"pending", "processing"}
PastCheck(i) == upload[i] \in {"checked", "stored"}

\* Mutant: without the first guard.
CheckCapOnly(i) ==
  /\ upload[i] = "idle"
  /\ Cardinality({j \in Imports : job[j] # "none"}) < DailyCap
  /\ upload' = [upload EXCEPT ![i] = "checked"]
  /\ raced' = raced \union {{i, j} : j \in {k \in Imports : PastCheck(k)}}
  /\ UNCHANGED <<file, job, runVars, table, boundVars, stale, outcomeVars>>

\* Both guards, read before the file is stored; a refusal (409, 429) changes nothing.
Check(i) ==
  /\ upload[i] = "idle"
  /\ \A j \in Imports : ~InFlight(j)
  /\ Cardinality({j \in Imports : job[j] # "none"}) < DailyCap
  /\ upload' = [upload EXCEPT ![i] = "checked"]
  /\ raced' = raced \union {{i, j} : j \in {k \in Imports : PastCheck(k)}}
  /\ UNCHANGED <<file, job, runVars, table, boundVars, stale, outcomeVars>>

Store(i) ==
  /\ upload[i] = "checked"
  /\ upload' = [upload EXCEPT ![i] = "stored"]
  /\ UNCHANGED <<file, raced, job, runVars, table, boundVars, stale, outcomeVars>>

Commit(i) ==
  /\ upload[i] = "stored"
  /\ upload' = [upload EXCEPT ![i] = "committed"]
  /\ job' = [job EXCEPT ![i] = "pending"]
  /\ UNCHANGED <<file, raced, runVars, table, boundVars, stale, outcomeVars>>

Push(i) ==
  /\ upload[i] = "committed"
  /\ upload' = [upload EXCEPT ![i] = "ended"]
  /\ run' = [run EXCEPT ![i] = "waiting"]
  /\ UNCHANGED <<file, raced, job, tries, index, table, boundVars, stale, outcomeVars>>

\* S3, the database or Redis raises, or the server dies.  After the commit
\* the job row stays, and nothing else ever pushes its job.
HandlerFails(i) ==
  /\ upload[i] \in {"checked", "stored", "committed"}
  /\ faults < MaxFaults
  /\ faults' = faults + 1
  /\ upload' = [upload EXCEPT ![i] = "ended"]
  /\ dropped' = IF upload[i] = "committed" THEN dropped \union {i} ELSE dropped
  /\ UNCHANGED <<file, raced, job, runVars, table, hands, stale, wrote, collided>>

-----------------------------------------------------------------------------
(* The run.                                                                *)

\* arq starts the job, or gives it up.
PickUp(i) ==
  /\ run[i] = "waiting"
  /\ IF tries[i] < MaxTries
     THEN /\ run' = [run EXCEPT ![i] = "started"]
          /\ tries' = [tries EXCEPT ![i] = @ + 1]
          /\ UNCHANGED dropped
     ELSE /\ run' = [run EXCEPT ![i] = "gone"]
          /\ dropped' = dropped \union {i}
          /\ UNCHANGED tries
  /\ UNCHANGED <<file, requestVars, job, index, table, boundVars, stale, wrote, collided>>

\* Mutant: a completed job is processed again.
ClaimAny(i) ==
  /\ run[i] = "started"
  /\ job' = [job EXCEPT ![i] = "processing"]
  /\ run' = [run EXCEPT ![i] = "claimed"]
  /\ UNCHANGED <<file, requestVars, tries, index, table, boundVars, stale, outcomeVars>>

\* Mutant: a job that a dead run left processing is not taken up again.
ClaimPendingOnly(i) ==
  /\ run[i] = "started"
  /\ IF job[i] # "pending"
     THEN run' = [run EXCEPT ![i] = "ended"] /\ UNCHANGED job
     ELSE /\ run' = [run EXCEPT ![i] = "claimed"]
          /\ job' = [job EXCEPT ![i] = "processing"]
  /\ UNCHANGED <<file, requestVars, tries, index, table, boundVars, stale, outcomeVars>>

\* Phase 1.  A failed job is claimed again like a pending one.
Claim(i) ==
  /\ run[i] = "started"
  /\ IF job[i] = "completed"
     THEN run' = [run EXCEPT ![i] = "ended"] /\ UNCHANGED job
     ELSE /\ run' = [run EXCEPT ![i] = "claimed"]
          /\ job' = [job EXCEPT ![i] = "processing"]
  /\ UNCHANGED <<file, requestVars, tries, index, table, boundVars, stale, outcomeVars>>

\* Mutant: the reason is kept and the status is not.
RejectSilently(i) ==
  /\ run[i] = "claimed"
  /\ ~file[i].readable
  /\ run' = [run EXCEPT ![i] = "ended"]
  /\ UNCHANGED <<file, requestVars, job, tries, index, table, boundVars, stale, outcomeVars>>

\* Phase 2 on a file that is unreadable, empty, too long or lacks a column.
Reject(i) ==
  /\ run[i] = "claimed"
  /\ ~file[i].readable
  /\ job' = [job EXCEPT ![i] = "failed"]
  /\ run' = [run EXCEPT ![i] = "ended"]
  /\ UNCHANGED <<file, requestVars, tries, index, table, boundVars, stale, outcomeVars>>

\* The index of a key: a live record that has it, the first one the database
\* returned (the query has no ORDER BY), or none.
KeyIndexes(keys, column) ==
  LET holders == [key \in keys |-> {k \in DOMAIN table : table[k].live /\ column[k] = key}]
  IN  {f \in Index(keys, 0..Len(table)) :
         /\ f[None] = 0
         /\ \A key \in keys : IF holders[key] = {} THEN f[key] = 0 ELSE f[key] \in holders[key]}

EmailColumn == [k \in DOMAIN table |-> table[k].email]
PhoneColumn == [k \in DOMAIN table |-> table[k].phone]

\* The rest of phase 2, which touches nothing shared, and the index of phase 3.
ReadTable(i) ==
  /\ run[i] = "claimed"
  /\ file[i].readable
  /\ \E emails \in KeyIndexes(Emails, EmailColumn), phones \in KeyIndexes(Phones, PhoneColumn) :
       index' = [index EXCEPT ![i] = [email |-> emails, phone |-> phones]]
  /\ run' = [run EXCEPT ![i] = "indexed"]
  /\ stale' = [stale EXCEPT ![i] = {}]
  /\ UNCHANGED <<file, requestVars, job, tries, table, boundVars, outcomeVars>>

\* Mutant: only the email is matched.
MatchEmail(work, row) == work.email[row.email]

\* The record a row is taken for: by email, else by phone, else none.
Match(work, row) ==
  IF work.email[row.email] # 0 THEN work.email[row.email] ELSE work.phone[row.phone]

\* Mutant: a created row is not entered in the index.
LearnNothing(ids, key, id) == ids

\* dict.setdefault, for a key that is not blank.
Learn(ids, key, id) ==
  IF key = None \/ ids[key] # 0 THEN ids ELSE [ids EXCEPT ![key] = id]

Created(work, row, author) ==
  LET id == Len(work.table) + 1
  IN  [table |-> Append(work.table, Record(row, author)),
       email |-> Learn(work.email, row.email, id),
       phone |-> Learn(work.phone, row.phone, id),
       clash |-> Taken(work.table, row.email, id)]

\* A blank cell overwrites nothing; the index keeps the keys it was built from.
Overwritten(work, row, id) ==
  LET old == work.table[id]
      new == [old EXCEPT !.email = IF row.email = None THEN @ ELSE row.email,
                         !.phone = IF row.phone = None THEN @ ELSE row.phone,
                         !.moved = @ \/ row.phone \notin {None, old.phone}]
  IN  [work EXCEPT !.table[id] = new, !.clash = Taken(work.table, new.email, id)]

\* One row of the loop.  Nothing follows the statement that raises.
Row(work, row, i) ==
  LET id == IF row = Bad THEN 0 ELSE Match(work, row)
  IN  CASE work.clash \/ row = Bad -> work
        [] id = 0 /\ ~work.clash /\ row # Bad -> Created(work, row, i)
        [] OTHER -> IF file[i].mode = "upsert" /\ work.table[id].live
                    THEN Overwritten(work, row, id) ELSE work

\* What the loop makes of the table as it is now, with the index as it was
\* read: a set, with one member.
Outcomes(i) ==
  LET rows == file[i].rows
      after[n \in 0..Len(rows)] ==
        IF n = 0 THEN {[table |-> table, email |-> index[i].email, phone |-> index[i].phone,
                        clash |-> FALSE]}
                 ELSE {Row(work, rows[n], i) : work \in after[n - 1]}
  IN  after[Len(rows)]

\* Phase 3 ends well: the rows and the stamp in one commit.
Write(i, records) ==
  /\ table' = records
  /\ job' = [job EXCEPT ![i] = "completed"]
  /\ run' = [run EXCEPT ![i] = "ended"]
  /\ wrote' = [wrote EXCEPT ![i] = @ + 1]
  /\ Changed(i)
  /\ UNCHANGED <<file, requestVars, tries, index, boundVars, dropped, collided>>

\* An IntegrityError rolls phase 3 back, leaves process_import, and ends the job.
Collide(i) ==
  /\ run' = [run EXCEPT ![i] = "gone"]
  /\ collided' = collided \union {i}
  /\ UNCHANGED <<file, requestVars, job, tries, index, table, boundVars, stale, wrote, dropped>>

WriteRows(i) ==
  /\ run[i] = "indexed"
  /\ \E work \in Outcomes(i) : IF work.clash THEN Collide(i) ELSE Write(i, work.table)

Finish(i) ==
  /\ run[i] = "ended"
  /\ run' = [run EXCEPT ![i] = "gone"]
  /\ UNCHANGED <<file, requestVars, job, tries, index, table, boundVars, stale, outcomeVars>>

Running(i) == run[i] \in {"started", "claimed", "indexed", "ended"}

\* The database, S3 or the job's timeout raises: arq does not start it again.
Raise(i) ==
  /\ run[i] \in {"started", "claimed", "indexed"}
  /\ faults < MaxFaults
  /\ faults' = faults + 1
  /\ run' = [run EXCEPT ![i] = "gone"]
  /\ dropped' = dropped \union {i}
  /\ UNCHANGED <<file, requestVars, job, tries, index, table, hands, stale, wrote, collided>>

\* The worker dies or is stopped, also between the last commit and arq's record of the end.
Crash(i) ==
  /\ Running(i)
  /\ faults < MaxFaults
  /\ faults' = faults + 1
  /\ run' = [run EXCEPT ![i] = "waiting"]
  /\ UNCHANGED <<file, requestVars, job, tries, index, table, hands, stale, outcomeVars>>

-----------------------------------------------------------------------------
(* People.                                                                 *)

ChangeByHand(records) ==
  /\ hands < MaxHand
  /\ hands' = hands + 1
  /\ table' = records
  /\ Changed(Person)
  /\ UNCHANGED <<file, requestVars, job, runVars, faults, outcomeVars>>

\* create_lead: 409 when the email is taken; a phone is not looked up.
Add(keys) ==
  /\ ~Taken(table, keys.email, Len(table) + 1)
  /\ ChangeByHand(Append(table, Record(keys, Person)))

\* update_lead; a blank value clears the column.
Edit(id, keys) ==
  /\ table[id].live
  /\ ~Taken(table, keys.email, id)
  /\ LET moved == table[id].moved \/ keys.phone # table[id].phone
     IN  ChangeByHand([table EXCEPT ![id] =
           [@ EXCEPT !.email = keys.email, !.phone = keys.phone, !.moved = moved]])

Trash(id) ==
  /\ table[id].live
  /\ ChangeByHand([table EXCEPT ![id].live = FALSE])

-----------------------------------------------------------------------------
Handle(i) == Store(i) \/ Commit(i) \/ Push(i)

Process(i) ==
  \/ PickUp(i) \/ Claim(i) \/ Reject(i)
  \/ ReadTable(i) \/ WriteRows(i) \/ Finish(i)

Next ==
  \/ \E i \in Imports : \/ Check(i) \/ Handle(i) \/ HandlerFails(i)
                        \/ Process(i) \/ Raise(i) \/ Crash(i)
  \/ \E keys \in ByHand : Add(keys) \/ \E id \in DOMAIN table : Edit(id, keys)
  \/ \E id \in DOMAIN table : Trash(id)

\* While a request or a job is under way, one of them goes on.
Fairness == WF_vars(\E i \in Imports : Handle(i) \/ Process(i))

Spec == Init /\ [][Next]_vars /\ Fairness

-----------------------------------------------------------------------------
(* Properties.                                                             *)

\* "a crash mid-write rolls back cleanly and arq's retry redoes the whole file
\* from scratch ... A job already `completed` is never reprocessed"
\* (process_import): whatever runs die, the rows are committed once, with the
\* status, and no record of an import is there before its job reads completed.
ImportedOnce ==
  \A i \in Imports :
    /\ wrote[i] = IF job[i] = "completed" THEN 1 ELSE 0
    /\ job[i] # "completed" => \A k \in DOMAIN table : table[k].author # i

\* "Keeps imports serial so the worker's dedupe pass sees a settled table"
\* (create_import): another import changes the table between a run's index and
\* its commit only when the two uploads were both past the guard before either
\* had committed its job, which the guard does not prevent.
SettledTable ==
  \A i \in Imports : \A j \in stale[i] \ {Person} : {i, j} \in raced

\* Matching by phone has no index of the database behind it: an import leaves
\* two live records with one phone only when the older one was made since the
\* index was read, or when a phone was overwritten, by hand or by an upsert
\* whose row was matched by another key.
TwinsAccounted ==
  \A old, new \in DOMAIN table :
    /\ old < new /\ table[old].live /\ table[new].live
    /\ table[old].phone = table[new].phone /\ table[old].phone # None
    /\ table[new].author \in Imports
    => \/ table[old].author \in stale[table[new].author]
       \/ table[old].moved \/ table[new].moved

\* A run that raises on the unique index, and leaves its job processing for
\* good, worked on a table that had changed since it read it, or was an upsert:
\* the index then keeps keys a record no longer has and lacks those it was given.
CollisionsAccounted ==
  \A i \in collided : stale[i] # {} \/ file[i].mode = "upsert"

\* A job that is in flight, and so keeps the first guard closed, has a request
\* or a run that is still to bring it to its end, unless its push was lost, or
\* its run raised or was started too often: no crash and no refusal strands it.
NoneStranded ==
  \A i \in Imports :
    InFlight(i) => \/ upload[i] = "committed"
                   \/ run[i] \in {"waiting", "started", "claimed", "indexed"}
                   \/ i \in dropped \union collided

\* "The SPA polls GET /{id} until status is completed / failed" (imports.py):
\* every job gets there, whatever crashes it meets, unless its push was lost,
\* its run raised or was started too often, or its rows broke the unique index.
ImportsEnd ==
  \A i \in Imports :
    job[i] = "pending" ~>
      job[i] \in {"completed", "failed"} \/ i \in dropped \union collided
=============================================================================
