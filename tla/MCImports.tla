----------------------------- MODULE MCImports ------------------------------
(* Imports for TLC: one record with a phone, two uploads, and three files.   *)
EXTENDS Imports

CONSTANTS i1, i2, e1, e2, p1, p2

TwoUploads == {i1, i2}
TwoEmails == {e1, e2}
TwoPhones == {p1, p2}

Pair(email, phone) == [email |-> email, phone |-> phone]
OneRecord == <<Pair(None, p1)>>
HandKeys == {Pair(e2, None), Pair(None, p2)}

\* One email on two rows, the first of them with the phone of the record.
SameEmail == <<Pair(e1, p1), Pair(e1, p2)>>
\* One phone on two rows, one of them with an email that the next has alone.
SamePhone == <<Pair(None, p2), Bad, Pair(e2, p2), Pair(e2, None)>>

File(mode, rows) == [readable |-> TRUE, mode |-> mode, rows |-> rows]
ThreeFiles == {File("create", SamePhone), File("upsert", SameEmail),
               [readable |-> FALSE, mode |-> "create", rows |-> <<>>]}
=============================================================================
