---------------------------- MODULE ScreenShapes ----------------------------
(***************************************************************************)
(* The vocabulary the screens of the frontend are described in.  A screen  *)
(* is a record (what it lists, how it asks for it) with a set of           *)
(* operations, and an operation is a record (what it does at the server,   *)
(* which controls it disables, what follows its answer).  Screens gives    *)
(* them their behaviour.                                                   *)
(***************************************************************************)
EXTENDS Naturals, FiniteSets

Locks == {"saving", "creating", "deleting", "sending", "generating", "applying"}

(***************************************************************************)
(* Operations.                                                             *)
(*   kind    create, change or remove a row at the server, change all of   *)
(*           them, or ask it for something that changes no row of the list *)
(*           (of a row, or, with "order", of none)                         *)
(*   lock    the busy flag the operation sets, and needs: the flags that   *)
(*           disable its control                                           *)
(*   slot    the flag is the id of one row, and disables the control of    *)
(*           that row only: "plain" when any answer clears it, "latest"    *)
(*           when it follows the latest mutation; "no" for a plain flag;   *)
(*           "away" for one whose control can be put away while the call   *)
(*           goes on, the flag with it                                     *)
(*   frees   when the flag is cleared: on every path, on failure only      *)
(*           (success leaves the page), or unless the listing that follows *)
(*           throws                                                        *)
(*   after   on success: nothing, list again without or with the flag held *)
(*           ("reload", "await"), put the answer in the list ("splice"),   *)
(*           invalidate the query without or with the flag held            *)
(*           ("refresh", "invalidate"), or leave the page                  *)
(*   error   on failure: only say so, list again, or invalidate the query  *)
(*   early   the list shows the change before the answer                   *)
(*   secret  the answer holds what is shown once and never again           *)
(*   ends    it makes the secret of its row worthless, and one on the      *)
(*           screen stays there ("kept") or goes ("hidden")                *)
(***************************************************************************)
OpType ==
  [kind : {"list", "more", "create", "change", "all", "remove", "ask", "order"},
   lock : Locks \union {"none"}, needs : SUBSET Locks,
   slot : {"no", "plain", "latest", "away"},
   frees : {"always", "failure", "listed"},
   after : {"none", "reload", "await", "splice", "refresh", "invalidate", "leave"},
   error : {"say", "reload", "invalidate"}, early : BOOLEAN, secret : BOOLEAN,
   ends : {"no", "kept", "hidden"}]

Op(kind, after) ==
  [kind |-> kind, lock |-> "none", needs |-> {}, slot |-> "no",
   frees |-> "always", after |-> after, error |-> "say", early |-> FALSE,
   secret |-> FALSE, ends |-> "no"]

Needing(locks, op) == [op EXCEPT !.needs = @ \union locks]
Locked(lock, op) == [Needing({lock}, op) EXCEPT !.lock = lock]
PerRow(lock, op) == [Locked(lock, op) EXCEPT !.slot = "plain"]
PerLatest(lock, op) == [Locked(lock, op) EXCEPT !.slot = "latest"]
Revealing(op) == [op EXCEPT !.secret = TRUE]
Ending(op) == [op EXCEPT !.ends = "kept"]

\* A form: its flag is cleared on every path, or only when it fails (or its
\* control is gone once it succeeded).
Submit(kind) == Locked("saving", Op(kind, "leave"))
SubmitOnce(kind) == [Submit(kind) EXCEPT !.frees = "failure"]

(***************************************************************************)
(* Screens.                                                                *)
(*   lists   it has a list (or a record) that it loads                     *)
(*   fails   a failed load keeps what is shown, shows an empty list, or    *)
(*           does either, depending on the error                           *)
(*   filter  what the list depends on: nothing ("fixed"), or a filter      *)
(*           whose late answers are shown ("free"), dropped ("flag"), or   *)
(*           cached under their own key ("keyed": TanStack Query)          *)
(*   more    it has a Load more                                            *)
(*   polls   a timer lists again, or the user does until a list has come   *)
(*           ("first")                                                     *)
(***************************************************************************)
PageType ==
  [lists : BOOLEAN, fails : {"keep", "empty", "either"},
   filter : {"fixed", "free", "flag", "keyed"}, more : BOOLEAN,
   polls : {"no", "timer", "first"}, ops : SUBSET OpType]

Card(ops) ==
  [lists |-> TRUE, fails |-> "keep", filter |-> "fixed", more |-> FALSE,
   polls |-> "no", ops |-> ops]
View == Card({})
Form(ops) == [Card(ops) EXCEPT !.lists = FALSE]
Filtered(filter, page) == [page EXCEPT !.filter = filter]
Paged(page) == [page EXCEPT !.more = TRUE]
Emptied(page) == [page EXCEPT !.fails = "empty"]
Refusable(page) == [page EXCEPT !.fails = "either"]
Polling(page) == [page EXCEPT !.polls = "timer"]
Opened(page) == [page EXCEPT !.polls = "first"]
=============================================================================
