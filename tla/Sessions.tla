------------------------------ MODULE Sessions ------------------------------
(***************************************************************************)
(* Sessions of one user, from the tabs to Redis.  The tabs of a browser    *)
(* share its cookies: an access token of 15 minutes, and a refresh token   *)
(* that /refresh rotates.  A request answered 401 waits for the refresh of *)
(* its tab, of which there is one at a time, and is sent once more.  The   *)
(* old refresh token is remembered for five minutes, and one that comes    *)
(* back is taken for stolen: every session of the user is revoked.         *)
(*                                                                         *)
(* Tokens are numbered in the order they are minted; an access token has   *)
(* the number of the refresh token it came with.  The csrf cookie comes    *)
(* and goes with the refresh cookie, and is not a variable.                *)
(***************************************************************************)
EXTENDS Naturals, FiniteSets

CONSTANTS
  Browsers, Tabs, BrowserOf,   \* BrowserOf[c]: the browser tab c is open in
  Gone,                        \* the sender of a call whose tab was reloaded
  MaxCalls,                    \* bound: calls the user's actions make
  MaxFaults,                   \* bound: calls or answers the network loses
  MaxTicks                     \* bound: tokens and tombstones that expire, and
                               \* accounts that are disabled

ASSUME SessionsAssumption ==
  /\ IsFiniteSet(Browsers)
  /\ BrowserOf \in [Tabs -> Browsers]
  /\ Gone \notin Tabs
  /\ MaxCalls \in Nat /\ MaxFaults \in Nat /\ MaxTicks \in Nat

VARIABLES
  active,    \* the account is not disabled
  live,      \* refresh tokens in Redis
  tomb,      \* rotated tokens Redis still remembers
  fresh,     \* access tokens that have not expired
  minted,    \* tokens minted so far
  jar,       \* jar[b]: the cookies of browser b
  tab,       \* tab[c]: its page, and its refreshInFlight
  net,       \* calls: sent, at work, answered, or waiting for a refresh
  budget,    \* user actions, faults and ticks left
  history    \* what the properties are about

vars == <<active, live, tomb, fresh, minted, jar, tab, net, budget, history>>
server == <<active, live, tomb, fresh, minted>>

NoJar == [access |-> 0, refresh |-> 0]
B(c) == BrowserOf[c]

(***************************************************************************)
(* Calls.  raced: while a logout or a revocation is under way, another     *)
(* call of its browser may give it new cookies.                            *)
(***************************************************************************)
Ops == {"data", "me", "login", "refresh", "logout", "others"}
Renewing == {"login", "refresh"}
Ending == {"logout", "others"}
Guarded == {"data", "me"} \union Ending      \* behind get_current_user

UnderWay(b, ops) ==
  {m \in net : m.op \in ops /\ m.by # Gone /\ m.st # "waiting" /\ B(m.by) = b}

\* An id that no call under way has.
FreeId == CHOOSE n \in 1..(Cardinality(net) + 1) : \A m \in net : m.id # n

Call(c, op) ==
  [id |-> FreeId, by |-> c, op |-> op, retry |-> FALSE,
   access |-> jar[B(c)].access,
   refresh |-> IF op = "data" THEN 0 ELSE jar[B(c)].refresh,   \* its path
   st |-> "sent", code |-> "none", tok |-> 0, todo |-> {},
   raced |-> op \in Ending /\ UnderWay(B(c), Renewing) # {}]

\* Calls `new` go out of tab c, and those of `old` are over.
Send(c, new, old) ==
  net' = new \union
    {IF /\ \E n \in new : n.op \in Renewing
        /\ m \in UnderWay(B(c), Ending)
       THEN [m EXCEPT !.raced = TRUE] ELSE m : m \in net \ old}

Answer(m, code, tok) ==
  [m EXCEPT !.st = "answered", !.code = code, !.tok = tok, !.access = 0]
Becomes(m, n) == net' = (net \ {m}) \union {n}

(***************************************************************************)
(* The server.                                                             *)
(***************************************************************************)
Served(m) == m.st = "sent" /\ m.op \in Guarded
Known(m) == active /\ m.access \in fresh    \* get_current_user

Serve(m) ==
  /\ Served(m) /\ m.op \in {"data", "me"}
  /\ Becomes(m, Answer(m, IF Known(m) THEN "ok" ELSE "401", 0))
  /\ UNCHANGED <<server, jar, tab, budget, history>>

Login(m) ==
  /\ m.st = "sent" /\ m.op = "login"
  /\ IF active
       THEN /\ minted' = minted + 1
            /\ live' = live \union {minted + 1}
            /\ fresh' = fresh \union {minted + 1}
            /\ Becomes(m, Answer(m, "ok", minted + 1))
       ELSE Becomes(m, Answer(m, "403", 0)) /\ UNCHANGED <<minted, live, fresh>>
  /\ UNCHANGED <<active, tomb, jar, tab, budget, history>>

\* /refresh looks the token up.  One that was rotated, and one of a disabled
\* account, start to revoke every session there is now.
ResolveRefresh(m) ==
  /\ m.st = "sent" /\ m.op = "refresh"
  /\ LET reuse == m.refresh \notin live /\ m.refresh \in tomb IN
       /\ Becomes(m,
            IF m.refresh \in live /\ active THEN [m EXCEPT !.st = "resolved"]
            ELSE IF reuse \/ m.refresh \in live
              THEN [m EXCEPT !.st = "revoking", !.todo = live]
            ELSE Answer(m, "401", 0))
       /\ history' = IF reuse
                       THEN [history EXCEPT !.reused = @ \union {m.refresh}]
                       ELSE history
  /\ UNCHANGED <<server, jar, tab, budget>>

Minted(m) == minted + 1

\* Then it rotates, whatever happened to the old token since.
Rotate(m) ==
  /\ m.st = "resolved"
  /\ minted' = Minted(m)
  /\ live' = (live \ {m.refresh}) \union {minted + 1}
  /\ tomb' = tomb \union {m.refresh}
  /\ fresh' = fresh \union {minted + 1}
  /\ Becomes(m, Answer(m, "ok", minted + 1))
  /\ UNCHANGED <<active, jar, tab, budget, history>>

\* Mutant: the cookie's path leaves its token out of the request.
NamesNone(m) == {}

\* Logout revokes the token its cookie names; "sign out the others" lists the
\* sessions there are, but the caller's.
Named(m) == {m.refresh}

Logout(m) ==
  /\ Served(m) /\ m.op = "logout"
  /\ live' = IF Known(m) THEN live \ Named(m) ELSE live
  /\ Becomes(m, Answer(m, IF Known(m) THEN "ok" ELSE "401", 0))
  /\ UNCHANGED <<active, tomb, fresh, minted, jar, tab, budget, history>>

Others(m) == live \ Named(m)

RevokeOthers(m) ==
  /\ Served(m) /\ m.op = "others"
  /\ Becomes(m, IF Known(m)
                  THEN [m EXCEPT !.st = "revoking", !.todo = Others(m)]
                  ELSE Answer(m, "401", 0))
  /\ UNCHANGED <<server, jar, tab, budget, history>>

\* A revocation takes the listed sessions one by one.
RevokeNext(m) ==
  /\ m.st = "revoking"
  /\ \/ \E t \in m.todo :
          /\ live' = live \ {t}
          /\ Becomes(m, [m EXCEPT !.todo = @ \ {t}])
          /\ history' =
               IF m.op = "others" /\ t \in live /\ m.by # Gone
                  /\ jar[B(m.by)].refresh = t
                 THEN [history EXCEPT !.cut = @ \union {m.raced}] ELSE history
     \/ /\ m.todo = {}
        /\ Becomes(m, Answer(m, IF m.op = "others" THEN "ok" ELSE "401", 0))
        /\ UNCHANGED <<live, history>>
  /\ UNCHANGED <<active, tomb, fresh, minted, jar, tab, budget>>

\* Time passes: an access token expires, a tombstone too.  An admin disables
\* the account.
Expire ==
  /\ \/ \E t \in fresh : fresh' = fresh \ {t} /\ UNCHANGED <<active, tomb>>
     \/ \E t \in tomb : tomb' = tomb \ {t} /\ UNCHANGED <<active, fresh>>
     \/ active /\ active' = FALSE /\ UNCHANGED <<tomb, fresh>>
  /\ budget.ticks > 0 /\ budget' = [budget EXCEPT !.ticks = @ - 1]
  /\ UNCHANGED <<live, minted, jar, tab, net, history>>

\* The network loses a call, or its answer; what the answer had is orphaned.
Lose(m) ==
  /\ budget.faults > 0 /\ m.by # Gone
  /\ m.st = "sent" \/ (m.st = "answered" /\ m.code # "lost")
  /\ Becomes(m, Answer(m, "lost", 0))
  /\ budget' = [budget EXCEPT !.faults = @ - 1]
  /\ history' = IF m.op = "refresh" /\ m.code = "ok"
                  THEN [history EXCEPT !.unheard = @ \union {m.refresh}]
                  ELSE history
  /\ UNCHANGED <<server, jar, tab>>

(***************************************************************************)
(* The tabs.                                                               *)
(***************************************************************************)
\* The user acts: a page fetches, signs out, signs out the others, or logs in.
Act(c, op) ==
  /\ op \in {"data", "login"} \union Ending
  /\ budget.acts > 0 /\ budget' = [budget EXCEPT !.acts = @ - 1]
  /\ tab[c].page = IF op = "login" THEN "login" ELSE "app"
  /\ op = "login" => ~\E m \in net : m.by = c /\ m.op = "login"   \* busy
  /\ IF op = "logout" /\ jar[B(c)] = NoJar
       THEN /\ tab' = [tab EXCEPT ![c].page = "login"]
            /\ UNCHANGED <<net, history>>
       ELSE /\ Send(c, {Call(c, op)}, {})
            /\ history' = IF op = "login"
                            THEN [history EXCEPT !.out = @ \ {B(c)}] ELSE history
            /\ UNCHANGED tab
  /\ UNCHANGED <<server, jar>>

\* A reload forgets what the tab waited for, and its refresh with it; the
\* shell asks for /me first, if it sees the csrf cookie.
Reload(c) ==
  /\ budget.acts > 0 /\ budget' = [budget EXCEPT !.acts = @ - 1]
  /\ LET mine == {m \in net : m.by = c}
         sent == {[m EXCEPT !.by = Gone] : m \in {n \in mine : n.st # "waiting"}}
         signed == jar[B(c)] # NoJar
     IN  /\ net' = (net \ mine) \union sent \union
                   (IF signed THEN {Call(c, "me")} ELSE {})
         /\ tab' = [tab EXCEPT ![c] =
                      [page |-> IF signed THEN "loading" ELSE "login",
                       refreshing |-> "no"]]
         /\ history' = [history EXCEPT !.unheard = @ \union
                          {m.refresh : m \in {n \in mine : n.op = "refresh"}}]
  /\ UNCHANGED <<server, jar>>

\* clearToken and the 401 handler: every caller of a failed refresh, and one
\* answered 401 again, ends on the login page.
Fail(c) == tab' = [tab EXCEPT ![c].page = "login"]

Retried(m) ==
  [Call(m.by, m.op) EXCEPT !.id = m.id, !.retry = TRUE]

\* Mutant: every 401 starts its own.
NoneInFlight(c) == "no"

InFlight(c) == tab[c].refreshing

SharedWith(c) ==
  {jar[B(c)].refresh} \intersect
    {n.refresh : n \in {m \in net : m.op = "refresh" /\ m.by # c}}

\* A 401: wait for the tab's refresh, starting it if there is none; one that
\* has just settled still answers.
Unauthorized(c, m) ==
  /\ m.by = c /\ m.st = "answered" /\ m.code = "401" /\ m.op \in Guarded
  /\ ~m.retry
  /\ \/ /\ InFlight(c) = "no"
        /\ tab' = [tab EXCEPT ![c].refreshing = "yes"]
        /\ Send(c, {[m EXCEPT !.st = "waiting"], Call(c, "refresh")}, {m})
        /\ history' = [history EXCEPT !.shared = @ \union SharedWith(c)]
     \/ /\ InFlight(c) = "yes"
        /\ Becomes(m, [m EXCEPT !.st = "waiting"])
        /\ UNCHANGED <<tab, history>>
     \/ /\ InFlight(c) = "ok"
        /\ Send(c, {Retried(m)}, {m})
        /\ UNCHANGED <<tab, history>>
     \/ /\ InFlight(c) = "failed"
        /\ net' = net \ {m} /\ Fail(c)
        /\ UNCHANGED history
  /\ UNCHANGED <<server, jar, budget>>

\* Mutant: the error of a lost call is not caught.
SettlesUnlessLost(c, m) ==
  m.by = c /\ m.st = "answered" /\ m.op = "refresh" /\ m.code # "lost"

Settles(c, m) == m.by = c /\ m.st = "answered" /\ m.op = "refresh"

\* The refresh settles: its cookies are in the jar, and those who waited go
\* again, or fail.
Settled(c, m) ==
  /\ Settles(c, m)
  /\ LET waiting == {n \in net : n.by = c /\ n.st = "waiting"}
         ok == m.code = "ok"
         pair == [access |-> m.tok, refresh |-> m.tok]
     IN  /\ jar' = IF ok THEN [jar EXCEPT ![B(c)] = pair] ELSE jar
         /\ net' = (net \ (waiting \union {m})) \union
              (IF ok
                 THEN {[n EXCEPT !.st = "sent", !.retry = TRUE, !.access = m.tok,
                          !.refresh = IF n.op = "data" THEN 0 ELSE m.tok,
                          !.raced = /\ n.op \in Ending
                                    /\ UnderWay(B(c), Renewing) # {m}]
                       : n \in waiting}
                 ELSE {})
         /\ tab' = [tab EXCEPT ![c].refreshing = IF ok THEN "ok" ELSE "failed",
                      ![c].page = IF ok \/ waiting = {} THEN @ ELSE "login"]
  /\ UNCHANGED <<server, budget, history>>

\* The timer that clears refreshInFlight.
Forget(c) ==
  /\ tab[c].refreshing \in {"ok", "failed"}
  /\ tab' = [tab EXCEPT ![c].refreshing = "no"]
  /\ UNCHANGED <<server, jar, net, budget, history>>

\* Every other answer.  The shell shows itself when /me is back, and leaves
\* for the login page if it fails; logout leaves whatever it hears, and only a
\* success clears the cookies; a login puts its own into the jar.
Heard(c, m) ==
  /\ m.by = c /\ m.st = "answered" /\ m.op # "refresh"
  /\ m.code = "401" => m.retry
  /\ net' = net \ {m}
  /\ LET b == B(c)
         ok == m.code = "ok"
     IN  /\ jar' = CASE ok /\ m.op = "login" ->
                          [jar EXCEPT ![b] = [access |-> m.tok, refresh |-> m.tok]]
                     [] ok /\ m.op = "logout" -> [jar EXCEPT ![b] = NoJar]
                     [] OTHER -> jar
         /\ tab' = [tab EXCEPT ![c].page =
              IF m.op = "login" THEN (IF ok THEN "loading" ELSE @)
              ELSE IF m.op = "logout" \/ m.code = "401" THEN "login"
              ELSE IF m.op = "me" /\ ~ok THEN "login"
              ELSE IF m.op = "me" /\ @ = "loading" THEN "app"
              ELSE @]
         /\ history' =
              IF ok /\ m.op = "logout"
                THEN [history EXCEPT
                        !.out = IF m.raced \/ UnderWay(b, Renewing) # {}
                                  THEN @ \ {b} ELSE @ \union {b},
                        !.kept = [@ EXCEPT ![b] = jar[b].refresh]]
                ELSE history
  /\ UNCHANGED <<server, budget>>

\* The dashboard a login leads to is another shell, which asks for /me.
Shell(c) ==
  /\ tab[c].page = "loading"
  /\ ~\E m \in net : m.by = c /\ m.op = "me"
  /\ IF jar[B(c)] = NoJar
       THEN Fail(c) /\ UNCHANGED <<net>>
       ELSE /\ Send(c, {Call(c, "me")}, {})
            /\ UNCHANGED tab
  /\ UNCHANGED <<server, jar, budget, history>>

\* The answer of a call whose tab was reloaded is thrown away.
Discarded(m) ==
  /\ m.by = Gone /\ m.st = "answered"
  /\ net' = net \ {m}
  /\ UNCHANGED <<server, jar, tab, budget, history>>

\* Every browser is signed in, in a session of its own, and all access tokens
\* are still good or have expired.
Init ==
  /\ active = TRUE
  /\ minted = Cardinality(Browsers)
  /\ live = 1..minted /\ fresh \in {live, {}} /\ tomb = {}
  /\ \E first \in [Browsers -> live] :
       /\ \A a, b \in Browsers : first[a] = first[b] => a = b
       /\ jar = [b \in Browsers |-> [access |-> first[b], refresh |-> first[b]]]
  /\ tab = [c \in Tabs |-> [page |-> "app", refreshing |-> "no"]]
  /\ net = {}
  /\ budget = [acts |-> MaxCalls, faults |-> MaxFaults, ticks |-> MaxTicks]
  /\ history = [reused |-> {}, shared |-> {}, unheard |-> {}, cut |-> {},
                out |-> {}, kept |-> [b \in Browsers |-> 0]]

Work(m) ==
  \/ Serve(m) \/ Login(m) \/ ResolveRefresh(m) \/ Rotate(m)
  \/ Logout(m) \/ RevokeOthers(m) \/ RevokeNext(m)
Hear(c, m) == Unauthorized(c, m) \/ Settled(c, m) \/ Heard(c, m)

Next ==
  \/ \E m \in net : Work(m) \/ Lose(m) \/ Discarded(m)
  \/ \E c \in Tabs :
       \/ Reload(c) \/ Forget(c) \/ Shell(c)
       \/ \E op \in Ops : Act(c, op)
       \/ \E m \in net : Hear(c, m)
  \/ Expire

Spec == Init /\ [][Next]_vars

\* The server works off its calls, an answer (or the error of a lost one) is
\* handled, a timer fires.
FairSpec ==
  /\ Spec
  /\ WF_vars(\E m \in net : Work(m))
  /\ \A c \in Tabs : WF_vars(\E m \in net : Hear(c, m)) /\ WF_vars(Forget(c))

(***************************************************************************)
(* Properties.                                                             *)
(***************************************************************************)
Tokens == 1..minted
CallType ==
  [id : Nat, by : Tabs \union {Gone}, op : Ops, retry : BOOLEAN,
   access : Nat, refresh : Nat,
   st : {"sent", "resolved", "revoking", "answered", "waiting"},
   code : {"none", "ok", "401", "403", "lost"}, tok : Nat,
   todo : SUBSET Nat, raced : BOOLEAN]

\* Every variable has its type, and no token exists that was not minted.
TypeOK ==
  /\ active \in BOOLEAN /\ minted \in Nat
  /\ live \subseteq Tokens /\ fresh \subseteq Tokens /\ tomb \subseteq Tokens
  /\ jar \in [Browsers -> [access : Tokens \union {0}, refresh : Tokens \union {0}]]
  /\ tab \in [Tabs -> [page : {"app", "loading", "login"},
                       refreshing : {"no", "yes", "ok", "failed"}]]
  /\ net \subseteq CallType
  /\ budget \in [acts : Nat, faults : Nat, ticks : Nat]
  /\ history \in [reused : SUBSET Nat, shared : SUBSET Nat, unheard : SUBSET Nat,
                  cut : SUBSET BOOLEAN, out : SUBSET Browsers,
                  kept : [Browsers -> Nat]]

\* The browser's own tabs set off the theft alarm of /refresh in two ways
\* only: two tabs were refreshing with one token, or the answer that carried
\* its successor never reached the tab.  One tab alone never does, because
\* attemptRefresh has one refresh in flight.
ReuseAccounted == history.reused \subseteq history.shared \union history.unheard

\* After a logout that succeeded, and that no refresh and no login of its
\* browser overlapped, the browser holds no cookie until the next login, and
\* the token it held is no session any more.
LogoutEnds ==
  \A b \in history.out : jar[b] = NoJar /\ history.kept[b] \notin live

\* "Sign out the others" ends the session of the browser that asks only if a
\* refresh or a login of that browser overlapped it.
OwnSessionKept == FALSE \notin history.cut

\* Once the users stop, every call is answered or fails, no caller waits for
\* a refresh for ever, and no tab holds on to a refresh that is over.
CallsSettle ==
  <>[](/\ \A m \in net : m.by = Gone
       /\ \A c \in Tabs : tab[c].refreshing = "no")
=============================================================================
