--------------------------- MODULE Sessions_proofs ---------------------------
(***************************************************************************)
(* Theorems about Sessions, for any browsers, tabs and bounds.             *)
(***************************************************************************)
EXTENDS Sessions, FiniteSetTheorems, TLAPS

-----------------------------------------------------------------------------
(* Calls.                                                                  *)

Some == Tokens \union {0}

\* Tokens were minted, and states and codes go with their operations.
Fits(m) ==
  /\ m.tok \in Some /\ m.refresh \in Some
  /\ m.st = "resolved" => m.op = "refresh" /\ m.refresh # 0
  /\ m.st = "waiting" => m.op # "refresh" /\ m.by \in Tabs
  /\ m.tok # 0 => m.st = "answered" /\ m.code = "ok" /\ m.op \in Renewing
  /\ m.st = "answered" /\ m.code = "ok" /\ m.op = "refresh" => m.refresh # 0

HistoryType ==
  [reused : SUBSET Nat, shared : SUBSET Nat, unheard : SUBSET Nat,
   cut : SUBSET BOOLEAN, out : SUBSET Browsers, kept : [Browsers -> Nat]]

TypeInv == TypeOK /\ IsFiniteSet(net) /\ \A m \in net : Fits(m)

\* Some id is free: there are fewer calls under way than ids to choose from.
LEMMA IdsLeft ==
  ASSUME IsFiniteSet(net)
  PROVE  FreeId \in Nat
<1> DEFINE k == Cardinality(net)
<1>1. k \in Nat
  BY FS_CardinalityType
<1>2. \E n \in 1..(k + 1) : \A m \in net : m.id # n
  <2> SUFFICES ASSUME \A n \in 1..(k + 1) : \E m \in net : m.id = n PROVE FALSE
    OBVIOUS
  <2> DEFINE f == [n \in 1..(k + 1) |-> CHOOSE m \in net : m.id = n]
  <2>1. \A n \in 1..(k + 1) : f[n] \in net /\ f[n].id = n
    OBVIOUS
  <2>2. f \in [1..(k + 1) -> net]
    BY <2>1
  <2>3. IsFiniteSet(1..(k + 1)) /\ Cardinality(1..(k + 1)) = k + 1
    BY <1>1, FS_Interval
  <2>4. \E x, y \in 1..(k + 1) : x # y /\ f[x] = f[y]
    <3> HIDE DEF f
    <3> QED
      BY <1>1, <2>2, <2>3, FS_PigeonHole
  <2> QED
    BY <2>1, <2>4
<1>3. FreeId \in 1..(k + 1)
  BY <1>2 DEF FreeId
<1> QED
  BY <1>1, <1>3

\* The image of a finite set is finite.
LEMMA ImageFinite ==
  ASSUME NEW S, IsFiniteSet(S), NEW f, DOMAIN f = S
  PROVE  IsFiniteSet({f[x] : x \in S})
<1> DEFINE T == {f[x] : x \in S}
           g == [x \in S |-> f[x]]
<1>1. g \in Surjection(S, T)
  BY DEF Surjection
<1> QED
  BY <1>1, FS_Surjection

\* A new call is typed, carries its browser's refresh token or none, and has
\* no answer.
LEMMA CallTyped ==
  ASSUME TypeInv, NEW c \in Tabs, NEW op \in Ops
  PROVE  LET n == Call(c, op) IN
         /\ n \in CallType /\ Fits(n)
         /\ n.by = c /\ n.op = op /\ n.st = "sent" /\ n.tok = 0 /\ n.code = "none"
         /\ op # "data" => n.refresh = jar[B(c)].refresh
         /\ n.raced = (op \in Ending /\ UnderWay(B(c), Renewing) # {})
<1>1. FreeId \in Nat
  BY IdsLeft DEF TypeInv
<1>2. B(c) \in Browsers
  BY SessionsAssumption DEF SessionsAssumption, B
<1>3. /\ jar[B(c)].access \in Some /\ jar[B(c)].refresh \in Some
      /\ minted \in Nat
  BY <1>2 DEF TypeInv, TypeOK, Some
<1>4. Some \subseteq Nat /\ 0 \in Some
  BY <1>3 DEF Some, Tokens
<1> QED
  BY <1>1, <1>3, <1>4 DEF Call, CallType, Fits

\* What a step may do to the calls: marks leave everything else of them.
Marked(c, m) ==
  IF m \in UnderWay(B(c), Ending) THEN [m EXCEPT !.raced = TRUE] ELSE m

LEMMA MarkedTyped ==
  ASSUME TypeInv, NEW c, NEW m \in net
  PROVE  /\ Marked(c, m) \in CallType /\ Fits(Marked(c, m))
         /\ Marked(c, m).op \notin Ending => Marked(c, m) = m
         /\ Marked(c, m) # m => Marked(c, m) = [m EXCEPT !.raced = TRUE] /\ m.op \in Ending
<1>1. m \in CallType /\ Fits(m)
  BY DEF TypeInv, TypeOK
<1>2. [m EXCEPT !.raced = TRUE] \in CallType /\ Fits([m EXCEPT !.raced = TRUE])
  BY <1>1 DEF CallType, Fits
<1> QED
  BY <1>1, <1>2 DEF Marked, UnderWay

\* What Send does: new calls, and the others that were there, some of them
\* marked.
LEMMA SendTyped ==
  ASSUME TypeInv, NEW c \in Tabs, NEW new, NEW old, Send(c, new, old),
         new \subseteq CallType, IsFiniteSet(new)
  PROVE  /\ net' \subseteq CallType /\ IsFiniteSet(net')
         /\ \A m \in net' : m \in new \/ \E o \in net \ old : m = o \/ m = Marked(c, o)
<1> DEFINE f == [m \in net \ old |->
                   IF /\ \E n \in new : n.op \in Renewing
                      /\ m \in UnderWay(B(c), Ending)
                     THEN [m EXCEPT !.raced = TRUE] ELSE m]
           kept == {f[m] : m \in net \ old}
<1>1. net' = new \union kept
  BY DEF Send
<1>2. IsFiniteSet(net \ old)
  BY FS_Subset DEF TypeInv
<1>3. IsFiniteSet(kept)
  <2> HIDE DEF f
  <2>1. DOMAIN f = net \ old
    BY DEF f
  <2> QED
    BY <1>2, <2>1, ImageFinite
<1>4. \A o \in net \ old : f[o] = o \/ f[o] = Marked(c, o)
  BY DEF Marked
<1>5. ASSUME NEW o \in net \ old PROVE f[o] \in CallType
  <2> HIDE DEF f
  <2>1. o \in CallType /\ Marked(c, o) \in CallType
    BY MarkedTyped DEF TypeInv, TypeOK
  <2> QED
    BY <1>4, <2>1
<1>6. IsFiniteSet(net')
  BY <1>1, <1>3, FS_Union
<1> HIDE DEF f
<1>7. net' \subseteq CallType
  BY <1>1, <1>5
<1>8. \A m \in net' : m \in new \/ \E o \in net \ old : m = o \/ m = Marked(c, o)
  BY <1>1, <1>4
<1> QED
  BY <1>6, <1>7, <1>8

-----------------------------------------------------------------------------
(* Types.                                                                  *)

\* A step that mints no fewer tokens than before keeps a call fit.
LEMMA StillFits ==
  ASSUME TypeInv, minted' \in Nat, minted <= minted', NEW m, Fits(m)
  PROVE  Fits(m)'
<1>1. Tokens \subseteq Tokens'
  BY DEF TypeInv, TypeOK, Tokens
<1> QED
  BY <1>1 DEF Fits, Some

\* A new token is one more.
LEMMA Minting ==
  ASSUME TypeInv, minted' = minted + 1
  PROVE  /\ minted' \in Nat /\ Tokens \subseteq Tokens' /\ minted + 1 \in Tokens'
         /\ jar \in [Browsers -> [access : (Tokens \union {0})', refresh : (Tokens \union {0})']]
<1>1. minted \in Nat
  BY DEF TypeInv, TypeOK
<1>2. Tokens \subseteq Tokens' /\ minted + 1 \in Tokens'
  BY <1>1 DEF Tokens
<1>3. jar \in [Browsers -> [access : Tokens \union {0}, refresh : Tokens \union {0}]]
  BY DEF TypeInv, TypeOK
<1>4. [access : Tokens \union {0}, refresh : Tokens \union {0}] \subseteq
        [access : (Tokens \union {0})', refresh : (Tokens \union {0})']
  BY <1>2
<1> QED
  BY <1>1, <1>2, <1>3, <1>4

\* One call becomes another.
LEMMA BecomesTyped ==
  ASSUME TypeInv, NEW m \in net, NEW n \in CallType, Fits(n)', Becomes(m, n),
         minted' \in Nat, minted <= minted'
  PROVE  net' \subseteq CallType /\ IsFiniteSet(net') /\ \A x \in net' : Fits(x)'
<1>1. IsFiniteSet(net \ {m})
  BY FS_RemoveElement DEF TypeInv
<1>2. net' = (net \ {m}) \union {n}
  BY DEF Becomes
<1>3. IsFiniteSet(net')
  BY <1>1, <1>2, FS_AddElement
<1>4. \A x \in net : Fits(x)'
  BY StillFits DEF TypeInv
<1> QED
  BY <1>2, <1>3, <1>4 DEF TypeInv, TypeOK

\* Fewer calls, or the same.
LEMMA FewerTyped ==
  ASSUME TypeInv, net' \subseteq net, minted' \in Nat, minted <= minted'
  PROVE  net' \subseteq CallType /\ IsFiniteSet(net') /\ \A x \in net' : Fits(x)'
<1>1. IsFiniteSet(net')
  BY FS_Subset DEF TypeInv
<1> QED
  BY <1>1, StillFits DEF TypeInv, TypeOK

\* An answer is typed.
LEMMA AnswerTyped ==
  ASSUME TypeInv, NEW m \in net, NEW code \in {"ok", "401", "403", "lost"},
         NEW tok \in Nat
  PROVE  LET n == Answer(m, code, tok) IN
         /\ n \in CallType /\ n.op = m.op /\ n.by = m.by /\ n.refresh = m.refresh
         /\ n.st = "answered" /\ n.code = code /\ n.tok = tok /\ n.raced = m.raced
         /\ n.todo = m.todo
<1>1. m \in CallType
  BY DEF TypeInv, TypeOK
<1> QED
  BY <1>1 DEF Answer, CallType

\* The server's steps.
LEMMA WorkTyped ==
  ASSUME TypeInv, NEW m \in net, Work(m)
  PROVE  TypeInv'
<1> DEFINE typed == /\ net' \subseteq CallType /\ IsFiniteSet(net')
                    /\ \A x \in net' : Fits(x)'
<1>1. /\ m \in CallType /\ Fits(m) /\ minted \in Nat /\ Some \subseteq Nat /\ 0 \in Some
      /\ Tokens \subseteq Nat /\ live \subseteq Tokens /\ live \subseteq Nat /\ 0 \notin live
      /\ history \in HistoryType
  BY DEF TypeInv, TypeOK, Some, Tokens, HistoryType
<1>2. ASSUME NEW code \in {"ok", "401", "403"}, code # "ok" \/ m.op # "refresh"
      PROVE  Answer(m, code, 0) \in CallType /\ Fits(Answer(m, code, 0))
  BY <1>1, <1>2, AnswerTyped DEF Fits
<1>3. CASE Serve(m)
  <2>1. PICK code \in {"ok", "401"} : Becomes(m, Answer(m, code, 0))
    BY <1>3 DEF Serve
  <2>2. m.op # "refresh" /\ minted' = minted
    BY <1>3 DEF Serve, server
  <2>3. typed
    BY <1>1, <1>2, <2>1, <2>2, BecomesTyped, StillFits
  <2> QED
    BY <1>3, <2>3 DEF Serve, server, TypeInv, TypeOK, Tokens
<1>4. CASE Login(m)
  <2>1. CASE active
    <3>0. PICK n : n = Answer(m, "ok", minted + 1)
      OBVIOUS
    <3>1. Becomes(m, n) /\ minted' = minted + 1 /\ m.op = "login"
      BY <1>4, <2>1, <3>0 DEF Login
    <3>2. n \in CallType /\ n.tok = minted + 1 /\ n.refresh = m.refresh
          /\ n.st = "answered" /\ n.code = "ok" /\ n.op = "login"
      BY <1>1, <3>0, <3>1, AnswerTyped
    <3>3. Fits(n)'
      BY <1>1, <3>1, <3>2 DEF Fits, Some, Tokens, Renewing
    <3>4. typed
      BY <1>1, <3>1, <3>2, <3>3, BecomesTyped
    <3> QED
      BY <1>1, <1>4, <2>1, <3>1, <3>4, Minting DEF Login, TypeInv, TypeOK
  <2>2. CASE ~active
    <3>1. Becomes(m, Answer(m, "403", 0)) /\ minted' = minted
      BY <1>4, <2>2 DEF Login
    <3>2. typed
      BY <1>1, <1>2, <3>1, BecomesTyped, StillFits
    <3> QED
      BY <1>4, <2>2, <3>2 DEF Login, TypeInv, TypeOK, Tokens
  <2> QED
    BY <2>1, <2>2
<1>5. CASE ResolveRefresh(m)
  <2>1. m.op = "refresh" /\ m.st = "sent" /\ UNCHANGED minted
    BY <1>5 DEF ResolveRefresh, server
  <2>2. PICK n : /\ Becomes(m, n)
                 /\ \/ n = [m EXCEPT !.st = "resolved"] /\ m.refresh \in live
                    \/ n = [m EXCEPT !.st = "revoking", !.todo = live]
                    \/ n = Answer(m, "401", 0)
    BY <1>5 DEF ResolveRefresh
  <2>3. [m EXCEPT !.st = "resolved"] \in CallType
        /\ (m.refresh \in live => Fits([m EXCEPT !.st = "resolved"]))
    BY <1>1, <2>1 DEF CallType, Fits
  <2>31. /\ [m EXCEPT !.st = "revoking", !.todo = live] \in CallType
         /\ Fits([m EXCEPT !.st = "revoking", !.todo = live])
    BY <1>1, <2>1 DEF CallType, Fits
  <2>4. n \in CallType /\ Fits(n)
    BY <1>2, <2>2, <2>3, <2>31
  <2>5. typed
    BY <1>1, <2>1, <2>2, <2>4, BecomesTyped, StillFits
  <2>7. history' = history \/ history' = [history EXCEPT !.reused = @ \union {m.refresh}]
    BY <1>5 DEF ResolveRefresh
  <2>8. history' \in HistoryType
    BY <1>1, <2>7 DEF CallType, HistoryType
  <2> QED
    BY <1>5, <2>5, <2>8 DEF ResolveRefresh, server, TypeInv, TypeOK, Tokens, HistoryType
<1>6. CASE Rotate(m)
  <2>0. PICK n : n = Answer(m, "ok", minted + 1)
    OBVIOUS
  <2>1. /\ Becomes(m, n) /\ minted' = minted + 1
        /\ m.op = "refresh" /\ m.refresh # 0
    BY <1>1, <1>6, <2>0 DEF Rotate, Minted, Fits
  <2>2. n \in CallType /\ n.tok = minted + 1 /\ n.refresh = m.refresh
        /\ n.st = "answered" /\ n.code = "ok" /\ n.op = "refresh"
    BY <1>1, <2>0, <2>1, AnswerTyped
  <2>3. Fits(n)'
    BY <1>1, <2>1, <2>2 DEF Fits, Some, Tokens, Renewing
  <2>4. typed
    BY <1>1, <2>1, <2>2, <2>3, BecomesTyped
  <2>5. m.refresh \in Tokens
    BY <1>1, <2>1 DEF Fits, Some
  <2> QED
    BY <1>1, <1>6, <2>1, <2>4, <2>5, Minting DEF Rotate, TypeInv, TypeOK
<1>7. CASE Logout(m)
  <2>1. PICK code \in {"ok", "401"} : Becomes(m, Answer(m, code, 0))
    BY <1>7 DEF Logout
  <2>2. m.op = "logout" /\ UNCHANGED minted /\ live' \subseteq live
    BY <1>7 DEF Logout
  <2>3. typed
    BY <1>1, <1>2, <2>1, <2>2, BecomesTyped, StillFits
  <2> QED
    BY <1>7, <2>2, <2>3 DEF Logout, TypeInv, TypeOK, Tokens
<1>8. CASE RevokeOthers(m)
  <2>1. m.op = "others" /\ m.st = "sent" /\ UNCHANGED minted
    BY <1>8 DEF RevokeOthers, Served, server
  <2>2. PICK n : /\ Becomes(m, n)
                 /\ \/ n = [m EXCEPT !.st = "revoking", !.todo = Others(m)]
                    \/ n = Answer(m, "401", 0)
    BY <1>8 DEF RevokeOthers
  <2>3. Others(m) \subseteq Nat
    BY <1>1 DEF Others
  <2>4. n \in CallType /\ Fits(n)
    <3>1. CASE n = [m EXCEPT !.st = "revoking", !.todo = Others(m)]
      BY <1>1, <2>1, <2>3, <3>1 DEF CallType, Fits
    <3>2. CASE n = Answer(m, "401", 0)
      BY <1>1, <1>2, <2>1, <3>2
    <3> QED
      BY <2>2, <3>1, <3>2
  <2>5. typed
    BY <1>1, <2>1, <2>2, <2>4, BecomesTyped, StillFits
  <2> QED
    BY <1>8, <2>5 DEF RevokeOthers, server, TypeInv, TypeOK, Tokens
<1>9. CASE RevokeNext(m)
  <2>1. m.st = "revoking" /\ UNCHANGED minted /\ live' \subseteq live
    BY <1>9 DEF RevokeNext
  <2>2. PICK n : /\ Becomes(m, n)
                 /\ \/ \E t \in m.todo : n = [m EXCEPT !.todo = @ \ {t}]
                    \/ n = Answer(m, "ok", 0) /\ m.op = "others"
                    \/ n = Answer(m, "401", 0)
    BY <1>9 DEF RevokeNext
  <2>3. n \in CallType /\ Fits(n)
    BY <1>1, <1>2, <2>1, <2>2 DEF CallType, Fits
  <2>4. typed
    BY <1>1, <2>1, <2>2, <2>3, BecomesTyped, StillFits
  <2>5. history' = history \/ history' = [history EXCEPT !.cut = @ \union {m.raced}]
    BY <1>9 DEF RevokeNext
  <2>6. history' \in HistoryType
    BY <1>1, <2>5 DEF CallType, HistoryType
  <2> QED
    BY <1>9, <2>1, <2>4, <2>6 DEF RevokeNext, TypeInv, TypeOK, Tokens, HistoryType
<1> QED
  BY <1>3, <1>4, <1>5, <1>6, <1>7, <1>8, <1>9 DEF Work

\* Calls that go out are as typed as those that were there.
LEMMA SendFits ==
  ASSUME TypeInv, NEW c \in Tabs, NEW new, NEW old, Send(c, new, old),
         new \subseteq CallType, IsFiniteSet(new), \A n \in new : Fits(n),
         UNCHANGED minted
  PROVE  net' \subseteq CallType /\ IsFiniteSet(net') /\ \A x \in net' : Fits(x)'
<1>1. minted \in Nat
  BY DEF TypeInv, TypeOK
<1>2. ASSUME NEW m \in net' PROVE Fits(m)
  <2>1. m \in new \/ \E o \in net \ old : m = o \/ m = Marked(c, o)
    BY SendTyped
  <2> QED
    BY <2>1, MarkedTyped DEF TypeInv
<1>3. \A x \in net' : Fits(x)'
  BY <1>1, <1>2, StillFits
<1> QED
  BY <1>3, SendTyped

LEMMA PairFinite == ASSUME NEW x, NEW y PROVE IsFiniteSet({x}) /\ IsFiniteSet({x, y})
<1>1. IsFiniteSet({x})
  BY FS_Singleton
<1>2. IsFiniteSet({x} \union {y})
  BY <1>1, FS_AddElement
<1>3. {x, y} = {x} \union {y}
  OBVIOUS
<1> QED
  BY <1>1, <1>2, <1>3

LEMMA SendOneFits ==
  ASSUME TypeInv, NEW c \in Tabs, NEW n \in CallType, NEW old, Send(c, {n}, old),
         Fits(n), UNCHANGED minted
  PROVE  net' \subseteq CallType /\ IsFiniteSet(net') /\ \A x \in net' : Fits(x)'
<1>1. {n} \subseteq CallType /\ IsFiniteSet({n}) /\ \A x \in {n} : Fits(x)
  BY PairFinite
<1> QED
  BY <1>1, SendFits

\* A call sent once more keeps its name.
LEMMA RetriedTyped ==
  ASSUME TypeInv, NEW m \in net, m.by \in Tabs
  PROVE  LET n == Retried(m) IN
         /\ n \in CallType /\ Fits(n)
         /\ n.by = m.by /\ n.op = m.op /\ n.st = "sent" /\ n.tok = 0 /\ n.code = "none"
         /\ m.op # "data" => n.refresh = jar[B(m.by)].refresh
         /\ n.raced = (m.op \in Ending /\ UnderWay(B(m.by), Renewing) # {})
<1>1. m.op \in Ops /\ m.id \in Nat
  BY DEF TypeInv, TypeOK, CallType
<1>2. PICK k : k = Call(m.by, m.op)
  OBVIOUS
<1>3. /\ k \in CallType /\ Fits(k)
      /\ k.by = m.by /\ k.op = m.op /\ k.st = "sent" /\ k.tok = 0 /\ k.code = "none"
      /\ m.op # "data" => k.refresh = jar[B(m.by)].refresh
      /\ k.raced = (m.op \in Ending /\ UnderWay(B(m.by), Renewing) # {})
  BY <1>1, <1>2, CallTyped
<1>4. Retried(m) = [k EXCEPT !.id = m.id, !.retry = TRUE]
  BY <1>2 DEF Retried
<1> QED
  BY <1>1, <1>3, <1>4 DEF CallType, Fits

\* The tabs, their pages and their histories.
TabType ==
  [page : {"app", "loading", "login"}, refreshing : {"no", "yes", "ok", "failed"}]

LEMMA ActTyped ==
  ASSUME TypeInv, NEW c \in Tabs, NEW op \in Ops, Act(c, op)
  PROVE  TypeInv'
<1>1. /\ history \in HistoryType /\ tab \in [Tabs -> TabType]
      /\ budget \in [acts : Nat, faults : Nat, ticks : Nat]
  BY DEF TypeInv, TypeOK, HistoryType, TabType
<1>2. budget' \in [acts : Nat, faults : Nat, ticks : Nat]
  BY <1>1 DEF Act
<1>3. UNCHANGED minted
  BY DEF Act, server
<1>4. net' \subseteq CallType /\ IsFiniteSet(net') /\ \A x \in net' : Fits(x)'
  <2>1. CASE net' = net
    <3>1. minted \in Nat
      BY DEF TypeInv, TypeOK
    <3> QED
      BY <1>3, <2>1, <3>1, FewerTyped
  <2>2. CASE Send(c, {Call(c, op)}, {})
    BY <1>3, <2>2, CallTyped, SendOneFits
  <2> QED
    BY <2>1, <2>2 DEF Act
<1>5. history' \in HistoryType
  BY <1>1 DEF Act, HistoryType
<1>6. tab' \in [Tabs -> TabType]
  BY <1>1 DEF Act, TabType
<1> QED
  BY <1>2, <1>4, <1>5, <1>6 DEF Act, server, TypeInv, TypeOK, Tokens, HistoryType, TabType

LEMMA ReloadTyped ==
  ASSUME TypeInv, NEW c \in Tabs, Reload(c)
  PROVE  TypeInv'
<1> DEFINE mine == {m \in net : m.by = c}
           asleep == {m \in mine : m.st # "waiting"}
           gone == [m \in asleep |-> [m EXCEPT !.by = Gone]]
           sent == {gone[m] : m \in asleep}
           me == IF jar[B(c)] # NoJar THEN {Call(c, "me")} ELSE {}
<1>1. /\ history \in HistoryType /\ tab \in [Tabs -> TabType]
      /\ budget \in [acts : Nat, faults : Nat, ticks : Nat] /\ minted \in Nat
  BY DEF TypeInv, TypeOK, HistoryType, TabType
<1>2. UNCHANGED <<server, jar>> /\ minted' = minted
  BY DEF Reload, server
<1>3. budget' \in [acts : Nat, faults : Nat, ticks : Nat]
  BY <1>1 DEF Reload
<1>4. tab' \in [Tabs -> TabType]
  BY <1>1 DEF Reload, TabType
<1>5. \A m \in net : m.refresh \in Nat
  BY DEF TypeInv, TypeOK, CallType
<1>6. history' \in HistoryType
  <2>1. history' = [history EXCEPT !.unheard = @ \union
                     {m.refresh : m \in {n \in mine : n.op = "refresh"}}]
    BY DEF Reload
  <2>2. {m.refresh : m \in {n \in mine : n.op = "refresh"}} \subseteq Nat
    BY <1>5
  <2> QED
    BY <1>1, <2>1, <2>2 DEF HistoryType
<1>7. net' = (net \ mine) \union sent \union me
  BY DEF Reload
<1>8. me \subseteq CallType /\ IsFiniteSet(me) /\ \A n \in me : Fits(n)
  <2>1. Call(c, "me") \in CallType /\ Fits(Call(c, "me"))
    BY CallTyped DEF Ops
  <2>2. IsFiniteSet({Call(c, "me")}) /\ IsFiniteSet({})
    BY PairFinite, FS_EmptySet
  <2> QED
    BY <2>1, <2>2
<1>9. sent \subseteq CallType /\ \A n \in sent : Fits(n)
  <2>1. ASSUME NEW m \in asleep PROVE gone[m] \in CallType /\ Fits(gone[m])
    <3>1. m \in CallType /\ Fits(m) /\ m.st # "waiting"
      BY DEF TypeInv, TypeOK
    <3>2. gone[m] = [m EXCEPT !.by = Gone]
      OBVIOUS
    <3> HIDE DEF gone
    <3> QED
      BY <3>1, <3>2 DEF CallType, Fits
  <2> HIDE DEF gone, asleep
  <2> QED
    BY <2>1
<1>10. IsFiniteSet(asleep) /\ IsFiniteSet(net \ mine)
  BY FS_Subset DEF TypeInv
<1>11. IsFiniteSet(sent)
  <2> HIDE DEF gone
  <2>1. DOMAIN gone = asleep
    BY DEF gone
  <2> QED
    BY <1>10, <2>1, ImageFinite
<1> HIDE DEF sent, me, mine
<1>12. IsFiniteSet(net')
  BY <1>7, <1>8, <1>10, <1>11, FS_Union
<1>13. net' \subseteq CallType /\ \A n \in net' : Fits(n)'
  BY <1>1, <1>2, <1>7, <1>8, <1>9, StillFits DEF TypeInv, TypeOK
<1> QED
  BY <1>2, <1>3, <1>4, <1>6, <1>12, <1>13
  DEF server, TypeInv, TypeOK, Tokens, HistoryType, TabType

LEMMA ShellTyped ==
  ASSUME TypeInv, NEW c \in Tabs, Shell(c)
  PROVE  TypeInv'
<1>1. tab' \in [Tabs -> TabType]
  BY DEF Shell, Fail, TypeInv, TypeOK, TabType
<1>2. UNCHANGED minted /\ minted \in Nat
  BY DEF Shell, server, TypeInv, TypeOK
<1>3. net' \subseteq CallType /\ IsFiniteSet(net') /\ \A x \in net' : Fits(x)'
  <2>1. CASE net' = net
    BY <1>2, <2>1, FewerTyped
  <2>2. CASE Send(c, {Call(c, "me")}, {})
    BY <1>2, <2>2, CallTyped, SendOneFits DEF Ops
  <2> QED
    BY <2>1, <2>2 DEF Shell
<1> QED
  BY <1>1, <1>3 DEF Shell, server, TypeInv, TypeOK, Tokens, TabType

LEMMA UnauthorizedTyped ==
  ASSUME TypeInv, NEW c \in Tabs, NEW m \in net, Unauthorized(c, m)
  PROVE  TypeInv'
<1> DEFINE w == [m EXCEPT !.st = "waiting"]
<1>1. /\ UNCHANGED minted /\ minted \in Nat /\ m.by = c /\ m.op # "refresh"
      /\ m.code = "401" /\ m.st = "answered"
  BY DEF Unauthorized, server, TypeInv, TypeOK, Guarded, Ending
<1>2. w \in CallType /\ Fits(w)
  <2>1. m \in CallType /\ Fits(m)
    BY DEF TypeInv, TypeOK
  <2>2. w.by = c /\ w.op = m.op /\ w.st = "waiting" /\ w.tok = m.tok
        /\ w.refresh = m.refresh /\ w.code = "401" /\ w \in CallType
    BY <1>1, <2>1 DEF CallType
  <2> QED
    BY <1>1, <2>1, <2>2 DEF Fits
<1>3. Call(c, "refresh") \in CallType /\ Fits(Call(c, "refresh"))
  BY CallTyped DEF Ops
<1>4. Retried(m) \in CallType /\ Fits(Retried(m))
  BY <1>1, RetriedTyped
<1>5. net' \subseteq CallType /\ IsFiniteSet(net') /\ \A x \in net' : Fits(x)'
  <2>1. CASE Send(c, {w, Call(c, "refresh")}, {m})
    <3>1. IsFiniteSet({w, Call(c, "refresh")})
      BY PairFinite
    <3> QED
      BY <1>1, <1>2, <1>3, <2>1, <3>1, SendFits
  <2>2. CASE Becomes(m, w)
    BY <1>1, <1>2, <2>2, StillFits, BecomesTyped
  <2>3. CASE Send(c, {Retried(m)}, {m})
    BY <1>1, <1>4, <2>3, SendOneFits
  <2>4. CASE net' = net \ {m}
    BY <1>1, <2>4, FewerTyped
  <2> QED
    BY <2>1, <2>2, <2>3, <2>4 DEF Unauthorized
<1>6. tab' \in [Tabs -> TabType]
  BY DEF Unauthorized, Fail, TypeInv, TypeOK, TabType
<1>7. history' \in HistoryType
  <2>1. \A n \in net : n.refresh \in Nat
    BY DEF TypeInv, TypeOK, CallType
  <2>2. SharedWith(c) \subseteq Nat
    BY <2>1 DEF SharedWith
  <2>3. history' = history \/ history' = [history EXCEPT !.shared = @ \union SharedWith(c)]
    BY DEF Unauthorized
  <2> QED
    BY <2>2, <2>3 DEF TypeInv, TypeOK, HistoryType
<1> QED
  BY <1>5, <1>6, <1>7 DEF Unauthorized, server, TypeInv, TypeOK, Tokens, TabType, HistoryType

\* What the types say of a tab, its browser's cookies, and an answer to it.
LEMMA TabTyped ==
  ASSUME TypeInv, NEW c \in Tabs, NEW m \in net
  PROVE  /\ minted \in Nat /\ Some \subseteq Nat /\ 0 \in Some
         /\ tab \in [Tabs -> TabType] /\ B(c) \in Browsers /\ history \in HistoryType
         /\ jar \in [Browsers -> [access : Some, refresh : Some]] /\ m.tok \in Some
<1>1. B(c) \in Browsers
  BY SessionsAssumption DEF SessionsAssumption, B
<1>2. m.tok \in Some
  BY DEF TypeInv, Fits
<1>3. minted \in Nat /\ Some \subseteq Nat /\ 0 \in Some
  BY DEF TypeInv, TypeOK, Some, Tokens
<1> QED
  BY <1>1, <1>2, <1>3 DEF TypeInv, TypeOK, TabType, HistoryType, Some

\* A refresh settles: those who waited go again with its cookies.
Again(c, m, n) ==
  [n EXCEPT !.st = "sent", !.retry = TRUE, !.access = m.tok,
            !.refresh = IF n.op = "data" THEN 0 ELSE m.tok,
            !.raced = n.op \in Ending /\ UnderWay(B(c), Renewing) # {m}]

LEMMA AgainTyped ==
  ASSUME TypeInv, NEW c \in Tabs, NEW m \in net, NEW n \in net, n.st = "waiting"
  PROVE  LET a == Again(c, m, n) IN
         /\ a \in CallType /\ Fits(a)
         /\ a.by = n.by /\ a.op = n.op /\ a.st = "sent" /\ a.tok = 0 /\ a.todo = n.todo
         /\ n.op # "data" => a.refresh = m.tok
         /\ a.raced = (n.op \in Ending /\ UnderWay(B(c), Renewing) # {m})
<1>1. n \in CallType /\ Fits(n) /\ m.tok \in Some /\ 0 \in Some /\ Some \subseteq Nat
  BY DEF TypeInv, TypeOK, Fits, Some, Tokens
<1> QED
  BY <1>1 DEF Again, CallType, Fits

LEMMA SettledTyped ==
  ASSUME TypeInv, NEW c \in Tabs, NEW m \in net, Settled(c, m)
  PROVE  TypeInv'
<1> DEFINE waiting == {n \in net : n.by = c /\ n.st = "waiting"}
           pair == [access |-> m.tok, refresh |-> m.tok]
           f == [n \in waiting |-> Again(c, m, n)]
           again == {f[n] : n \in waiting}
<1>1. /\ UNCHANGED server /\ minted' = minted /\ minted \in Nat
      /\ tab \in [Tabs -> TabType] /\ B(c) \in Browsers
      /\ jar \in [Browsers -> [access : Some, refresh : Some]] /\ m.tok \in Some
  BY TabTyped DEF Settled, server
<1>2. tab' \in [Tabs -> TabType]
  <2>1. PICK p \in {"app", "loading", "login"}, r \in {"ok", "failed"} :
          tab' = [tab EXCEPT ![c].refreshing = r, ![c].page = p]
    BY <1>1 DEF Settled, TabType
  <2>2. tab[c] \in TabType
    BY <1>1
  <2>3. [tab EXCEPT ![c].refreshing = r, ![c].page = p] \in [Tabs -> TabType]
    <3> DEFINE one == [tab EXCEPT ![c].refreshing = r]
    <3>1. one \in [Tabs -> TabType]
      BY <1>1, <2>2 DEF TabType
    <3>2. [tab EXCEPT ![c].refreshing = r, ![c].page = p] = [one EXCEPT ![c].page = p]
      OBVIOUS
    <3> HIDE DEF one
    <3>3. [one EXCEPT ![c].page = p] \in [Tabs -> TabType]
      BY <3>1 DEF TabType
    <3> QED
      BY <3>2, <3>3
  <2> QED
    BY <2>1, <2>3
<1>3. jar' \in [Browsers -> [access : Some, refresh : Some]]
  BY <1>1 DEF Settled
<1>4. again \subseteq CallType /\ \A x \in again : Fits(x)
  <2>1. ASSUME NEW n \in waiting PROVE f[n] \in CallType /\ Fits(f[n])
    BY AgainTyped
  <2> HIDE DEF f, waiting
  <2> QED
    BY <2>1
<1>5. IsFiniteSet(again)
  <2>1. DOMAIN f = waiting /\ IsFiniteSet(waiting)
    BY FS_Subset DEF TypeInv
  <2> HIDE DEF f, waiting
  <2> QED
    BY <2>1, ImageFinite
<1>6. net' = (net \ (waiting \union {m})) \union (IF m.code = "ok" THEN again ELSE {})
  BY DEF Settled, Again
<1>7. IsFiniteSet(net \ (waiting \union {m}))
  BY FS_Subset DEF TypeInv
<1> HIDE DEF again, waiting
<1>8. IsFiniteSet(net')
  BY <1>5, <1>6, <1>7, FS_Union, FS_EmptySet
<1>9. \A x \in net' : x \in CallType /\ Fits(x)
  BY <1>4, <1>6 DEF TypeInv, TypeOK
<1>10. \A x \in net' : Fits(x)'
  BY <1>1, <1>9, StillFits
<1> QED
  BY <1>1, <1>2, <1>3, <1>8, <1>9, <1>10
  DEF Settled, server, TypeInv, TypeOK, Tokens, Some, TabType, HistoryType

LEMMA HeardTyped ==
  ASSUME TypeInv, NEW c \in Tabs, NEW m \in net, Heard(c, m)
  PROVE  TypeInv'
<1>1. /\ UNCHANGED server /\ minted' = minted /\ minted \in Nat
      /\ tab \in [Tabs -> TabType] /\ B(c) \in Browsers /\ history \in HistoryType
      /\ jar \in [Browsers -> [access : Some, refresh : Some]] /\ m.tok \in Some
      /\ Some \subseteq Nat /\ 0 \in Some
  BY TabTyped DEF Heard, server
<1>2. tab' \in [Tabs -> TabType]
  BY <1>1 DEF Heard, TabType
<1>3. jar' \in [Browsers -> [access : Some, refresh : Some]]
  BY <1>1 DEF Heard, NoJar
<1>4. history' \in HistoryType
  <2>1. history' = history \/ \E out \in SUBSET Browsers :
          history' = [history EXCEPT !.out = out,
                        !.kept = [history.kept EXCEPT ![B(c)] = jar[B(c)].refresh]]
    <3>1. history.out \union {B(c)} \in SUBSET Browsers
          /\ history.out \ {B(c)} \in SUBSET Browsers
      BY <1>1 DEF HistoryType
    <3> QED
      BY <3>1 DEF Heard
  <2>2. jar[B(c)].refresh \in Nat /\ history.kept \in [Browsers -> Nat]
    BY <1>1 DEF HistoryType
  <2>3. [history.kept EXCEPT ![B(c)] = jar[B(c)].refresh] \in [Browsers -> Nat]
    BY <1>1, <2>2
  <2> QED
    BY <1>1, <2>1, <2>3 DEF HistoryType
<1>5. net' \subseteq CallType /\ IsFiniteSet(net') /\ \A x \in net' : Fits(x)'
  BY <1>1, FewerTyped DEF Heard
<1> QED
  BY <1>1, <1>2, <1>3, <1>4, <1>5
  DEF Heard, server, TypeInv, TypeOK, Tokens, Some, TabType, HistoryType

LEMMA LoseTyped ==
  ASSUME TypeInv, NEW m \in net, Lose(m)
  PROVE  TypeInv'
<1>1. UNCHANGED <<server, jar, tab>> /\ minted' = minted /\ minted \in Nat
      /\ m \in CallType /\ Fits(m) /\ history \in HistoryType
      /\ budget \in [acts : Nat, faults : Nat, ticks : Nat] /\ budget.faults > 0
  BY DEF Lose, server, TypeInv, TypeOK, HistoryType
<1>2. Answer(m, "lost", 0) \in CallType /\ Fits(Answer(m, "lost", 0))
  BY <1>1, AnswerTyped DEF Fits, Some
<1>3. net' \subseteq CallType /\ IsFiniteSet(net') /\ \A x \in net' : Fits(x)'
  BY <1>1, <1>2, BecomesTyped, StillFits DEF Lose
<1>4. history' \in HistoryType
  <2>1. history' = history \/ history' = [history EXCEPT !.unheard = @ \union {m.refresh}]
    BY DEF Lose
  <2> QED
    BY <1>1, <2>1 DEF HistoryType, CallType
<1>5. budget' \in [acts : Nat, faults : Nat, ticks : Nat]
  BY <1>1 DEF Lose
<1> QED
  BY <1>1, <1>3, <1>4, <1>5 DEF server, TypeInv, TypeOK, Tokens, HistoryType

\* Every step keeps the types.
LEMMA NextTypeInv == TypeInv /\ [Next]_vars => TypeInv'
<1> SUFFICES ASSUME TypeInv, [Next]_vars PROVE TypeInv'
  OBVIOUS
<1>1. minted \in Nat
  BY DEF TypeInv, TypeOK
<1>2. ASSUME NEW m \in net, Discarded(m) PROVE TypeInv'
  <2>1. net' \subseteq CallType /\ IsFiniteSet(net') /\ \A x \in net' : Fits(x)'
    BY <1>1, <1>2, FewerTyped DEF Discarded, server
  <2> QED
    BY <1>2, <2>1 DEF Discarded, server, TypeInv, TypeOK, Tokens
<1>3. ASSUME NEW c \in Tabs, Forget(c) PROVE TypeInv'
  <2>1. net' \subseteq CallType /\ IsFiniteSet(net') /\ \A x \in net' : Fits(x)'
    BY <1>1, <1>3, FewerTyped DEF Forget, server
  <2> QED
    BY <1>3, <2>1 DEF Forget, server, TypeInv, TypeOK, Tokens
<1>4. CASE Expire
  <2>1. net' \subseteq CallType /\ IsFiniteSet(net') /\ \A x \in net' : Fits(x)'
    BY <1>1, <1>4, FewerTyped DEF Expire
  <2>2. fresh' \subseteq fresh /\ tomb' \subseteq tomb /\ active' \in BOOLEAN
    BY <1>4 DEF Expire, TypeInv, TypeOK
  <2>3. budget' \in [acts : Nat, faults : Nat, ticks : Nat]
    BY <1>4 DEF Expire, TypeInv, TypeOK
  <2> QED
    BY <1>4, <2>1, <2>2, <2>3 DEF Expire, TypeInv, TypeOK, Tokens
<1>5. CASE UNCHANGED vars
  <2>1. net' \subseteq CallType /\ IsFiniteSet(net') /\ \A x \in net' : Fits(x)'
    BY <1>1, <1>5, FewerTyped DEF vars
  <2> QED
    BY <1>5, <2>1 DEF vars, TypeInv, TypeOK, Tokens
<1> QED
  BY <1>2, <1>3, <1>4, <1>5, WorkTyped, LoseTyped, ReloadTyped, ShellTyped, ActTyped,
     UnauthorizedTyped, SettledTyped, HeardTyped DEF Next, Hear

\* The initial state is well typed: one session a browser, no calls.
LEMMA InitTypeInv == Init => TypeInv
<1> SUFFICES ASSUME Init PROVE TypeInv
  OBVIOUS
<1>1. minted \in Nat
  BY SessionsAssumption, FS_CardinalityType DEF SessionsAssumption, Init
<1>2. live = Tokens /\ fresh \subseteq Tokens /\ tomb = {}
  BY DEF Init, Tokens
<1>3. jar \in [Browsers -> [access : Tokens \union {0}, refresh : Tokens \union {0}]]
  <2>1. PICK first \in [Browsers -> live] :
          jar = [b \in Browsers |-> [access |-> first[b], refresh |-> first[b]]]
    BY DEF Init
  <2> QED
    BY <1>2, <2>1
<1>4. net = {} /\ IsFiniteSet(net)
  BY FS_EmptySet DEF Init
<1>5. budget \in [acts : Nat, faults : Nat, ticks : Nat]
  BY SessionsAssumption DEF SessionsAssumption, Init
<1> QED
  BY <1>1, <1>2, <1>3, <1>4, <1>5 DEF Init, TypeInv, TypeOK

\* Type correctness: in particular every token in Redis, in a cookie or in a
\* call was minted, and the ids of the calls never run out.
THEOREM TypeCorrect == Spec => []TypeOK
<1>1. TypeInv => TypeOK
  BY DEF TypeInv
<1> QED
  BY <1>1, InitTypeInv, NextTypeInv, PTL DEF Spec

-----------------------------------------------------------------------------
(* The theft alarm.  A token that was rotated and that somebody may still  *)
(* present is accounted for, or the answer with its successor is on the    *)
(* way to the one browser that holds it.                                   *)

Accounted == history.shared \union history.unheard
Refreshes == {m \in net : m.op = "refresh"}
Bearers == {m \in net : m.tok # 0}          \* answers with a new token

\* A tab has one refresh under way, and knows.
OneRefresh ==
  \A m \in Refreshes : m.by # Gone =>
    /\ tab[m.by].refreshing = "yes"
    /\ \A n \in Refreshes : n.by = m.by => n = m

\* A new token is nowhere else until its answer is heard.
NewTokens ==
  \A m \in Bearers :
    /\ m.tok \notin tomb
    /\ \A b \in Browsers : jar[b].refresh # m.tok
    /\ \A n \in Refreshes : n.refresh # m.tok
    /\ \A n \in Bearers : n # m => n.tok # m.tok

\* No browser has a token of another, in its jar or in a refresh.
BrowsersApart ==
  /\ \A a, b \in Browsers :
       jar[a].refresh = jar[b].refresh /\ jar[a].refresh # 0 => a = b
  /\ \A m \in Refreshes, b \in Browsers :
       m.by # Gone /\ jar[b].refresh = m.refresh /\ m.refresh # 0 => b = B(m.by)

RefreshesAccounted ==
  \A m \in Refreshes :
    /\ m.by = Gone => m.refresh \in Accounted
    /\ m.st = "sent" /\ m.refresh \in tomb => m.refresh \in Accounted
    /\ \A n \in Refreshes :
         n # m /\ n.refresh = m.refresh => m.refresh \in Accounted

JarsAccounted ==
  \A b \in Browsers : jar[b].refresh \in tomb =>
    \/ jar[b].refresh \in Accounted
    \/ \E m \in Refreshes :
         /\ m.refresh = jar[b].refresh /\ m.by # Gone
         /\ m.st = "answered" /\ m.code = "ok"

TokenInv ==
  /\ OneRefresh /\ NewTokens /\ BrowsersApart
  /\ RefreshesAccounted /\ JarsAccounted
  /\ ReuseAccounted

\* Nothing happens to refreshes and tokens, but that cookies are cleared and
\* tombstones forgotten.
LEMMA NothingNew ==
  ASSUME TypeInv, TokenInv, Refreshes' = Refreshes, Bearers' = Bearers,
         tomb' \subseteq tomb, Accounted \subseteq Accounted',
         \A b \in Browsers : jar'[b].refresh \in {jar[b].refresh, 0},
         \A m \in Refreshes : m.by # Gone => tab'[m.by].refreshing = "yes",
         history'.reused \subseteq Accounted'
  PROVE  TokenInv'
<1>1. 0 \notin tomb
  BY DEF TypeInv, TypeOK, Tokens
<1>2. OneRefresh'
  BY DEF TokenInv, OneRefresh
<1>3. NewTokens'
  BY DEF TokenInv, NewTokens, Bearers
<1>4. BrowsersApart'
  BY DEF TokenInv, BrowsersApart
<1>5. RefreshesAccounted'
  BY DEF TokenInv, RefreshesAccounted
<1>6. JarsAccounted'
  BY <1>1 DEF TokenInv, JarsAccounted
<1> QED
  BY <1>2, <1>3, <1>4, <1>5, <1>6 DEF TokenInv, ReuseAccounted, Accounted

\* A call gets on, or is answered without a token.
LEMMA GetsOn ==
  ASSUME TypeInv, TokenInv, NEW m \in net, NEW n, Becomes(m, n),
         n.op = m.op, n.by = m.by, n.refresh = m.refresh, n.tok = 0,
         n.op = "refresh" /\ n.st = "sent" => m.st = "sent",
         m.op = "refresh" /\ m.by # Gone /\ m.st = "answered" /\ m.code = "ok"
           => m.refresh \in Accounted',
         UNCHANGED <<tomb, jar>>, Accounted \subseteq Accounted',
         \A c \in Tabs : tab'[c].refreshing = tab[c].refreshing,
         history'.reused \subseteq Accounted'
  PROVE  TokenInv'
<1>1. net' = (net \ {m}) \union {n}
  BY DEF Becomes
<1>2. ASSUME NEW x \in Refreshes'
      PROVE  (x \in Refreshes /\ x # m) \/ (x = n /\ m \in Refreshes)
  <2>1. x \in net' /\ x.op = "refresh"
    BY DEF Refreshes
  <2>2. CASE x = n
    BY <2>1, <2>2 DEF Refreshes
  <2>3. CASE x \in net /\ x # m
    BY <2>1, <2>3 DEF Refreshes
  <2> QED
    BY <1>1, <2>1, <2>2, <2>3
<1>3. \A x \in Bearers' : x \in Bearers
  BY <1>1 DEF Bearers
<1>4. \A x \in Refreshes : x.by # Gone => x.by \in Tabs
  BY DEF Refreshes, TypeInv, TypeOK, CallType
<1>5. OneRefresh'
  <2>1. \A x \in Refreshes' : x.by # Gone => tab'[x.by].refreshing = "yes"
    BY <1>2, <1>4 DEF TokenInv, OneRefresh
  <2>2. ASSUME NEW x \in Refreshes', NEW y \in Refreshes', x.by # Gone, y.by = x.by
        PROVE  y = x
    BY <1>2, <2>2 DEF TokenInv, OneRefresh
  <2> QED
    BY <2>1, <2>2 DEF OneRefresh
<1>6. NewTokens'
  BY <1>2, <1>3 DEF TokenInv, NewTokens
<1>7. BrowsersApart'
  BY <1>2 DEF TokenInv, BrowsersApart
<1>8. RefreshesAccounted'
  <2>1. ASSUME NEW x \in Refreshes'
        PROVE  /\ x.by = Gone => x.refresh \in Accounted'
               /\ x.st = "sent" /\ x.refresh \in tomb' => x.refresh \in Accounted'
    BY <1>2 DEF TokenInv, RefreshesAccounted, Refreshes
  <2>2. ASSUME NEW x \in Refreshes', NEW y \in Refreshes', x # y, x.refresh = y.refresh
        PROVE  x.refresh \in Accounted'
    BY <1>2, <2>2 DEF TokenInv, RefreshesAccounted
  <2> QED
    BY <2>1, <2>2 DEF RefreshesAccounted
<1>9. JarsAccounted'
  <2>1. \A x \in Refreshes : x # m => x \in Refreshes'
    BY <1>1 DEF Refreshes
  <2> QED
    BY <2>1 DEF TokenInv, JarsAccounted, Refreshes
<1> QED
  BY <1>5, <1>6, <1>7, <1>8, <1>9 DEF TokenInv, ReuseAccounted, Accounted

\* Calls are dropped, the witnesses that are lost being accounted for.
LEMMA Dropped ==
  ASSUME TypeInv, TokenInv, net' \subseteq net,
         \A m \in Refreshes \ net' : m.by # Gone => m.code # "ok",
         UNCHANGED <<tomb, jar, history>>,
         \A m \in Refreshes' : m.by # Gone => tab'[m.by].refreshing = "yes"
  PROVE  TokenInv'
<1>1. Refreshes' \subseteq Refreshes /\ Bearers' \subseteq Bearers
  BY DEF Refreshes, Bearers
<1>2. Accounted' = Accounted
  BY DEF Accounted
<1>3. OneRefresh' /\ NewTokens' /\ BrowsersApart'
  BY <1>1 DEF TokenInv, OneRefresh, NewTokens, BrowsersApart
<1>4. RefreshesAccounted'
  BY <1>1, <1>2 DEF TokenInv, RefreshesAccounted
<1>5. JarsAccounted'
  BY <1>2 DEF TokenInv, JarsAccounted, Refreshes
<1> QED
  BY <1>3, <1>4, <1>5 DEF TokenInv, ReuseAccounted

\* A token is minted: for a login, or in place of the one a refresh carries.
LEMMA MintKeeps ==
  ASSUME TypeInv, TokenInv, NEW m \in net, NEW n, Becomes(m, n),
         n.op = m.op, n.by = m.by, n.refresh = m.refresh, n.tok = minted + 1,
         n.st = "answered", n.code = "ok",
         \/ m.op = "login" /\ tomb' = tomb
         \/ m.op = "refresh" /\ m.st = "resolved" /\ tomb' = tomb \union {m.refresh},
         UNCHANGED <<jar, tab, history>>
  PROVE  TokenInv'
<1>1. net' = (net \ {m}) \union {n}
  BY DEF Becomes
<1>2. ASSUME NEW x \in Refreshes'
      PROVE  (x \in Refreshes /\ x # m) \/ (x = n /\ m \in Refreshes)
  <2>1. x \in net' /\ x.op = "refresh"
    BY DEF Refreshes
  <2>2. CASE x = n
    BY <2>1, <2>2 DEF Refreshes
  <2>3. CASE x \in net /\ x # m
    BY <2>1, <2>3 DEF Refreshes
  <2> QED
    BY <1>1, <2>1, <2>2, <2>3
<1>3. \A x \in Bearers' : x \in Bearers \/ x = n
  BY <1>1 DEF Bearers
<1>4. /\ minted \in Nat /\ tomb \subseteq Tokens
      /\ \A b \in Browsers : jar[b].refresh \in Some
      /\ \A x \in net : x.tok \in Some /\ x.refresh \in Some
      /\ minted + 1 \notin Some
  BY DEF TypeInv, TypeOK, Fits, Some, Tokens
<1>5. m \in net /\ Fits(m)
  BY DEF TypeInv
<1>0. m.op = "refresh" => m.st # "answered"
  OBVIOUS
<1>6. OneRefresh'
  BY <1>2 DEF TokenInv, OneRefresh
<1>7. NewTokens'
  <2>1. \A x \in tomb' : x \in tomb \/ (x = m.refresh /\ m \in Refreshes)
    BY DEF Refreshes
  <2>2. \A x \in Bearers : x \in net
    BY DEF Bearers
  <2>3. ASSUME NEW x \in Bearers'
        PROVE  /\ x.tok \notin tomb' /\ \A b \in Browsers : jar[b].refresh # x.tok
               /\ \A y \in Refreshes' : y.refresh # x.tok
    <3>1. CASE x = n
      <4>1. minted + 1 \notin tomb'
        BY <1>4, <1>5, <2>1 DEF Some
      <4>2. \A y \in Refreshes' : y.refresh \in Some
        BY <1>2, <1>4 DEF Refreshes
      <4> QED
        BY <1>4, <3>1, <4>1, <4>2
    <3>2. CASE x \in Bearers
      BY <1>2, <2>1, <3>2 DEF TokenInv, NewTokens
    <3> QED
      BY <1>3, <3>1, <3>2
  <2>4. ASSUME NEW x \in Bearers', NEW y \in Bearers', y # x PROVE y.tok # x.tok
    BY <1>3, <1>4, <2>2, <2>4 DEF TokenInv, NewTokens
  <2> QED
    BY <2>3, <2>4 DEF NewTokens
<1>8. BrowsersApart'
  BY <1>2 DEF TokenInv, BrowsersApart
<1>9. Accounted' = Accounted
  BY DEF Accounted
<1>10. RefreshesAccounted'
  <2>1. ASSUME NEW x \in Refreshes'
        PROVE  /\ x.by = Gone => x.refresh \in Accounted
               /\ x.st = "sent" /\ x.refresh \in tomb' => x.refresh \in Accounted
    <3>1. CASE x = n /\ m \in Refreshes
      BY <3>1 DEF TokenInv, RefreshesAccounted
    <3>2. CASE x \in Refreshes /\ x # m
      <4>1. CASE x.refresh \in tomb
        BY <3>2, <4>1 DEF TokenInv, RefreshesAccounted
      <4>2. CASE x.refresh \notin tomb
        <5>1. x.refresh \in tomb' => m \in Refreshes /\ x.refresh = m.refresh
          BY <4>2 DEF Refreshes
        <5> QED
          BY <3>2, <4>2, <5>1 DEF TokenInv, RefreshesAccounted
      <4> QED
        BY <4>1, <4>2
    <3> QED
      BY <1>2, <3>1, <3>2
  <2>2. ASSUME NEW x \in Refreshes', NEW y \in Refreshes', x # y, x.refresh = y.refresh
        PROVE  x.refresh \in Accounted
    BY <1>2, <2>2 DEF TokenInv, RefreshesAccounted
  <2> QED
    BY <1>9, <2>1, <2>2 DEF RefreshesAccounted
<1>11. JarsAccounted'
  <2> SUFFICES ASSUME NEW b \in Browsers, jar[b].refresh \in tomb'
               PROVE  \/ jar[b].refresh \in Accounted
                      \/ \E x \in Refreshes' :
                           /\ x.refresh = jar[b].refresh /\ x.by # Gone
                           /\ x.st = "answered" /\ x.code = "ok"
    BY <1>9 DEF JarsAccounted
  <2>1. \A x \in Refreshes : x # m => x \in Refreshes'
    BY <1>1 DEF Refreshes
  <2>2. CASE jar[b].refresh \in tomb
    <3> SUFFICES ASSUME jar[b].refresh \notin Accounted
                 PROVE  \E x \in Refreshes' :
                           /\ x.refresh = jar[b].refresh /\ x.by # Gone
                           /\ x.st = "answered" /\ x.code = "ok"
      OBVIOUS
    <3>1. PICK x \in Refreshes : /\ x.refresh = jar[b].refresh /\ x.by # Gone
                                 /\ x.st = "answered" /\ x.code = "ok"
      BY <2>2 DEF TokenInv, JarsAccounted
    <3>2. x # m
      BY <1>0, <3>1 DEF Refreshes
    <3> QED
      BY <2>1, <3>1, <3>2
  <2>3. CASE jar[b].refresh = m.refresh /\ m \in Refreshes
    <3>1. CASE m.by = Gone
      BY <2>3, <3>1 DEF TokenInv, RefreshesAccounted
    <3>2. CASE m.by # Gone
      <4>1. n \in Refreshes'
        BY <1>1, <2>3 DEF Refreshes
      <4> QED
        BY <2>3, <3>2, <4>1
    <3> QED
      BY <3>1, <3>2
  <2> QED
    BY <2>2, <2>3 DEF Refreshes
<1> QED
  BY <1>6, <1>7, <1>8, <1>10, <1>11 DEF TokenInv, ReuseAccounted

\* Marks and calls that are not refreshes change no refresh and no bearer.
LEMMA SendElsewhere ==
  ASSUME TypeInv, NEW c \in Tabs, NEW n \in CallType, n.op # "refresh", n.tok = 0,
         NEW old \in SUBSET net, \A o \in old : o.op # "refresh" /\ o.tok = 0,
         Send(c, {n}, old)
  PROVE  Refreshes' = Refreshes /\ Bearers' = Bearers
<1> DEFINE g(m) == IF /\ \E x \in {n} : x.op \in Renewing
                      /\ m \in UnderWay(B(c), Ending)
                     THEN [m EXCEPT !.raced = TRUE] ELSE m
<1>1. net' = {n} \union {g(m) : m \in net \ old}
  BY DEF Send
<1>2. ASSUME NEW m \in net
      PROVE  /\ m.op \notin Ending => g(m) = m
             /\ g(m).op = m.op /\ g(m).tok = m.tok
             /\ m.op = "refresh" \/ m.tok # 0 => m.op \notin Ending
  <2>1. m \in CallType /\ Fits(m)
    BY DEF TypeInv, TypeOK
  <2> QED
    BY <2>1 DEF UnderWay, CallType, Fits, Ending, Renewing
<1> HIDE DEF g
<1>3. \A x \in net' : x.op = "refresh" \/ x.tok # 0 => x \in net
  <2> SUFFICES ASSUME NEW x \in net', x.op = "refresh" \/ x.tok # 0 PROVE x \in net
    OBVIOUS
  <2>1. PICK m \in net : x = g(m)
    BY <1>1
  <2> QED
    BY <1>2, <2>1
<1>4. \A m \in net : m.op = "refresh" \/ m.tok # 0 => m \in net'
  <2> SUFFICES ASSUME NEW m \in net, m.op = "refresh" \/ m.tok # 0 PROVE m \in net'
    OBVIOUS
  <2>1. g(m) = m /\ m \notin old
    BY <1>2
  <2> QED
    BY <1>1, <2>1
<1> QED
  BY <1>3, <1>4 DEF Refreshes, Bearers

\* A refresh starts, in a tab that has none: if another carries the same
\* token, or a jar holds one that was rotated, the token is accounted for.
LEMMA RefreshStarts ==
  ASSUME TypeInv, TokenInv, NEW c \in Tabs, NEW m \in net, Unauthorized(c, m),
         InFlight(c) = "no",
         Send(c, {[m EXCEPT !.st = "waiting"], Call(c, "refresh")}, {m}),
         tab' = [tab EXCEPT ![c].refreshing = "yes"],
         history' = [history EXCEPT !.shared = @ \union SharedWith(c)]
  PROVE  TokenInv'
<1> DEFINE w == [m EXCEPT !.st = "waiting"]
           g(x) == IF x \in UnderWay(B(c), Ending) THEN [x EXCEPT !.raced = TRUE] ELSE x
<1>1. PICK r : r = Call(c, "refresh")
  OBVIOUS
<1>2. /\ r \in CallType /\ r.by = c /\ r.op = "refresh" /\ r.st = "sent" /\ r.tok = 0
      /\ r.refresh = jar[B(c)].refresh
  BY <1>1, CallTyped DEF Ops
<1>3. /\ m \in CallType /\ Fits(m) /\ m.op # "refresh" /\ m.code = "401" /\ m.tok = 0
      /\ UNCHANGED <<tomb, jar>> /\ B(c) \in Browsers /\ history \in HistoryType
      /\ tab \in [Tabs -> TabType] /\ c # Gone
  BY TabTyped, SessionsAssumption
  DEF Unauthorized, server, Guarded, Ending, TypeInv, TypeOK, Fits, SessionsAssumption
<1>4. net' = {w, r} \union {g(x) : x \in net \ {m}}
  <2>1. \E n \in {w, r} : n.op \in Renewing
    BY <1>2 DEF Renewing
  <2> QED
    BY <1>1, <2>1 DEF Send
<1>5. ASSUME NEW x \in net
      PROVE  /\ x.op \notin Ending => g(x) = x
             /\ g(x).op = x.op /\ g(x).tok = x.tok
             /\ x.op = "refresh" \/ x.tok # 0 => x.op \notin Ending
  <2>1. x \in CallType /\ Fits(x)
    BY DEF TypeInv, TypeOK
  <2> QED
    BY <2>1 DEF UnderWay, CallType, Fits, Ending, Renewing
<1>6. w.op # "refresh" /\ w.tok = 0
  BY <1>3 DEF CallType
<1> HIDE DEF g, w
<1>7. \A x \in net' : x.op = "refresh" => x = r \/ x \in Refreshes
  <2> SUFFICES ASSUME NEW x \in net', x.op = "refresh", x # r PROVE x \in net
    BY DEF Refreshes
  <2>1. PICK o \in net : x = g(o)
    BY <1>4, <1>6
  <2> QED
    BY <1>5, <2>1
<1>8. \A x \in Refreshes' : x = r \/ x \in Refreshes
  BY <1>7 DEF Refreshes
<1>9. Bearers' \subseteq Bearers
  <2> SUFFICES ASSUME NEW x \in net', x.tok # 0 PROVE x \in net
    BY DEF Bearers
  <2>1. PICK o \in net : x = g(o)
    BY <1>2, <1>4, <1>6
  <2> QED
    BY <1>5, <2>1
<1>10. Refreshes \subseteq Refreshes'
  <2> SUFFICES ASSUME NEW x \in net, x.op = "refresh" PROVE x \in net'
    BY DEF Refreshes
  <2> QED
    BY <1>3, <1>4, <1>5
<1>11. \A x \in Refreshes : x.by # c /\ (x.by # Gone => x.by \in Tabs)
  <2>1. \A x \in Refreshes : x.by # Gone => x.by \in Tabs
    BY DEF Refreshes, TypeInv, TypeOK, CallType
  <2> QED
    BY <1>3, <2>1 DEF TokenInv, OneRefresh, InFlight
<1>12. /\ Accounted \subseteq Accounted' /\ history'.reused = history.reused
       /\ SharedWith(c) \subseteq Accounted'
  BY <1>3 DEF Accounted, HistoryType
<1>13. \A x \in Refreshes : x.refresh = r.refresh => r.refresh \in Accounted'
  <2> SUFFICES ASSUME NEW x \in Refreshes, x.refresh = r.refresh
               PROVE  r.refresh \in SharedWith(c)
    BY <1>12
  <2> QED
    BY <1>2, <1>11 DEF SharedWith, Refreshes
<1>14. OneRefresh'
  <2>1. tab'[c].refreshing = "yes" /\ \A d \in Tabs : d # c => tab'[d] = tab[d]
    BY <1>3 DEF TabType
  <2>2. ASSUME NEW x \in Refreshes', x.by # Gone PROVE tab'[x.by].refreshing = "yes"
    BY <1>2, <1>8, <1>11, <2>1, <2>2 DEF TokenInv, OneRefresh
  <2>3. ASSUME NEW x \in Refreshes', NEW y \in Refreshes', x.by # Gone, y.by = x.by
        PROVE  y = x
    BY <1>2, <1>8, <1>11, <2>3 DEF TokenInv, OneRefresh
  <2> QED
    BY <2>2, <2>3 DEF OneRefresh
<1>15. NewTokens'
  <2>1. \A x \in Bearers : x.tok # r.refresh
    BY <1>2, <1>3 DEF TokenInv, NewTokens
  <2> QED
    BY <1>3, <1>8, <1>9, <2>1 DEF TokenInv, NewTokens
<1>16. BrowsersApart'
  <2>1. ASSUME NEW x \in Refreshes', NEW b \in Browsers,
               x.by # Gone, jar[b].refresh = x.refresh, x.refresh # 0
        PROVE  b = B(x.by)
    BY <1>2, <1>3, <1>8, <2>1 DEF TokenInv, BrowsersApart
  <2> QED
    BY <1>3, <2>1 DEF TokenInv, BrowsersApart
<1>17. RefreshesAccounted'
  <2>1. ASSUME r.refresh \in tomb PROVE r.refresh \in Accounted'
    <3>1. CASE r.refresh \in Accounted
      BY <1>12, <3>1
    <3>2. CASE \E x \in Refreshes : x.refresh = r.refresh
      BY <1>13, <3>2
    <3> QED
      BY <1>2, <1>3, <2>1, <3>1, <3>2 DEF TokenInv, JarsAccounted
  <2>2. ASSUME NEW x \in Refreshes'
        PROVE  /\ x.by = Gone => x.refresh \in Accounted'
               /\ x.st = "sent" /\ x.refresh \in tomb => x.refresh \in Accounted'
    BY <1>2, <1>3, <1>8, <1>12, <2>1 DEF TokenInv, RefreshesAccounted
  <2>3. ASSUME NEW x \in Refreshes', NEW y \in Refreshes', y # x, y.refresh = x.refresh
        PROVE  x.refresh \in Accounted'
    BY <1>8, <1>12, <1>13, <2>3 DEF TokenInv, RefreshesAccounted
  <2> QED
    BY <1>3, <2>2, <2>3 DEF RefreshesAccounted
<1>18. JarsAccounted'
  BY <1>3, <1>10, <1>12 DEF TokenInv, JarsAccounted
<1> QED
  BY <1>12, <1>14, <1>15, <1>16, <1>17, <1>18 DEF TokenInv, ReuseAccounted, Accounted

\* A browser takes the new token of an answer.
LEMMA NewCookies ==
  ASSUME TypeInv, TokenInv, NEW c \in Tabs, NEW m \in net, m.by = c,
         jar' = [jar EXCEPT ![B(c)] = [access |-> m.tok, refresh |-> m.tok]],
         Refreshes' = Refreshes \ {m}, Bearers' \subseteq Bearers \ {m},
         UNCHANGED <<tomb, history>>,
         \A x \in Refreshes' : x.by # Gone => tab'[x.by].refreshing = "yes"
  PROVE  TokenInv'
<1>1. /\ B(c) \in Browsers /\ DOMAIN jar = Browsers /\ c # Gone
      /\ 0 \notin tomb /\ (m.tok # 0 => m \in Bearers)
  BY SessionsAssumption, TabTyped
  DEF TypeInv, TypeOK, Tokens, Bearers, SessionsAssumption
<1>2. /\ jar'[B(c)].refresh = m.tok
      /\ \A b \in Browsers : b # B(c) => jar'[b] = jar[b]
  BY <1>1
<1>3. /\ m.tok \notin tomb
      /\ m.tok # 0 => /\ \A b \in Browsers : jar[b].refresh # m.tok
                      /\ \A x \in Refreshes : x.refresh # m.tok
                      /\ \A x \in Bearers \ {m} : x.tok # m.tok
  BY <1>1 DEF TokenInv, NewTokens
<1>4. OneRefresh'
  BY DEF TokenInv, OneRefresh
<1>5. NewTokens'
  <2>1. ASSUME NEW x \in Bearers \ {m}, NEW b \in Browsers PROVE jar'[b].refresh # x.tok
    <3>1. CASE b # B(c)
      BY <1>2, <2>1, <3>1 DEF TokenInv, NewTokens
    <3>2. CASE b = B(c)
      BY <1>2, <1>3, <2>1, <3>2 DEF Bearers
    <3> QED
      BY <3>1, <3>2
  <2> QED
    BY <2>1 DEF TokenInv, NewTokens
<1>6. BrowsersApart'
  <2>1. ASSUME NEW a \in Browsers, NEW b \in Browsers,
               jar'[a].refresh = jar'[b].refresh, jar'[a].refresh # 0
        PROVE  a = b
    BY <1>2, <1>3, <2>1 DEF TokenInv, BrowsersApart
  <2>2. ASSUME NEW x \in Refreshes \ {m}, NEW b \in Browsers,
               x.by # Gone, jar'[b].refresh = x.refresh, x.refresh # 0
        PROVE  b = B(x.by)
    BY <1>2, <1>3, <2>2 DEF TokenInv, BrowsersApart
  <2> QED
    BY <2>1, <2>2 DEF BrowsersApart
<1>7. Accounted' = Accounted
  BY DEF Accounted
<1>8. RefreshesAccounted'
  BY <1>7 DEF TokenInv, RefreshesAccounted
<1>9. JarsAccounted'
  <2> SUFFICES ASSUME NEW b \in Browsers, jar'[b].refresh \in tomb,
                      jar'[b].refresh \notin Accounted
               PROVE  \E x \in Refreshes \ {m} :
                        /\ x.refresh = jar'[b].refresh /\ x.by # Gone
                        /\ x.st = "answered" /\ x.code = "ok"
    BY <1>7 DEF JarsAccounted
  <2>1. b # B(c) /\ jar'[b] = jar[b]
    BY <1>2, <1>3
  <2>2. PICK x \in Refreshes : /\ x.refresh = jar[b].refresh /\ x.by # Gone
                               /\ x.st = "answered" /\ x.code = "ok"
    BY <2>1 DEF TokenInv, JarsAccounted
  <2>3. b = B(x.by)
    BY <1>1, <2>1, <2>2 DEF TokenInv, BrowsersApart
  <2> QED
    BY <2>1, <2>2, <2>3
<1> QED
  BY <1>4, <1>5, <1>6, <1>8, <1>9 DEF TokenInv, ReuseAccounted

LEMMA SettledKeeps ==
  ASSUME TypeInv, TokenInv, NEW c \in Tabs, NEW m \in net, Settled(c, m)
  PROVE  TokenInv'
<1> DEFINE waiting == {n \in net : n.by = c /\ n.st = "waiting"}
           again == {Again(c, m, n) : n \in waiting}
<1>1. /\ m.by = c /\ m.op = "refresh" /\ m \in Refreshes /\ UNCHANGED <<tomb, history>>
      /\ c # Gone /\ tab \in [Tabs -> TabType]
  BY SessionsAssumption, TabTyped
  DEF Settled, Settles, server, Refreshes, SessionsAssumption
<1>2. \A x \in waiting : x.op # "refresh" /\ x.tok = 0
  BY DEF TypeInv, Fits
<1>3. \A x \in Refreshes : x.by # Gone => x.by \in Tabs
  BY DEF Refreshes, TypeInv, TypeOK, CallType
<1>4. \A d \in Tabs : d # c => tab'[d].refreshing = tab[d].refreshing
  BY <1>1 DEF Settled, TabType
<1>5. \A x \in Refreshes \ {m} : x.by # Gone => tab'[x.by].refreshing = "yes"
  BY <1>1, <1>3, <1>4 DEF TokenInv, OneRefresh
<1>6. CASE m.code = "ok"
  <2>1. net' = (net \ (waiting \union {m})) \union again
    BY <1>6 DEF Settled, Again
  <2>2. \A x \in again : x.op # "refresh" /\ x.tok = 0
    BY <1>2, AgainTyped
  <2> HIDE DEF waiting, again
  <2>3. Refreshes' = Refreshes \ {m}
    BY <1>2, <2>1, <2>2 DEF Refreshes
  <2>4. Bearers' \subseteq Bearers \ {m}
    BY <2>1, <2>2 DEF Bearers
  <2>5. jar' = [jar EXCEPT ![B(c)] = [access |-> m.tok, refresh |-> m.tok]]
    BY <1>6 DEF Settled
  <2> QED
    BY <1>1, <1>5, <2>3, <2>4, <2>5, NewCookies
<1>7. CASE m.code # "ok"
  <2>1. net' = net \ (waiting \union {m}) /\ UNCHANGED jar
    BY <1>7 DEF Settled
  <2>2. Refreshes' = Refreshes \ {m} /\ Refreshes \ net' = {m}
    BY <1>1, <1>2, <2>1 DEF Refreshes
  <2> QED
    BY <1>1, <1>5, <1>7, <2>1, <2>2, Dropped
<1> QED
  BY <1>6, <1>7

LEMMA HeardKeeps ==
  ASSUME TypeInv, TokenInv, NEW c \in Tabs, NEW m \in net, Heard(c, m)
  PROVE  TokenInv'
<1>1. /\ m.by = c /\ m.op # "refresh" /\ net' = net \ {m} /\ UNCHANGED tomb /\ Fits(m)
      /\ tab \in [Tabs -> TabType] /\ B(c) \in Browsers /\ history \in HistoryType
      /\ DOMAIN jar = Browsers
  BY TabTyped DEF Heard, server, TypeInv
<1>2. Refreshes' = Refreshes
  BY <1>1 DEF Refreshes
<1>3. \A x \in Refreshes : x.by # Gone => tab'[x.by].refreshing = "yes"
  <2>1. \A x \in Refreshes : x.by # Gone => x.by \in Tabs
    BY DEF Refreshes, TypeInv, TypeOK, CallType
  <2>2. \A d \in Tabs : tab'[d].refreshing = tab[d].refreshing
    BY <1>1 DEF Heard, TabType
  <2> QED
    BY <2>1, <2>2 DEF TokenInv, OneRefresh
<1>4. CASE m.code = "ok" /\ m.op = "login"
  <2>1. jar' = [jar EXCEPT ![B(c)] = [access |-> m.tok, refresh |-> m.tok]]
        /\ UNCHANGED history
    BY <1>4 DEF Heard
  <2>2. Refreshes' = Refreshes \ {m} /\ Bearers' \subseteq Bearers \ {m}
    BY <1>1, <1>2 DEF Refreshes, Bearers
  <2> QED
    BY <1>1, <1>2, <1>3, <2>1, <2>2, NewCookies
<1>5. CASE ~(m.code = "ok" /\ m.op = "login")
  <2>1. m.tok = 0
    BY <1>1, <1>5 DEF Fits, Renewing
  <2>2. Bearers' = Bearers
    BY <1>1, <2>1 DEF Bearers
  <2>3. \A b \in Browsers : jar'[b].refresh \in {jar[b].refresh, 0}
    BY <1>1, <1>5 DEF Heard, NoJar
  <2>4. Accounted' = Accounted /\ history'.reused = history.reused
    BY <1>1 DEF Heard, Accounted, HistoryType
  <2> QED
    BY <1>1, <1>2, <1>3, <2>2, <2>3, <2>4, NothingNew DEF TokenInv, ReuseAccounted, Accounted
<1> QED
  BY <1>4, <1>5

\* A reload gives up the refresh of its tab.
LEMMA ReloadKeeps ==
  ASSUME TypeInv, TokenInv, NEW c \in Tabs, Reload(c)
  PROVE  TokenInv'
<1> DEFINE mine == {m \in net : m.by = c}
           sent == {[m EXCEPT !.by = Gone] : m \in {n \in mine : n.st # "waiting"}}
           me == IF jar[B(c)] # NoJar THEN {Call(c, "me")} ELSE {}
           lost == {m.refresh : m \in {n \in mine : n.op = "refresh"}}
<1>1. /\ UNCHANGED <<tomb, jar>> /\ c # Gone /\ history \in HistoryType
      /\ tab \in [Tabs -> TabType]
      /\ history' = [history EXCEPT !.unheard = @ \union lost]
  BY SessionsAssumption
  DEF Reload, server, SessionsAssumption, TypeInv, TypeOK, HistoryType, TabType
<1>2. net' = (net \ mine) \union sent \union me
  BY DEF Reload
<1>3. \A x \in me : x.op # "refresh" /\ x.tok = 0
  BY CallTyped DEF Ops
<1>4. /\ Accounted \subseteq Accounted' /\ history'.reused = history.reused
      /\ \A o \in Refreshes : o.by = c => o.refresh \in Accounted'
  BY <1>1 DEF Accounted, HistoryType, Refreshes
<1>5. ASSUME NEW x \in Refreshes'
      PROVE  \/ x \in Refreshes /\ x.by # c
             \/ /\ x.by = Gone
                /\ \E o \in Refreshes : o.by = c /\ x.refresh = o.refresh
  <2>1. x \in net' /\ x.op = "refresh"
    BY DEF Refreshes
  <2>2. CASE x \in net \ mine
    BY <2>1, <2>2 DEF Refreshes
  <2>3. CASE x \in sent
    <3>1. PICK o \in mine : x = [o EXCEPT !.by = Gone]
      BY <2>3
    <3>2. o \in CallType
      BY <3>1 DEF TypeInv, TypeOK
    <3>3. x.by = Gone /\ x.refresh = o.refresh /\ o.op = "refresh"
      BY <2>1, <3>1, <3>2 DEF CallType
    <3> QED
      BY <3>1, <3>3 DEF Refreshes
  <2> QED
    BY <1>2, <1>3, <2>1, <2>2, <2>3
<1>6. ASSUME NEW x \in Bearers'
      PROVE  \E o \in Bearers : /\ x.tok = o.tok
                                /\ \/ x = o /\ o.by # c
                                   \/ o.by = c /\ x = [o EXCEPT !.by = Gone]
  <2>1. x \in net' /\ x.tok # 0
    BY DEF Bearers
  <2>2. CASE x \in net \ mine
    BY <2>1, <2>2 DEF Bearers
  <2>3. CASE x \in sent
    <3>1. PICK o \in mine : x = [o EXCEPT !.by = Gone]
      BY <2>3
    <3>2. x.tok = o.tok
      BY <3>1 DEF TypeInv, TypeOK, CallType
    <3> QED
      BY <2>1, <3>1, <3>2 DEF Bearers
  <2> QED
    BY <1>2, <1>3, <2>1, <2>2, <2>3
<1>7. \A x \in net : x.by # c => x \in net'
  BY <1>2
<1> HIDE DEF mine, sent, me, lost
<1>8. OneRefresh'
  <2>1. \A d \in Tabs : d # c => tab'[d] = tab[d]
    BY <1>1 DEF Reload
  <2>2. \A x \in Refreshes : x.by # Gone => x.by \in Tabs
    BY DEF Refreshes, TypeInv, TypeOK, CallType
  <2> QED
    BY <1>5, <2>1, <2>2 DEF TokenInv, OneRefresh
<1>9. NewTokens'
  <2>1. ASSUME NEW x \in Bearers'
        PROVE  /\ x.tok \notin tomb /\ \A b \in Browsers : jar[b].refresh # x.tok
               /\ \A y \in Refreshes' : y.refresh # x.tok
    BY <1>5, <1>6 DEF TokenInv, NewTokens
  <2>2. ASSUME NEW x \in Bearers', NEW y \in Bearers', y # x PROVE y.tok # x.tok
    <3>1. PICK o \in Bearers : /\ x.tok = o.tok
                               /\ \/ x = o /\ o.by # c
                                  \/ o.by = c /\ x = [o EXCEPT !.by = Gone]
      BY <1>6
    <3>2. PICK q \in Bearers : /\ y.tok = q.tok
                               /\ \/ y = q /\ q.by # c
                                  \/ q.by = c /\ y = [q EXCEPT !.by = Gone]
      BY <1>6
    <3>3. o # q
      BY <2>2, <3>1, <3>2
    <3> QED
      BY <3>1, <3>2, <3>3 DEF TokenInv, NewTokens
  <2> QED
    BY <1>1, <2>1, <2>2 DEF NewTokens
<1>10. BrowsersApart'
  BY <1>1, <1>5 DEF TokenInv, BrowsersApart
<1>11. RefreshesAccounted'
  <2>1. ASSUME NEW x \in Refreshes', NEW y \in Refreshes', y # x, y.refresh = x.refresh
        PROVE  x.refresh \in Accounted'
    BY <1>4, <1>5, <2>1 DEF TokenInv, RefreshesAccounted
  <2>2. ASSUME NEW x \in Refreshes'
        PROVE  /\ x.by = Gone => x.refresh \in Accounted'
               /\ x.st = "sent" /\ x.refresh \in tomb => x.refresh \in Accounted'
    BY <1>4, <1>5 DEF TokenInv, RefreshesAccounted
  <2> QED
    BY <1>1, <2>1, <2>2 DEF RefreshesAccounted
<1>12. JarsAccounted'
  <2>1. \A x \in Refreshes : x.by # c => x \in Refreshes'
    BY <1>7 DEF Refreshes
  <2> QED
    BY <1>1, <1>4, <2>1 DEF TokenInv, JarsAccounted
<1> QED
  BY <1>4, <1>8, <1>9, <1>10, <1>11, <1>12 DEF TokenInv, ReuseAccounted, Accounted

\* The server's steps: every reuse is of a token that is accounted for.
LEMMA WorkKeeps ==
  ASSUME TypeInv, TokenInv, NEW m \in net, Work(m)
  PROVE  TokenInv'
<1>1. /\ m \in CallType /\ Fits(m) /\ history \in HistoryType /\ minted \in Nat
      /\ history.reused \subseteq Accounted
  BY DEF TypeInv, TypeOK, HistoryType, TokenInv, ReuseAccounted, Accounted
<1>2. ASSUME NEW n, Becomes(m, n), n.op = m.op, n.by = m.by, n.refresh = m.refresh,
             n.tok = 0, n.st # "sent", m.st # "answered",
             UNCHANGED <<tomb, jar, tab>>, Accounted' = Accounted,
             history'.reused \subseteq Accounted'
      PROVE  TokenInv'
  BY <1>2, GetsOn
<1>3. ASSUME NEW code \in {"ok", "401", "403"}, Becomes(m, Answer(m, code, 0)),
             m.st # "answered",
             UNCHANGED <<tomb, jar, tab>>, Accounted' = Accounted,
             history'.reused \subseteq Accounted'
      PROVE  TokenInv'
  <2>1. PICK n : n = Answer(m, code, 0)
    OBVIOUS
  <2>2. /\ n.op = m.op /\ n.by = m.by /\ n.refresh = m.refresh /\ n.tok = 0
        /\ n.st = "answered"
    BY <2>1, <1>1, AnswerTyped
  <2> QED
    BY <1>2, <1>3, <2>1, <2>2
<1>4. UNCHANGED history => Accounted' = Accounted /\ history'.reused \subseteq Accounted'
  BY <1>1 DEF Accounted
<1>5. CASE Serve(m)
  <2>1. PICK code \in {"ok", "401"} : Becomes(m, Answer(m, code, 0))
    BY <1>5 DEF Serve
  <2> QED
    BY <1>3, <1>4, <1>5, <2>1 DEF Serve, Served, server
<1>6. CASE Login(m)
  <2>1. CASE active
    <3>1. PICK n : n = Answer(m, "ok", minted + 1)
      OBVIOUS
    <3>2. /\ n.op = m.op /\ n.by = m.by /\ n.refresh = m.refresh /\ n.tok = minted + 1
          /\ n.st = "answered" /\ n.code = "ok"
      BY <1>1, <3>1, AnswerTyped
    <3> QED
      BY <1>6, <2>1, <3>1, <3>2, MintKeeps DEF Login
  <2>2. CASE ~active
    BY <1>3, <1>4, <1>6, <2>2 DEF Login
  <2> QED
    BY <2>1, <2>2
<1>7. CASE ResolveRefresh(m)
  <2>1. m.op = "refresh" /\ m.st = "sent" /\ UNCHANGED <<tomb, jar, tab>> /\ m.tok = 0
    BY <1>1, <1>7 DEF ResolveRefresh, server, Fits
  <2>2. \/ history' = history
        \/ /\ history' = [history EXCEPT !.reused = @ \union {m.refresh}]
           /\ m.refresh \in tomb
    BY <1>7 DEF ResolveRefresh
  <2>3. Accounted' = Accounted
    BY <1>1, <2>2 DEF Accounted, HistoryType
  <2>4. history'.reused \subseteq Accounted'
    <3>1. m.refresh \in tomb => m.refresh \in Accounted
      BY <2>1 DEF TokenInv, RefreshesAccounted, Refreshes
    <3> QED
      BY <1>1, <2>2, <2>3, <3>1 DEF HistoryType
  <2>5. CASE Becomes(m, [m EXCEPT !.st = "resolved"])
    <3>1. PICK n : n = [m EXCEPT !.st = "resolved"]
      OBVIOUS
    <3>2. /\ n.op = m.op /\ n.by = m.by /\ n.refresh = m.refresh /\ n.tok = 0
          /\ n.st = "resolved"
      BY <1>1, <2>1, <3>1 DEF CallType
    <3> QED
      BY <1>2, <2>1, <2>3, <2>4, <2>5, <3>1, <3>2
  <2>6. CASE Becomes(m, [m EXCEPT !.st = "revoking", !.todo = live])
    <3>1. PICK n : n = [m EXCEPT !.st = "revoking", !.todo = live]
      OBVIOUS
    <3>2. /\ n.op = m.op /\ n.by = m.by /\ n.refresh = m.refresh /\ n.tok = 0
          /\ n.st = "revoking"
      BY <1>1, <2>1, <3>1 DEF CallType
    <3> QED
      BY <1>2, <2>1, <2>3, <2>4, <2>6, <3>1, <3>2
  <2>7. CASE Becomes(m, Answer(m, "401", 0))
    BY <1>3, <2>1, <2>3, <2>4, <2>7
  <2> QED
    BY <1>7, <2>5, <2>6, <2>7 DEF ResolveRefresh
<1>8. CASE Rotate(m)
  <2>1. PICK n : n = Answer(m, "ok", minted + 1)
    OBVIOUS
  <2>2. /\ n.op = m.op /\ n.by = m.by /\ n.refresh = m.refresh /\ n.tok = minted + 1
        /\ n.st = "answered" /\ n.code = "ok"
    BY <1>1, <2>1, AnswerTyped
  <2>3. m.op = "refresh" /\ m.st = "resolved" /\ tomb' = tomb \union {m.refresh}
    BY <1>1, <1>8 DEF Rotate, Fits
  <2> QED
    BY <1>8, <2>1, <2>2, <2>3, MintKeeps DEF Rotate
<1>9. CASE Logout(m)
  <2>1. PICK code \in {"ok", "401"} : Becomes(m, Answer(m, code, 0))
    BY <1>9 DEF Logout
  <2> QED
    BY <1>3, <1>4, <1>9, <2>1 DEF Logout, Served
<1>10. CASE RevokeOthers(m)
  <2>1. m.st = "sent" /\ m.tok = 0 /\ UNCHANGED <<tomb, jar, tab, history>>
    BY <1>1, <1>10 DEF RevokeOthers, Served, server, Fits
  <2>2. CASE Becomes(m, [m EXCEPT !.st = "revoking", !.todo = Others(m)])
    <3>1. PICK n : n = [m EXCEPT !.st = "revoking", !.todo = Others(m)]
      OBVIOUS
    <3>2. /\ n.op = m.op /\ n.by = m.by /\ n.refresh = m.refresh /\ n.tok = 0
          /\ n.st = "revoking"
      BY <1>1, <2>1, <3>1 DEF CallType
    <3> QED
      BY <1>2, <1>4, <2>1, <2>2, <3>1, <3>2
  <2>3. CASE Becomes(m, Answer(m, "401", 0))
    BY <1>3, <1>4, <2>1, <2>3
  <2> QED
    BY <1>10, <2>2, <2>3 DEF RevokeOthers
<1>11. CASE RevokeNext(m)
  <2>1. m.st = "revoking" /\ m.tok = 0 /\ UNCHANGED <<tomb, jar, tab>>
    BY <1>1, <1>11 DEF RevokeNext, Fits
  <2>2. history' = history \/ history' = [history EXCEPT !.cut = @ \union {m.raced}]
    BY <1>11 DEF RevokeNext
  <2>3. Accounted' = Accounted /\ history'.reused \subseteq Accounted'
    BY <1>1, <2>2 DEF Accounted, HistoryType
  <2>4. CASE \E t \in m.todo : Becomes(m, [m EXCEPT !.todo = @ \ {t}])
    <3>0. PICK t \in m.todo : Becomes(m, [m EXCEPT !.todo = @ \ {t}])
      BY <2>4
    <3>1. PICK n : n = [m EXCEPT !.todo = @ \ {t}]
      OBVIOUS
    <3>2. /\ n.op = m.op /\ n.by = m.by /\ n.refresh = m.refresh /\ n.tok = 0
          /\ n.st = "revoking"
      BY <1>1, <2>1, <3>1 DEF CallType
    <3> QED
      BY <1>2, <2>1, <2>3, <3>0, <3>1, <3>2
  <2>5. CASE \E code \in {"ok", "401"} : Becomes(m, Answer(m, code, 0))
    BY <1>3, <2>1, <2>3, <2>5
  <2> QED
    BY <1>11, <2>4, <2>5 DEF RevokeNext
<1> QED
  BY <1>5, <1>6, <1>7, <1>8, <1>9, <1>10, <1>11 DEF Work

\* A tab hears of a 401.
LEMMA UnauthorizedKeeps ==
  ASSUME TypeInv, TokenInv, NEW c \in Tabs, NEW m \in net, Unauthorized(c, m)
  PROVE  TokenInv'
<1>1. /\ m \in CallType /\ Fits(m) /\ m.by = c /\ m.op # "refresh" /\ m.tok = 0
      /\ UNCHANGED <<tomb, jar>> /\ tab \in [Tabs -> TabType]
      /\ history.reused \subseteq Accounted
  BY TabTyped DEF Unauthorized, server, Guarded, Ending, TypeInv, TypeOK, Fits,
                  TokenInv, ReuseAccounted, Accounted
<1>2. CASE InFlight(c) = "no"
  BY <1>2, RefreshStarts DEF Unauthorized, InFlight
<1>3. CASE InFlight(c) = "yes"
  <2>1. PICK n : n = [m EXCEPT !.st = "waiting"]
    OBVIOUS
  <2>2. n.op = m.op /\ n.by = m.by /\ n.refresh = m.refresh /\ n.tok = 0 /\ n.st = "waiting"
    BY <1>1, <2>1 DEF CallType
  <2>3. Becomes(m, n) /\ UNCHANGED <<tab, history>>
    BY <1>3, <2>1 DEF Unauthorized
  <2> QED
    BY <1>1, <2>2, <2>3, GetsOn DEF Accounted
<1>4. CASE InFlight(c) \in {"ok", "failed"}
  <2>1. /\ UNCHANGED history
        /\ \A d \in Tabs : tab'[d].refreshing = tab[d].refreshing
    BY <1>1, <1>4 DEF Unauthorized, Fail, TabType
  <2>2. \A x \in Refreshes : x.by # Gone => x.by \in Tabs
    BY DEF Refreshes, TypeInv, TypeOK, CallType
  <2>3. \A x \in Refreshes : x.by # Gone => tab'[x.by].refreshing = "yes"
    BY <2>1, <2>2 DEF TokenInv, OneRefresh
  <2>4. Refreshes' = Refreshes /\ Bearers' = Bearers
    <3>1. CASE Send(c, {Retried(m)}, {m})
      <4>1. Retried(m) \in CallType /\ Retried(m).op # "refresh" /\ Retried(m).tok = 0
        BY <1>1, RetriedTyped
      <4> QED
        BY <1>1, <3>1, <4>1, SendElsewhere
    <3>2. CASE net' = net \ {m}
      BY <1>1, <3>2 DEF Refreshes, Bearers
    <3> QED
      BY <1>4, <3>1, <3>2 DEF Unauthorized
  <2> QED
    BY <1>1, <2>1, <2>3, <2>4, NothingNew DEF Accounted
<1>5. InFlight(c) \in {"no", "yes", "ok", "failed"}
  BY <1>1 DEF InFlight, TabType
<1> QED
  BY <1>2, <1>3, <1>4, <1>5

\* The steps that touch neither refreshes nor new tokens, and the losses.
LEMMA OtherStepsKeep ==
  ASSUME TypeInv, TokenInv,
         \/ \E c \in Tabs : Shell(c) \/ Forget(c) \/ \E op \in Ops : Act(c, op)
         \/ \E m \in net : Discarded(m) \/ Lose(m)
         \/ Expire
         \/ UNCHANGED vars
  PROVE  TokenInv'
<1>1. /\ tab \in [Tabs -> TabType] /\ history \in HistoryType
      /\ history.reused \subseteq Accounted
      /\ \A x \in Refreshes : x.by # Gone => x.by \in Tabs
  BY DEF TypeInv, TypeOK, HistoryType, TabType, TokenInv, ReuseAccounted, Accounted,
         Refreshes, CallType
<1>2. ASSUME Refreshes' = Refreshes, Bearers' = Bearers, tomb' \subseteq tomb,
             UNCHANGED jar, Accounted' = Accounted, history'.reused = history.reused,
             \A d \in Tabs : tab[d].refreshing = "yes" => tab'[d].refreshing = "yes"
      PROVE  TokenInv'
  <2>1. \A x \in Refreshes : x.by # Gone => tab'[x.by].refreshing = "yes"
    BY <1>1, <1>2 DEF TokenInv, OneRefresh
  <2> QED
    BY <1>1, <1>2, <2>1, NothingNew
<1>3. ASSUME NEW c \in Tabs, NEW op \in Ops, Act(c, op) PROVE TokenInv'
  <2>1. op # "refresh"
    BY <1>3 DEF Act, Ending
  <2>2. Refreshes' = Refreshes /\ Bearers' = Bearers
    <3>1. CASE net' = net
      BY <3>1 DEF Refreshes, Bearers
    <3>2. CASE Send(c, {Call(c, op)}, {})
      <4>1. Call(c, op) \in CallType /\ Call(c, op).op # "refresh" /\ Call(c, op).tok = 0
        BY <2>1, CallTyped
      <4> QED
        BY <3>2, <4>1, SendElsewhere
    <3> QED
      BY <1>3, <3>1, <3>2 DEF Act
  <2>3. Accounted' = Accounted /\ history'.reused = history.reused
    BY <1>1, <1>3 DEF Act, Accounted, HistoryType
  <2>4. \A d \in Tabs : tab'[d].refreshing = tab[d].refreshing
    BY <1>1, <1>3 DEF Act, TabType
  <2> QED
    BY <1>2, <1>3, <2>2, <2>3, <2>4 DEF Act, server
<1>4. ASSUME NEW c \in Tabs, Shell(c) PROVE TokenInv'
  <2>1. Refreshes' = Refreshes /\ Bearers' = Bearers
    <3>1. CASE net' = net
      BY <3>1 DEF Refreshes, Bearers
    <3>2. CASE Send(c, {Call(c, "me")}, {})
      <4>1. Call(c, "me") \in CallType /\ Call(c, "me").op # "refresh" /\ Call(c, "me").tok = 0
        BY CallTyped DEF Ops
      <4> QED
        BY <3>2, <4>1, SendElsewhere
    <3> QED
      BY <1>4, <3>1, <3>2 DEF Shell
  <2>2. \A d \in Tabs : tab'[d].refreshing = tab[d].refreshing
    BY <1>1, <1>4 DEF Shell, Fail, TabType
  <2> QED
    BY <1>2, <1>4, <2>1, <2>2 DEF Shell, server, Accounted
<1>5. ASSUME NEW c \in Tabs, Forget(c) PROVE TokenInv'
  <2>1. \A d \in Tabs : tab[d].refreshing = "yes" => tab'[d].refreshing = "yes"
    BY <1>1, <1>5 DEF Forget, TabType
  <2> QED
    BY <1>2, <1>5, <2>1 DEF Forget, server, Accounted, Refreshes, Bearers
<1>6. CASE Expire
  BY <1>2, <1>6 DEF Expire, Accounted, Refreshes, Bearers
<1>7. ASSUME NEW m \in net, Discarded(m) PROVE TokenInv'
  <2>1. \A x \in Refreshes \ net' : x.by = Gone
    BY <1>7 DEF Discarded, Refreshes
  <2>2. net' \subseteq net /\ UNCHANGED <<tomb, jar, tab, history>>
    BY <1>7 DEF Discarded, server
  <2>3. \A x \in Refreshes' : x.by # Gone => tab'[x.by].refreshing = "yes"
    BY <2>2 DEF TokenInv, OneRefresh, Refreshes
  <2> QED
    BY <2>1, <2>2, <2>3, Dropped
<1>8. ASSUME NEW m \in net, Lose(m) PROVE TokenInv'
  <2>1. PICK n : n = Answer(m, "lost", 0)
    OBVIOUS
  <2>2. n.op = m.op /\ n.by = m.by /\ n.refresh = m.refresh /\ n.tok = 0 /\ n.st = "answered"
    BY <2>1, AnswerTyped
  <2>3. /\ Becomes(m, n) /\ UNCHANGED <<tomb, jar, tab>>
        /\ history' = IF m.op = "refresh" /\ m.code = "ok"
                        THEN [history EXCEPT !.unheard = @ \union {m.refresh}]
                        ELSE history
    BY <1>8, <2>1 DEF Lose, server
  <2>4. /\ Accounted \subseteq Accounted' /\ history'.reused = history.reused
        /\ m.op = "refresh" /\ m.code = "ok" => m.refresh \in Accounted'
    BY <1>1, <2>3 DEF Accounted, HistoryType
  <2> QED
    BY <1>1, <2>2, <2>3, <2>4, GetsOn
<1>9. CASE UNCHANGED vars
  BY <1>2, <1>9 DEF vars, Accounted, Refreshes, Bearers
<1> QED
  BY <1>3, <1>4, <1>5, <1>6, <1>7, <1>8, <1>9

LEMMA NextTokenInv == TypeInv /\ TokenInv /\ [Next]_vars => TokenInv'
<1> SUFFICES ASSUME TypeInv, TokenInv, [Next]_vars PROVE TokenInv'
  OBVIOUS
<1>1. ASSUME NEW m \in net, Work(m) PROVE TokenInv'
  BY <1>1, WorkKeeps
<1>2. ASSUME NEW c \in Tabs, NEW m \in net, Hear(c, m) PROVE TokenInv'
  BY <1>2, UnauthorizedKeeps, SettledKeeps, HeardKeeps DEF Hear
<1>3. ASSUME NEW c \in Tabs, Reload(c) PROVE TokenInv'
  BY <1>3, ReloadKeeps
<1> QED
  BY <1>1, <1>2, <1>3, OtherStepsKeep DEF Next

\* Every browser starts in a session of its own, and nothing was rotated.
LEMMA InitTokenInv == Init => TokenInv
<1> SUFFICES ASSUME Init PROVE TokenInv
  OBVIOUS
<1>1. Refreshes = {} /\ Bearers = {} /\ tomb = {} /\ history.reused = {}
  BY DEF Init, Refreshes, Bearers
<1>2. PICK first \in [Browsers -> live] :
        /\ \A a, b \in Browsers : first[a] = first[b] => a = b
        /\ jar = [b \in Browsers |-> [access |-> first[b], refresh |-> first[b]]]
  BY DEF Init
<1>3. \A b \in Browsers : jar[b].refresh = first[b]
  BY <1>2
<1> QED
  BY <1>1, <1>2, <1>3 DEF TokenInv, OneRefresh, NewTokens, BrowsersApart,
     RefreshesAccounted, JarsAccounted, ReuseAccounted

\* The theft alarm: however many browsers and tabs, and whatever is lost or
\* expires, the user's own tabs present a rotated token only after two of
\* them were refreshing with it, or after an answer that was never heard.
THEOREM ReusesAreAccounted == Spec => []ReuseAccounted
<1>1. TypeInv /\ TokenInv => ReuseAccounted
  BY DEF TokenInv
<1> QED
  BY <1>1, InitTypeInv, NextTypeInv, InitTokenInv, NextTokenInv, PTL DEF Spec

-----------------------------------------------------------------------------
(* Endings: logouts and revocations.  One that no login and no refresh of  *)
(* its browser overlapped still names the session of its browser's jar, and *)
(* none is about to replace it.                                            *)

\* What the answer of an ending, and its list, can be.
Legal(m) ==
  /\ m.st = "waiting" => m.op \in Guarded
  /\ m.st = "revoking" /\ m.op \in Ending => m.op = "others" /\ m.refresh \notin m.todo
  /\ m.op = "logout" /\ m.st = "answered" /\ m.code = "ok" => m.refresh \notin live

Alone(m) == m.op \in Ending /\ m.by # Gone /\ m.st # "waiting" /\ ~m.raced

EndingsApart ==
  \A m \in net : Alone(m) =>
    /\ jar[B(m.by)].refresh \in {m.refresh, 0}
    /\ UnderWay(B(m.by), Renewing) = {}

\* A browser that logged out holds nothing and refreshes with nothing.
SignedOut ==
  \A b \in history.out :
    /\ jar[b] = NoJar
    /\ history.kept[b] \in Some \ live
    /\ \A m \in UnderWay(b, Renewing) : m.op = "refresh" /\ m.refresh = 0

EndInv ==
  /\ \A m \in net : Legal(m)
  /\ EndingsApart /\ SignedOut /\ OwnSessionKept

\* n is a call that was there: it got on, or lost its tab, or was marked.
Ages(n) ==
  \E m \in net :
    /\ n.op = m.op /\ n.refresh = m.refresh /\ n.by \in {m.by, Gone}
    /\ n.st # "waiting" => m.st # "waiting"
    /\ m.raced => n.raced

\* n is new: an ending starts with the jar's token, and is alone or marked; a
\* login or a refresh marks the endings, and has no token if its browser is
\* signed out.
Starts(n) ==
  /\ n.by \in Tabs /\ n.st # "waiting"
  /\ n.op \in Ending =>
       /\ n.refresh = jar'[B(n.by)].refresh
       /\ n.raced \/ UnderWay(B(n.by), Renewing)' = {}
  /\ n.op \in Renewing =>
       /\ \A x \in net' : Alone(x) => B(x.by) # B(n.by)
       /\ B(n.by) \in history'.out => n.op = "refresh" /\ n.refresh = 0

\* The general step: calls age or start; jars are emptied, or filled by a
\* renewal that was under way; no token comes back to life.
LEMMA EndKept ==
  ASSUME TypeInv, EndInv,
         \A n \in net' : (Ages(n) \/ Starts(n)) /\ Legal(n)',
         \A b \in Browsers :
           \/ jar'[b] = jar[b] \/ jar'[b] = NoJar
           \/ UnderWay(b, Renewing) # {} /\ b \notin history.out,
         live' \subseteq live \union {minted + 1}, Tokens \subseteq Tokens',
         history'.out \subseteq Browsers,
         \A b \in history'.out :
           \/ b \in history.out /\ history'.kept[b] = history.kept[b]
           \/ /\ jar'[b] = NoJar /\ history'.kept[b] \in Some \ live
              /\ UnderWay(b, Renewing) = {},
         FALSE \notin history'.cut
  PROVE  EndInv'
<1>1. minted + 1 \notin Some /\ Some \subseteq Some'
  BY DEF TypeInv, TypeOK, Some, Tokens
<1>2. ASSUME NEW b, NEW u \in UnderWay(b, Renewing)'
      PROVE  \/ Starts(u) /\ B(u.by) = b /\ u.op \in Renewing
             \/ \E v \in UnderWay(b, Renewing) : v.op = u.op /\ v.refresh = u.refresh
  <2>1. u \in net' /\ u.op \in Renewing /\ u.by # Gone /\ u.st # "waiting" /\ B(u.by) = b
    BY DEF UnderWay
  <2>2. CASE Ages(u)
    <3>1. PICK v \in net : /\ u.op = v.op /\ u.refresh = v.refresh /\ u.by \in {v.by, Gone}
                           /\ u.st # "waiting" => v.st # "waiting"
      BY <2>2 DEF Ages
    <3>2. v \in UnderWay(b, Renewing)
      BY <2>1, <3>1 DEF UnderWay
    <3> QED
      BY <3>1, <3>2
  <2> QED
    BY <2>1, <2>2
<1>3. EndingsApart'
  <2> SUFFICES ASSUME NEW n \in net', Alone(n)
               PROVE  /\ jar'[B(n.by)].refresh \in {n.refresh, 0}
                      /\ UnderWay(B(n.by), Renewing)' = {}
    BY DEF EndingsApart, Alone
  <2>1. CASE Starts(n)
    BY <2>1 DEF Starts, Alone
  <2>2. CASE Ages(n)
    <3>1. PICK m \in net : /\ n.op = m.op /\ n.refresh = m.refresh /\ n.by \in {m.by, Gone}
                           /\ n.st # "waiting" => m.st # "waiting"
                           /\ m.raced => n.raced
      BY <2>2 DEF Ages
    <3>2. Alone(m) /\ m.by = n.by
      BY <3>1 DEF Alone
    <3>3. jar[B(n.by)].refresh \in {n.refresh, 0} /\ UnderWay(B(n.by), Renewing) = {}
      BY <3>1, <3>2 DEF EndInv, EndingsApart
    <3>4. B(n.by) \in Browsers
      BY <3>2, SessionsAssumption
      DEF SessionsAssumption, TypeInv, TypeOK, CallType, B, Alone
    <3>5. jar'[B(n.by)].refresh \in {n.refresh, 0}
      BY <3>3, <3>4 DEF NoJar
    <3>6. \A u \in UnderWay(B(n.by), Renewing)' : FALSE
      BY <1>2, <3>3 DEF Starts
    <3> QED
      BY <3>5, <3>6
  <2> QED
    BY <2>1, <2>2
<1>4. SignedOut'
  <2> SUFFICES ASSUME NEW b \in history'.out
               PROVE  /\ jar'[b] = NoJar
                      /\ history'.kept[b] \in Some' \ live'
                      /\ \A u \in UnderWay(b, Renewing)' : u.op = "refresh" /\ u.refresh = 0
    BY DEF SignedOut
  <2>1. /\ jar'[b] = NoJar /\ history'.kept[b] \in Some \ live
        /\ \A v \in UnderWay(b, Renewing) : v.op = "refresh" /\ v.refresh = 0
    BY DEF EndInv, SignedOut
  <2>2. \A u \in UnderWay(b, Renewing)' : u.op = "refresh" /\ u.refresh = 0
    BY <1>2, <2>1 DEF Starts
  <2> QED
    BY <1>1, <2>1, <2>2
<1> QED
  BY <1>3, <1>4 DEF EndInv, OwnSessionKept

\* A call that stays as it was, but for its tab and its mark, stays legal.
LEMMA StaysLegal ==
  ASSUME TypeInv, EndInv, NEW m \in net, NEW n,
         n.op = m.op, n.refresh = m.refresh, n.st = m.st, n.code = m.code, n.todo = m.todo,
         live' \subseteq live \union {minted + 1}
  PROVE  Legal(n)'
<1>1. m.refresh # minted + 1
  BY DEF TypeInv, TypeOK, Fits, Some, Tokens
<1> QED
  BY <1>1 DEF EndInv, Legal

\* The history is that of before, as far as endings go.
Unended ==
  /\ history'.out = history.out /\ history'.kept = history.kept
  /\ FALSE \notin history'.cut

\* One call gets on, by a step of the server or of the network.
LEMMA OneAges ==
  ASSUME TypeInv, EndInv, NEW m \in net, NEW n, Becomes(m, n),
         n.op = m.op, n.by = m.by, n.refresh = m.refresh, n.raced = m.raced,
         n.st # "waiting" => m.st # "waiting", Legal(n)',
         UNCHANGED jar, live' \subseteq live \union {minted + 1}, Tokens \subseteq Tokens',
         Unended
  PROVE  EndInv'
<1>1. net' = (net \ {m}) \union {n}
  BY DEF Becomes
<1>2. ASSUME NEW x \in net' PROVE Ages(x) /\ Legal(x)'
  <2>1. CASE x = n
    BY <2>1 DEF Ages
  <2>2. CASE x \in net
    BY <2>2, StaysLegal DEF Ages
  <2> QED
    BY <1>1, <2>1, <2>2
<1>3. history.out \subseteq Browsers
  BY DEF TypeInv, TypeOK
<1> QED
  BY <1>2, <1>3, EndKept DEF Unended

\* Calls go, and nothing else that matters.
LEMMA SomeGo ==
  ASSUME TypeInv, EndInv, net' \subseteq net, UNCHANGED <<jar, live, minted>>, Unended
  PROVE  EndInv'
<1>1. ASSUME NEW x \in net' PROVE Ages(x) /\ Legal(x)'
  BY StaysLegal DEF Ages
<1>2. history.out \subseteq Browsers /\ Tokens' = Tokens
  BY DEF TypeInv, TypeOK, Tokens
<1> QED
  BY <1>1, <1>2, EndKept DEF Unended

\* A tab sends one call, and may put another to wait.
LEMMA SendKeeps ==
  ASSUME TypeInv, EndInv, NEW c \in Tabs, NEW old, NEW wait \in SUBSET CallType, NEW n,
         Send(c, wait \union {n}, old),
         \A w \in wait : Ages(w) /\ Legal(w)' /\ w.st = "waiting" /\ w.op \notin Renewing,
         n.by = c, n.st = "sent",
         n.op # "data" => n.refresh = jar[B(c)].refresh,
         n.raced = (n.op \in Ending /\ UnderWay(B(c), Renewing) # {}),
         UNCHANGED <<jar, live, minted>>,
         history'.out = history.out \/ history'.out = history.out \ {B(c)},
         n.op = "login" => B(c) \notin history'.out,
         history'.kept = history.kept, FALSE \notin history'.cut
  PROVE  EndInv'
<1> DEFINE g(m) == IF /\ \E x \in wait \union {n} : x.op \in Renewing
                      /\ m \in UnderWay(B(c), Ending)
                     THEN [m EXCEPT !.raced = TRUE] ELSE m
<1>1. net' = (wait \union {n}) \union {g(m) : m \in net \ old}
  BY DEF Send
<1>2. ASSUME NEW m \in net
      PROVE  /\ g(m).op = m.op /\ g(m).refresh = m.refresh /\ g(m).by = m.by
             /\ g(m).st = m.st /\ g(m).code = m.code /\ g(m).todo = m.todo
             /\ m.raced => g(m).raced
             /\ n.op \in Renewing /\ m \in UnderWay(B(c), Ending) => g(m).raced
  BY DEF TypeInv, TypeOK, CallType
<1> HIDE DEF g
<1>3. ASSUME NEW x \in net', x # n
      PROVE  Ages(x) /\ Legal(x)' /\ (n.op \in Renewing /\ Alone(x) => B(x.by) # B(c))
  <2>1. CASE x \in wait
    BY <2>1 DEF Alone
  <2>2. CASE \E m \in net \ old : x = g(m)
    <3>1. PICK m \in net : x = g(m)
      BY <2>2
    <3>2. Ages(x)
      BY <1>2, <3>1 DEF Ages
    <3>3. Legal(x)'
      BY <1>2, <3>1, StaysLegal
    <3>4. n.op \in Renewing /\ Alone(x) => B(x.by) # B(c)
      BY <1>2, <3>1 DEF Alone, UnderWay
    <3> QED
      BY <3>2, <3>3, <3>4
  <2> QED
    BY <1>1, <1>3, <2>1, <2>2
<1>4. Starts(n)
  <2>1. n.op \in Ending => n.refresh = jar'[B(c)].refresh
    BY DEF Ending
  <2>2. ASSUME n.op \in Ending, ~n.raced PROVE UnderWay(B(c), Renewing)' = {}
    <3>1. UnderWay(B(c), Renewing) = {} /\ n.op \notin Renewing
      BY <2>2 DEF Ending, Renewing
    <3>2. ASSUME NEW u \in UnderWay(B(c), Renewing)' PROVE FALSE
      <4>1. u \in net' /\ u # n /\ u \notin wait
        BY <3>1 DEF UnderWay
      <4>2. PICK m \in net : u = g(m)
        BY <1>1, <4>1
      <4>3. m \in UnderWay(B(c), Renewing)
        BY <1>2, <4>2 DEF UnderWay
      <4> QED
        BY <3>1, <4>3
    <3> QED
      BY <3>2
  <2>3. ASSUME n.op \in Renewing
        PROVE  /\ \A x \in net' : Alone(x) => B(x.by) # B(c)
               /\ B(c) \in history'.out => n.op = "refresh" /\ n.refresh = 0
    <3>1. ~Alone(n)
      BY <2>3 DEF Alone, Renewing, Ending
    <3>2. B(c) \in history'.out => n.op = "refresh" /\ jar[B(c)] = NoJar
      BY <2>3 DEF EndInv, SignedOut, Renewing
    <3> QED
      BY <1>3, <2>3, <3>1, <3>2 DEF NoJar
  <2> QED
    BY <2>1, <2>2, <2>3 DEF Starts
<1>5. Legal(n)'
  BY DEF Legal
<1>6. history.out \subseteq Browsers /\ Tokens' = Tokens
  BY DEF TypeInv, TypeOK, Tokens
<1> QED
  BY <1>3, <1>4, <1>5, <1>6, EndKept

LEMMA SendOneKeeps ==
  ASSUME TypeInv, EndInv, NEW c \in Tabs, NEW old, NEW n, Send(c, {n}, old),
         n.by = c, n.st = "sent",
         n.op # "data" => n.refresh = jar[B(c)].refresh,
         n.raced = (n.op \in Ending /\ UnderWay(B(c), Renewing) # {}),
         UNCHANGED <<jar, live, minted>>,
         history'.out = history.out \/ history'.out = history.out \ {B(c)},
         n.op = "login" => B(c) \notin history'.out,
         history'.kept = history.kept, FALSE \notin history'.cut
  PROVE  EndInv'
<1>1. PICK wait \in SUBSET CallType : wait = {}
  OBVIOUS
<1>2. wait \union {n} = {n}
  BY <1>1
<1>3. Send(c, wait \union {n}, old)
  BY <1>2
<1>4. \A w \in wait : Ages(w) /\ Legal(w)' /\ w.st = "waiting" /\ w.op \notin Renewing
  BY <1>1
<1> QED
  BY <1>3, <1>4, SendKeeps

\* The server's steps.  A logout is answered ok once its token is gone, and a
\* revocation of the others spares the token of its caller.
LEMMA WorkEnds ==
  ASSUME TypeInv, EndInv, NEW m \in net, Work(m)
  PROVE  EndInv'
<1>1. /\ m \in CallType /\ Fits(m) /\ Legal(m) /\ history \in HistoryType /\ minted \in Nat
      /\ FALSE \notin history.cut
  BY DEF TypeInv, TypeOK, HistoryType, EndInv, OwnSessionKept
<1>2. /\ minted' = minted => Tokens \subseteq Tokens'
      /\ minted' = minted + 1 => Tokens \subseteq Tokens'
  BY Minting DEF Tokens
<1>3. UNCHANGED history => Unended
  BY <1>1 DEF Unended
<1>4. ASSUME NEW code \in {"ok", "401", "403"}, NEW tok \in Nat,
             Becomes(m, Answer(m, code, tok)), m.st # "waiting",
             m.op = "logout" /\ code = "ok" => m.refresh \notin live',
             UNCHANGED <<jar, history>>, live' \subseteq live \union {minted + 1},
             Tokens \subseteq Tokens'
      PROVE  EndInv'
  <2>1. PICK n : n = Answer(m, code, tok)
    OBVIOUS
  <2>2. /\ n.op = m.op /\ n.by = m.by /\ n.refresh = m.refresh /\ n.raced = m.raced
        /\ n.st = "answered" /\ n.code = code
    BY <2>1, AnswerTyped
  <2>3. Legal(n)'
    BY <1>4, <2>2 DEF Legal
  <2> QED
    BY <1>3, <1>4, <2>1, <2>2, <2>3, OneAges
<1>5. ASSUME NEW st \in {"resolved", "revoking"}, NEW todo,
             NEW n, n = [m EXCEPT !.st = st, !.todo = todo], Becomes(m, n), m.st # "waiting",
             st = "revoking" /\ m.op \in Ending => m.op = "others" /\ m.refresh \notin todo,
             UNCHANGED jar, live' \subseteq live, UNCHANGED minted, Unended
      PROVE  EndInv'
  <2>1. /\ n.op = m.op /\ n.by = m.by /\ n.refresh = m.refresh /\ n.raced = m.raced
        /\ n.st = st /\ n.todo = todo
    BY <1>1, <1>5 DEF CallType
  <2>2. Legal(n)'
    BY <1>5, <2>1 DEF Legal
  <2> QED
    BY <1>2, <1>5, <2>1, <2>2, OneAges
<1>6. CASE Serve(m)
  <2>1. PICK code \in {"ok", "401"} : Becomes(m, Answer(m, code, 0))
    BY <1>6 DEF Serve
  <2> QED
    BY <1>2, <1>4, <1>6, <2>1 DEF Serve, Served, server
<1>7. CASE Login(m)
  <2>1. CASE active
    BY <1>1, <1>2, <1>4, <1>7, <2>1 DEF Login
  <2>2. CASE ~active
    BY <1>2, <1>4, <1>7, <2>2 DEF Login
  <2> QED
    BY <2>1, <2>2
<1>8. CASE ResolveRefresh(m)
  <2>1. m.op = "refresh" /\ m.st = "sent" /\ UNCHANGED <<live, minted, jar>>
    BY <1>8 DEF ResolveRefresh, server
  <2>2. Unended
    BY <1>1, <1>8 DEF ResolveRefresh, Unended, HistoryType
  <2>3. CASE Becomes(m, [m EXCEPT !.st = "resolved"])
    <3>1. [m EXCEPT !.st = "resolved"] = [m EXCEPT !.st = "resolved", !.todo = m.todo]
      BY <1>1 DEF CallType
    <3> QED
      BY <1>5, <2>1, <2>2, <2>3, <3>1 DEF Ending
  <2>4. CASE Becomes(m, [m EXCEPT !.st = "revoking", !.todo = live])
    BY <1>5, <2>1, <2>2, <2>4 DEF Ending
  <2>5. CASE Becomes(m, Answer(m, "401", 0))
    <3>1. PICK n : n = Answer(m, "401", 0)
      OBVIOUS
    <3>2. /\ n.op = m.op /\ n.by = m.by /\ n.refresh = m.refresh /\ n.raced = m.raced
          /\ n.st = "answered" /\ n.code = "401"
      BY <3>1, AnswerTyped
    <3>3. Legal(n)'
      BY <2>1, <3>2 DEF Legal
    <3> QED
      BY <1>2, <2>1, <2>2, <2>5, <3>1, <3>2, <3>3, OneAges
  <2> QED
    BY <1>8, <2>3, <2>4, <2>5 DEF ResolveRefresh
<1>9. CASE Rotate(m)
  <2>1. m.op = "refresh" /\ m.st = "resolved"
    BY <1>1, <1>9 DEF Rotate, Fits
  <2> QED
    BY <1>1, <1>2, <1>4, <1>9, <2>1 DEF Rotate, Minted
<1>10. CASE Logout(m)
  <2>1. PICK code \in {"ok", "401"} :
          /\ Becomes(m, Answer(m, code, 0))
          /\ code = "ok" => m.refresh \notin live'
    BY <1>10 DEF Logout, Named
  <2> QED
    BY <1>2, <1>4, <1>10, <2>1 DEF Logout, Served
<1>11. CASE RevokeOthers(m)
  <2>1. /\ m.op = "others" /\ m.st = "sent" /\ UNCHANGED <<live, minted, jar, history>>
    BY <1>11 DEF RevokeOthers, Served, server
  <2>2. CASE Becomes(m, [m EXCEPT !.st = "revoking", !.todo = Others(m)])
    BY <1>3, <1>5, <2>1, <2>2 DEF Others, Named
  <2>3. CASE Becomes(m, Answer(m, "401", 0))
    BY <1>2, <1>4, <2>1, <2>3
  <2> QED
    BY <1>11, <2>2, <2>3 DEF RevokeOthers
<1>12. CASE RevokeNext(m)
  <2>1. m.st = "revoking" /\ UNCHANGED <<minted, jar>>
    BY <1>12 DEF RevokeNext
  <2>2. ASSUME NEW t \in m.todo, live' = live \ {t}, Becomes(m, [m EXCEPT !.todo = @ \ {t}]),
               history' = IF m.op = "others" /\ t \in live /\ m.by # Gone
                             /\ jar[B(m.by)].refresh = t
                            THEN [history EXCEPT !.cut = @ \union {m.raced}] ELSE history
        PROVE  EndInv'
    <3>1. [m EXCEPT !.todo = @ \ {t}] = [m EXCEPT !.st = "revoking", !.todo = m.todo \ {t}]
      BY <1>1, <2>1 DEF CallType
    <3>2. ASSUME m.op = "others", t \in live, m.by # Gone, jar[B(m.by)].refresh = t
          PROVE  m.raced
      <4>1. t # 0 /\ t # m.refresh
        BY <1>1, <2>1, <3>2 DEF Legal, Ending, TypeInv, TypeOK, Tokens
      <4>2. ~Alone(m)
        BY <3>2, <4>1 DEF EndInv, EndingsApart
      <4> QED
        BY <2>1, <3>2, <4>2 DEF Alone, Ending
    <3>3. Unended
      BY <1>1, <2>2, <3>2 DEF Unended, HistoryType, CallType
    <3>4. m.op \in Ending => m.op = "others" /\ m.refresh \notin m.todo \ {t}
      BY <1>1, <2>1 DEF Legal
    <3> QED
      BY <1>5, <2>1, <2>2, <3>1, <3>3, <3>4
  <2>3. CASE /\ m.todo = {} /\ UNCHANGED <<live, history>>
             /\ Becomes(m, Answer(m, IF m.op = "others" THEN "ok" ELSE "401", 0))
    BY <1>2, <1>4, <2>1, <2>3
  <2> QED
    BY <1>12, <2>2, <2>3 DEF RevokeNext
<1> QED
  BY <1>6, <1>7, <1>8, <1>9, <1>10, <1>11, <1>12 DEF Work

\* A settled refresh fills the jar: the endings that go again start with the
\* new token, those under way were marked when it was sent.
LEMMA SettledEnds ==
  ASSUME TypeInv, EndInv, NEW c \in Tabs, NEW m \in net, Settled(c, m)
  PROVE  EndInv'
<1> DEFINE waiting == {n \in net : n.by = c /\ n.st = "waiting"}
           again == {Again(c, m, n) : n \in waiting}
<1>1. /\ m.by = c /\ m.op = "refresh" /\ m.st = "answered" /\ Fits(m) /\ c # Gone
      /\ UNCHANGED <<live, minted, history>> /\ FALSE \notin history.cut
      /\ history.out \subseteq Browsers /\ Tokens' = Tokens /\ B(c) \in Browsers
      /\ jar \in [Browsers -> [access : Some, refresh : Some]]
  BY SessionsAssumption, TabTyped
  DEF SessionsAssumption, Settled, Settles, server, EndInv, OwnSessionKept,
      TypeInv, TypeOK, Tokens
<1>2. Unended
  BY <1>1 DEF Unended
<1>3. CASE m.code # "ok"
  <2>1. net' \subseteq net /\ UNCHANGED jar
    BY <1>3 DEF Settled
  <2> QED
    BY <1>1, <1>2, <2>1, SomeGo
<1>4. CASE m.code = "ok"
  <2>1. /\ net' = (net \ (waiting \union {m})) \union again
        /\ jar' = [jar EXCEPT ![B(c)] = [access |-> m.tok, refresh |-> m.tok]]
    BY <1>4 DEF Settled, Again
  <2>2. m \in UnderWay(B(c), Renewing)
    BY <1>1 DEF UnderWay, Renewing
  <2>3. B(c) \notin history.out
    BY <1>1, <1>4, <2>2 DEF EndInv, SignedOut, Fits
  <2>4. ASSUME NEW b \in Browsers
        PROVE  jar'[b] = jar[b] \/ (UnderWay(b, Renewing) # {} /\ b \notin history.out)
    BY <1>1, <2>1, <2>2, <2>3
  <2>5. ASSUME NEW x \in again
        PROVE  /\ x.by = c /\ x.st = "sent" /\ x.op \notin Renewing
               /\ x.op \in Ending => x.refresh = m.tok
               /\ x.op \in Ending /\ ~x.raced => UnderWay(B(c), Renewing) = {m}
    <3>1. PICK n \in waiting : x = Again(c, m, n)
      OBVIOUS
    <3>2. n.op \in Guarded
      BY <3>1 DEF EndInv, Legal
    <3>3. /\ x.by = n.by /\ x.op = n.op /\ x.st = "sent"
          /\ n.op # "data" => x.refresh = m.tok
          /\ x.raced = (n.op \in Ending /\ UnderWay(B(c), Renewing) # {m})
      BY <3>1, AgainTyped
    <3> QED
      BY <3>1, <3>2, <3>3 DEF Guarded, Renewing, Ending
  <2> HIDE DEF again
  <2>6. ASSUME NEW x \in again PROVE Starts(x) /\ Legal(x)'
    <3>1. x.by \in Tabs /\ x.st = "sent" /\ x.op \notin Renewing
      BY <2>5
    <3>2. x.op \in Ending => x.refresh = jar'[B(x.by)].refresh
      BY <1>1, <2>1, <2>5
    <3>3. ASSUME x.op \in Ending, ~x.raced PROVE UnderWay(B(x.by), Renewing)' = {}
      <4>1. UnderWay(B(c), Renewing) = {m} /\ x.by = c
        BY <2>5, <3>3
      <4>2. ASSUME NEW u \in UnderWay(B(c), Renewing)' PROVE FALSE
        <5>1. u \in net' /\ u.op \in Renewing /\ u \notin again
          BY <2>5 DEF UnderWay
        <5>2. u \in net /\ u # m
          BY <2>1, <5>1
        <5>3. u \in UnderWay(B(c), Renewing)
          BY <5>2 DEF UnderWay
        <5> QED
          BY <4>1, <5>2, <5>3
      <4> QED
        BY <4>1, <4>2
    <3> QED
      BY <3>1, <3>2, <3>3 DEF Starts, Legal
  <2>7. ASSUME NEW x \in net' PROVE (Ages(x) \/ Starts(x)) /\ Legal(x)'
    <3>1. CASE x \in net
      BY <1>1, <3>1, StaysLegal DEF Ages
    <3> QED
      BY <2>1, <2>6, <2>7, <3>1
  <2> QED
    BY <1>1, <1>2, <2>4, <2>7, EndKept DEF Unended
<1> QED
  BY <1>3, <1>4

\* A login fills the jar, as a renewal that was under way; a logout empties it
\* and, if nothing overlapped it, leaves its browser signed out.
LEMMA HeardEnds ==
  ASSUME TypeInv, EndInv, NEW c \in Tabs, NEW m \in net, Heard(c, m)
  PROVE  EndInv'
<1> DEFINE b == B(c)
<1>1. /\ m.by = c /\ m.st = "answered" /\ m.op # "refresh" /\ Legal(m) /\ Fits(m) /\ c # Gone
      /\ net' = net \ {m} /\ UNCHANGED <<live, minted>> /\ FALSE \notin history.cut
      /\ history.out \subseteq Browsers /\ Tokens' = Tokens /\ b \in Browsers
      /\ jar \in [Browsers -> [access : Some, refresh : Some]]
      /\ history \in HistoryType
  BY SessionsAssumption, TabTyped
  DEF SessionsAssumption, Heard, server, EndInv, OwnSessionKept, TypeInv, TypeOK, Tokens
<1>2. ASSUME NEW x \in net' PROVE Ages(x) /\ Legal(x)'
  BY <1>1, StaysLegal DEF Ages
<1>3. CASE m.code = "ok" /\ m.op = "login"
  <2>1. m \in UnderWay(b, Renewing)
    BY <1>1, <1>3 DEF UnderWay, Renewing
  <2>2. b \notin history.out
    BY <1>3, <2>1 DEF EndInv, SignedOut
  <2>3. history' = history /\ jar' = [jar EXCEPT ![b] = [access |-> m.tok, refresh |-> m.tok]]
    BY <1>3 DEF Heard
  <2>4. ASSUME NEW a \in Browsers
        PROVE  jar'[a] = jar[a] \/ (UnderWay(a, Renewing) # {} /\ a \notin history.out)
    BY <1>1, <2>1, <2>2, <2>3
  <2> QED
    BY <1>1, <1>2, <2>3, <2>4, EndKept
<1>4. CASE m.code = "ok" /\ m.op = "logout"
  <2>1. /\ jar' = [jar EXCEPT ![b] = NoJar]
        /\ history' = [history EXCEPT
              !.out = IF m.raced \/ UnderWay(b, Renewing) # {} THEN @ \ {b} ELSE @ \union {b},
              !.kept = [@ EXCEPT ![b] = jar[b].refresh]]
    BY <1>4 DEF Heard
  <2>2. \A a \in Browsers : jar'[a] = jar[a] \/ jar'[a] = NoJar
    BY <1>1, <2>1
  <2>3. /\ history'.out = IF m.raced \/ UnderWay(b, Renewing) # {}
                            THEN history.out \ {b} ELSE history.out \union {b}
        /\ history'.kept = [history.kept EXCEPT ![b] = jar[b].refresh]
        /\ history'.cut = history.cut
        /\ history.kept \in [Browsers -> Nat]
    BY <1>1, <2>1 DEF HistoryType
  <2>4. ASSUME b \in history'.out
        PROVE  /\ jar'[b] = NoJar /\ history'.kept[b] \in Some \ live
               /\ UnderWay(b, Renewing) = {}
    <3>1. ~m.raced /\ UnderWay(b, Renewing) = {}
      BY <2>3, <2>4
    <3>2. Alone(m)
      BY <1>1, <1>4, <3>1 DEF Alone, Ending
    <3>3. jar[b].refresh \in {m.refresh, 0}
      BY <1>1, <3>2 DEF EndInv, EndingsApart
    <3>4. m.refresh \notin live /\ 0 \notin live
      BY <1>1, <1>4 DEF Legal, TypeInv, TypeOK, Tokens
    <3>5. history'.kept[b] = jar[b].refresh /\ jar[b].refresh \in Some
      BY <1>1, <2>3
    <3>6. jar'[b] = NoJar
      BY <1>1, <2>1
    <3> QED
      BY <3>1, <3>3, <3>4, <3>5, <3>6
  <2>5. ASSUME NEW a \in history'.out, a # b
        PROVE  a \in history.out /\ history'.kept[a] = history.kept[a]
    BY <1>1, <2>3, <2>5
  <2>6. history'.out \subseteq Browsers
    BY <1>1, <2>3
  <2> HIDE DEF b
  <2> QED
    BY <1>1, <1>2, <2>2, <2>3, <2>4, <2>5, <2>6, EndKept
<1>5. CASE ~(m.code = "ok" /\ m.op \in {"login", "logout"})
  <2>1. UNCHANGED <<jar, history>>
    BY <1>5 DEF Heard
  <2> QED
    BY <1>1, <2>1, SomeGo DEF Unended
<1> QED
  BY <1>3, <1>4, <1>5

\* A reload leaves its calls without a tab, and asks for /me.
LEMMA ReloadEnds ==
  ASSUME TypeInv, EndInv, NEW c \in Tabs, Reload(c)
  PROVE  EndInv'
<1> DEFINE mine == {m \in net : m.by = c}
           sent == {[m EXCEPT !.by = Gone] : m \in {n \in mine : n.st # "waiting"}}
           me == IF jar[B(c)] # NoJar THEN {Call(c, "me")} ELSE {}
<1>1. net' = (net \ mine) \union sent \union me
  BY DEF Reload
<1>2. /\ UNCHANGED <<jar, live, minted>> /\ Tokens' = Tokens /\ history.out \subseteq Browsers
      /\ Unended
  BY DEF Reload, server, TypeInv, TypeOK, Tokens, EndInv, OwnSessionKept, Unended
<1>3. ASSUME NEW x \in me PROVE Starts(x) /\ Legal(x)'
  <2>1. PICK n : n = Call(c, "me")
    OBVIOUS
  <2>2. n.by = c /\ n.op = "me" /\ n.st = "sent"
    BY <2>1, CallTyped DEF Ops
  <2> QED
    BY <2>1, <2>2 DEF Starts, Legal, Ending, Renewing
<1>4. ASSUME NEW x \in sent PROVE Ages(x) /\ Legal(x)'
  <2>1. PICK m \in net : m.st # "waiting" /\ x = [m EXCEPT !.by = Gone]
    OBVIOUS
  <2>2. /\ x.op = m.op /\ x.refresh = m.refresh /\ x.st = m.st /\ x.code = m.code
        /\ x.todo = m.todo /\ x.raced = m.raced /\ x.by = Gone
    BY <2>1 DEF TypeInv, TypeOK, CallType
  <2>3. Legal(x)'
    BY <1>2, <2>2, StaysLegal
  <2>4. Ages(x)
    BY <2>1, <2>2 DEF Ages
  <2> QED
    BY <2>3, <2>4
<1>5. ASSUME NEW x \in net PROVE Ages(x) /\ Legal(x)'
  BY <1>2, StaysLegal DEF Ages
<1> HIDE DEF mine, sent, me
<1> QED
  BY <1>1, <1>2, <1>3, <1>4, <1>5, EndKept DEF Unended

\* A tab hears of a 401: a refresh it starts marks the endings of its browser.
LEMMA UnauthorizedEnds ==
  ASSUME TypeInv, EndInv, NEW c \in Tabs, NEW m \in net, Unauthorized(c, m)
  PROVE  EndInv'
<1>1. /\ m \in CallType /\ m.by = c /\ m.op \in Guarded /\ m.st = "answered"
      /\ UNCHANGED <<live, minted, jar>> /\ Tokens' = Tokens
      /\ tab \in [Tabs -> TabType] /\ history \in HistoryType
  BY TabTyped DEF Unauthorized, server, TypeInv, TypeOK, Tokens
<1>2. Unended
  BY <1>1 DEF Unauthorized, Unended, HistoryType, EndInv, OwnSessionKept
<1>3. PICK w : w = [m EXCEPT !.st = "waiting"]
  OBVIOUS
<1>4. /\ w \in CallType /\ w.op = m.op /\ w.by = m.by /\ w.refresh = m.refresh
      /\ w.st = "waiting" /\ w.raced = m.raced
  BY <1>1, <1>3 DEF CallType
<1>5. Legal(w)' /\ Ages(w) /\ w.op \notin Renewing
  BY <1>1, <1>4 DEF Legal, Ages, Guarded, Ending, Renewing
<1>6. CASE InFlight(c) = "no"
  <2>1. PICK n : n = Call(c, "refresh")
    OBVIOUS
  <2>2. /\ n.by = c /\ n.op = "refresh" /\ n.st = "sent" /\ n.refresh = jar[B(c)].refresh
        /\ n.raced = ("refresh" \in Ending /\ UnderWay(B(c), Renewing) # {})
    BY <2>1, CallTyped DEF Ops
  <2>3. Send(c, {w} \union {n}, {m})
    <3>1. {w, n} = {w} \union {n}
      OBVIOUS
    <3> QED
      BY <1>3, <1>6, <2>1, <3>1 DEF Unauthorized
  <2> QED
    BY <1>1, <1>2, <1>4, <1>5, <2>2, <2>3, SendKeeps DEF Unended
<1>7. CASE InFlight(c) = "yes"
  <2>1. Becomes(m, w)
    BY <1>3, <1>7 DEF Unauthorized
  <2> QED
    BY <1>1, <1>2, <1>4, <1>5, <2>1, OneAges
<1>8. CASE InFlight(c) = "ok"
  <2>1. PICK n : n = Retried(m)
    OBVIOUS
  <2>2. /\ n.by = c /\ n.op = m.op /\ n.st = "sent"
        /\ m.op # "data" => n.refresh = jar[B(c)].refresh
        /\ n.raced = (m.op \in Ending /\ UnderWay(B(c), Renewing) # {})
    BY <1>1, <2>1, RetriedTyped
  <2>3. Send(c, {n}, {m})
    BY <1>8, <2>1 DEF Unauthorized
  <2>4. n.op # "login"
    BY <1>1, <2>2 DEF Guarded, Ending
  <2> QED
    BY <1>1, <1>2, <2>2, <2>3, <2>4, SendOneKeeps DEF Unended
<1>9. CASE InFlight(c) = "failed"
  <2>1. net' \subseteq net
    BY <1>9 DEF Unauthorized
  <2> QED
    BY <1>1, <1>2, <2>1, SomeGo
<1>10. InFlight(c) \in {"no", "yes", "ok", "failed"}
  BY <1>1 DEF InFlight, TabType
<1> QED
  BY <1>6, <1>7, <1>8, <1>9, <1>10

\* The user's actions, the shell, the timers, time and the network.
LEMMA OtherEnds ==
  ASSUME TypeInv, EndInv,
         \/ \E c \in Tabs : Shell(c) \/ Forget(c) \/ \E op \in Ops : Act(c, op)
         \/ \E m \in net : Discarded(m) \/ Lose(m)
         \/ Expire
         \/ UNCHANGED vars
  PROVE  EndInv'
<1>1. history \in HistoryType /\ FALSE \notin history.cut
  BY DEF TypeInv, TypeOK, HistoryType, EndInv, OwnSessionKept
<1>2. UNCHANGED history => Unended
  BY <1>1 DEF Unended
<1>3. ASSUME NEW c \in Tabs, NEW op \in Ops, Act(c, op) PROVE EndInv'
  <2>1. UNCHANGED <<jar, live, minted>>
    BY <1>3 DEF Act, server
  <2>2. CASE op = "logout" /\ jar[B(c)] = NoJar
    <3>1. net' = net /\ UNCHANGED history
      BY <1>3, <2>2 DEF Act
    <3> QED
      BY <1>2, <2>1, <3>1, SomeGo
  <2>3. CASE ~(op = "logout" /\ jar[B(c)] = NoJar)
    <3>1. PICK n : n = Call(c, op)
      OBVIOUS
    <3>2. /\ n.by = c /\ n.op = op /\ n.st = "sent"
          /\ op # "data" => n.refresh = jar[B(c)].refresh
          /\ n.raced = (op \in Ending /\ UnderWay(B(c), Renewing) # {})
      BY <3>1, CallTyped
    <3>3. Send(c, {n}, {})
      BY <1>3, <2>3, <3>1 DEF Act
    <3>4. history' = IF op = "login" THEN [history EXCEPT !.out = @ \ {B(c)}] ELSE history
      BY <1>3, <2>3 DEF Act
    <3>5. /\ history'.out = history.out \/ history'.out = history.out \ {B(c)}
          /\ op = "login" => B(c) \notin history'.out
          /\ history'.kept = history.kept /\ FALSE \notin history'.cut
      BY <1>1, <3>4 DEF HistoryType
    <3> QED
      BY <2>1, <3>2, <3>3, <3>5, SendOneKeeps
  <2> QED
    BY <2>2, <2>3
<1>4. ASSUME NEW c \in Tabs, Shell(c) PROVE EndInv'
  <2>1. UNCHANGED <<jar, live, minted, history>>
    BY <1>4 DEF Shell, server
  <2>2. CASE net' = net
    BY <1>2, <2>1, <2>2, SomeGo
  <2>3. CASE Send(c, {Call(c, "me")}, {})
    <3>1. PICK n : n = Call(c, "me")
      OBVIOUS
    <3>2. /\ n.by = c /\ n.op = "me" /\ n.st = "sent" /\ n.refresh = jar[B(c)].refresh
          /\ n.raced = ("me" \in Ending /\ UnderWay(B(c), Renewing) # {})
      BY <3>1, CallTyped DEF Ops
    <3>3. Send(c, {n}, {})
      BY <2>3, <3>1
    <3> QED
      BY <1>1, <2>1, <3>2, <3>3, SendOneKeeps
  <2> QED
    BY <1>4, <2>2, <2>3 DEF Shell
<1>5. ASSUME NEW c \in Tabs, Forget(c) PROVE EndInv'
  BY <1>2, <1>5, SomeGo DEF Forget, server
<1>6. ASSUME NEW m \in net, Discarded(m) PROVE EndInv'
  BY <1>2, <1>6, SomeGo DEF Discarded, server
<1>7. ASSUME NEW m \in net, Lose(m) PROVE EndInv'
  <2>1. PICK n : n = Answer(m, "lost", 0)
    OBVIOUS
  <2>2. /\ n.op = m.op /\ n.by = m.by /\ n.refresh = m.refresh /\ n.raced = m.raced
        /\ n.st = "answered" /\ n.code = "lost"
    BY <2>1, AnswerTyped
  <2>3. Becomes(m, n) /\ m.st # "waiting" /\ UNCHANGED <<jar, live, minted>>
    BY <1>7, <2>1 DEF Lose, server
  <2>4. Unended
    BY <1>1, <1>7 DEF Lose, Unended, HistoryType
  <2>5. Legal(n)' /\ Tokens' = Tokens
    BY <2>2, <2>3 DEF Legal, Tokens
  <2> QED
    BY <2>2, <2>3, <2>4, <2>5, OneAges
<1>8. CASE Expire
  BY <1>2, <1>8, SomeGo DEF Expire
<1>9. CASE UNCHANGED vars
  BY <1>2, <1>9, SomeGo DEF vars
<1> QED
  BY <1>3, <1>4, <1>5, <1>6, <1>7, <1>8, <1>9

LEMMA NextEndInv == TypeInv /\ EndInv /\ [Next]_vars => EndInv'
<1> SUFFICES ASSUME TypeInv, EndInv, [Next]_vars PROVE EndInv'
  OBVIOUS
<1>1. ASSUME NEW m \in net, Work(m) PROVE EndInv'
  BY <1>1, WorkEnds
<1>2. ASSUME NEW c \in Tabs, NEW m \in net, Hear(c, m) PROVE EndInv'
  BY <1>2, UnauthorizedEnds, SettledEnds, HeardEnds DEF Hear
<1>3. ASSUME NEW c \in Tabs, Reload(c) PROVE EndInv'
  BY <1>3, ReloadEnds
<1> QED
  BY <1>1, <1>2, <1>3, OtherEnds DEF Next

LEMMA InitEndInv == Init => EndInv
BY DEF Init, EndInv, EndingsApart, SignedOut, OwnSessionKept

\* Logging out, with any tabs and faults: unless a login or a refresh of the
\* browser overlapped the logout, the session it had is gone for good and no
\* tab of it holds a cookie before the next login.
THEOREM LogoutsEnd == Spec => []LogoutEnds
<1>1. TypeInv /\ EndInv => LogoutEnds
  BY DEF EndInv, SignedOut, LogoutEnds
<1> QED
  BY <1>1, InitTypeInv, NextTypeInv, InitEndInv, NextEndInv, PTL DEF Spec

\* "Sign out the others" spares the session of the browser that asks, however
\* long it runs, unless a login or a refresh of that browser overlapped it.
THEOREM OwnSessionsKept == Spec => []OwnSessionKept
<1>1. EndInv => OwnSessionKept
  BY DEF EndInv
<1> QED
  BY <1>1, InitTypeInv, NextTypeInv, InitEndInv, NextEndInv, PTL DEF Spec

-----------------------------------------------------------------------------
(* Who waits for a refresh.                                                *)

\* A tab that takes a refresh to be in flight has one, and only such a tab has
\* callers waiting.
Attended(c) ==
  /\ tab[c].refreshing = "yes" => \E m \in Refreshes : m.by = c
  /\ (\E m \in net : m.by = c /\ m.st = "waiting") => tab[c].refreshing = "yes"

NobodyForgotten == \A c \in Tabs : Attended(c)

\* The tab's refresh, if any, goes on, and nobody else comes to wait.
LEMMA AttendedKept ==
  ASSUME NEW c \in Tabs, Attended(c),
         tab'[c].refreshing = "yes" <=> tab[c].refreshing = "yes",
         \A m \in Refreshes : m.by = c => \E n \in Refreshes' : n.by = c,
         \A n \in net' : n.by = c /\ n.st = "waiting" =>
            \/ tab[c].refreshing = "yes"
            \/ \E m \in net : m.by = c /\ m.st = "waiting"
  PROVE  Attended(c)'
  BY DEF Attended

\* One call of whomever becomes another of the same kind.
LEMMA BecomesAttended ==
  ASSUME TypeInv, NobodyForgotten, NEW m \in net, NEW n, Becomes(m, n), n.by = m.by, n.op = m.op,
         n.st = "waiting" => m.by \in Tabs /\ tab[m.by].refreshing = "yes",
         UNCHANGED tab
  PROVE  NobodyForgotten'
<1> SUFFICES ASSUME NEW c \in Tabs PROVE Attended(c)'
  BY DEF NobodyForgotten
<1>1. net' = (net \ {m}) \union {n}
  BY DEF Becomes
<1>2. \A x \in Refreshes : x.by = c => \E y \in Refreshes' : y.by = c
  BY <1>1 DEF Refreshes
<1> QED
  BY <1>1, <1>2, AttendedKept DEF NobodyForgotten

\* A call that is no refresh and does not wait goes out, or one is dropped.
LEMMA SendAttended ==
  ASSUME TypeInv, NobodyForgotten, NEW c \in Tabs, NEW n \in CallType,
         n.op # "refresh", n.tok = 0, n.st = "sent",
         NEW old \in SUBSET net, \A o \in old : o.op # "refresh" /\ o.tok = 0,
         net' = net \ old \/ Send(c, {n}, old),
         \A d \in Tabs : tab'[d].refreshing = tab[d].refreshing
  PROVE  NobodyForgotten'
<1> SUFFICES ASSUME NEW d \in Tabs PROVE Attended(d)'
  BY DEF NobodyForgotten
<1>1. Refreshes' = Refreshes
  BY SendElsewhere DEF Refreshes
<1>2. \A x \in net' : x.st = "waiting" => \E o \in net : o.by = x.by /\ o.st = "waiting"
  <2>1. CASE net' = net \ old
    BY <2>1
  <2>2. CASE Send(c, {n}, old)
    <3>1. {n} \subseteq CallType /\ IsFiniteSet({n})
      BY PairFinite
    <3>2. \A x \in net' : x \in {n} \/ \E o \in net \ old : x = o \/ x = Marked(c, o)
      BY <2>2, <3>1, SendTyped
    <3>3. \A o \in net : Marked(c, o).by = o.by /\ Marked(c, o).st = o.st
      BY DEF TypeInv, TypeOK, CallType, Marked
    <3> QED
      BY <3>2, <3>3
  <2> QED
    BY <2>1, <2>2
<1> QED
  BY <1>1, <1>2, AttendedKept DEF NobodyForgotten

LEMMA WorkAttended ==
  ASSUME TypeInv, NobodyForgotten, NEW m \in net, Work(m) \/ Lose(m)
  PROVE  NobodyForgotten'
<1>1. m \in CallType /\ UNCHANGED tab
  BY DEF Work, Lose, Serve, Login, ResolveRefresh, Rotate, Logout, RevokeOthers, RevokeNext, server,
         TypeInv, TypeOK
<1>2. minted + 1 \in Nat /\ 0 \in Nat
  BY DEF TypeInv, TypeOK
<1>3. ASSUME NEW code \in {"ok", "401", "403", "lost"}, NEW tok \in Nat,
             Becomes(m, Answer(m, code, tok))
      PROVE  NobodyForgotten'
  BY <1>1, <1>3, AnswerTyped, BecomesAttended
<1>4. ASSUME NEW n, Becomes(m, n), n = [m EXCEPT !.st = "resolved"]
      PROVE  NobodyForgotten'
  <2>1. n.by = m.by /\ n.op = m.op /\ n.st # "waiting"
    BY <1>1, <1>4 DEF CallType
  <2> QED
    BY <1>1, <1>4, <2>1, BecomesAttended
<1>5. ASSUME NEW todo, Becomes(m, [m EXCEPT !.st = "revoking", !.todo = todo])
      PROVE  NobodyForgotten'
  <2> DEFINE n == [m EXCEPT !.st = "revoking", !.todo = todo]
  <2>1. n.by = m.by /\ n.op = m.op /\ n.st # "waiting"
    BY <1>1 DEF CallType
  <2> QED
    BY <1>1, <1>5, <2>1, BecomesAttended
<1>6. CASE Serve(m) \/ Login(m) \/ Rotate(m) \/ Logout(m) \/ Lose(m)
  BY <1>2, <1>3, <1>6 DEF Serve, Login, Rotate, Logout, Lose
<1>7. CASE ResolveRefresh(m)
  <2>1. CASE Becomes(m, [m EXCEPT !.st = "resolved"])
    BY <1>4, <2>1
  <2>2. CASE Becomes(m, [m EXCEPT !.st = "revoking", !.todo = live])
    BY <1>5, <2>2
  <2>3. CASE Becomes(m, Answer(m, "401", 0))
    BY <1>2, <1>3, <2>3
  <2> QED
    BY <1>7, <2>1, <2>2, <2>3 DEF ResolveRefresh
<1>8. CASE RevokeOthers(m)
  <2>1. CASE Becomes(m, [m EXCEPT !.st = "revoking", !.todo = Others(m)])
    BY <1>5, <2>1
  <2>2. CASE Becomes(m, Answer(m, "401", 0))
    BY <1>2, <1>3, <2>2
  <2> QED
    BY <1>8, <2>1, <2>2 DEF RevokeOthers
<1>9. CASE RevokeNext(m)
  <2>1. ASSUME NEW t, NEW n, n = [m EXCEPT !.todo = @ \ {t}], Becomes(m, n) PROVE NobodyForgotten'
    <3>1. n.by = m.by /\ n.op = m.op /\ n.st # "waiting"
      BY <1>1, <1>9, <2>1 DEF CallType, RevokeNext
    <3> QED
      BY <1>1, <2>1, <3>1, BecomesAttended
  <2> QED
    BY <1>2, <1>3, <1>9, <2>1 DEF RevokeNext
<1> QED
  BY <1>6, <1>7, <1>8, <1>9 DEF Work

\* The 401 branch of request(): who waits, waits for a refresh.
LEMMA UnauthorizedAttended ==
  ASSUME TypeInv, NobodyForgotten, NEW c \in Tabs, NEW m \in net, Unauthorized(c, m)
  PROVE  NobodyForgotten'
<1>1. /\ m \in CallType /\ Fits(m) /\ m.by = c /\ m.op # "refresh" /\ m.tok = 0
      /\ tab \in [Tabs -> TabType]
  BY TabTyped DEF Unauthorized, Guarded, Ending, TypeInv, TypeOK, Fits
<1>2. CASE InFlight(c) = "no"
  <2>1. PICK w, r : w = [m EXCEPT !.st = "waiting"] /\ r = Call(c, "refresh")
    OBVIOUS
  <2>2. r \in CallType /\ r.op = "refresh" /\ r.by = c /\ w \in CallType /\ w.by = c
    BY <1>1, <2>1, CallTyped DEF Ops, CallType
  <2>3. Send(c, {w, r}, {m}) /\ tab' = [tab EXCEPT ![c].refreshing = "yes"]
    BY <1>2, <2>1 DEF Unauthorized, InFlight
  <2>4. tab'[c].refreshing = "yes" /\ \A d \in Tabs : d # c => tab'[d] = tab[d]
    BY <1>1, <2>3 DEF TabType
  <2>5. r \in net' /\ \A o \in Refreshes : o \in net'
    <3>1. \A o \in Refreshes : o \notin UnderWay(B(c), Ending) /\ o \in net \ {m}
      BY <1>1 DEF Refreshes, UnderWay, Ending
    <3> QED
      BY <2>3, <3>1 DEF Send, Refreshes
  <2>6. \A x \in net' : x \in {w, r} \/ \E o \in net : x.by = o.by /\ x.st = o.st
    <3>1. {w, r} \subseteq CallType /\ IsFiniteSet({w, r})
      BY <2>2, PairFinite
    <3>2. \A x \in net' : x \in {w, r} \/ \E o \in net \ {m} : x = o \/ x = Marked(c, o)
      BY <2>3, <3>1, SendTyped
    <3>3. \A o \in net : Marked(c, o).by = o.by /\ Marked(c, o).st = o.st
      BY DEF TypeInv, TypeOK, CallType, Marked
    <3> QED
      BY <3>2, <3>3
  <2>7. Attended(c)'
    BY <2>2, <2>4, <2>5 DEF Attended, Refreshes
  <2>8. ASSUME NEW d \in Tabs, d # c PROVE Attended(d)'
    <3>1. \A x \in Refreshes : x.by = d => \E y \in Refreshes' : y.by = d
      BY <2>5 DEF Refreshes
    <3> QED
      BY <2>2, <2>4, <2>6, <2>8, <3>1, AttendedKept DEF NobodyForgotten
  <2> QED
    BY <2>7, <2>8 DEF NobodyForgotten
<1>3. CASE InFlight(c) = "yes"
  <2>1. PICK n : n = [m EXCEPT !.st = "waiting"]
    OBVIOUS
  <2>2. n.op = m.op /\ n.by = m.by
    BY <1>1, <2>1 DEF CallType
  <2>3. Becomes(m, n) /\ UNCHANGED tab
    BY <1>3, <2>1 DEF Unauthorized
  <2> QED
    BY <1>1, <1>3, <2>2, <2>3, BecomesAttended DEF InFlight
<1>4. CASE InFlight(c) \in {"ok", "failed"}
  <2>1. \A d \in Tabs : tab'[d].refreshing = tab[d].refreshing
    BY <1>1, <1>4 DEF Unauthorized, Fail, TabType
  <2>2. net' = net \ {m} \/ Send(c, {Retried(m)}, {m})
    BY <1>4 DEF Unauthorized
  <2>3. /\ Retried(m) \in CallType /\ Retried(m).op # "refresh" /\ Retried(m).tok = 0
        /\ Retried(m).st = "sent"
    BY <1>1, RetriedTyped
  <2> QED
    BY <1>1, <2>1, <2>2, <2>3, SendAttended
<1>5. InFlight(c) \in {"no", "yes", "ok", "failed"}
  BY <1>1 DEF InFlight, TabType
<1> QED
  BY <1>2, <1>3, <1>4, <1>5

\* What a refresh that settles, or a reload, leaves of the calls: those of others
\* stay, and of the tab's own none waits any more.
NoneLeftWaiting(c) ==
  /\ tab'[c].refreshing # "yes"
  /\ \A d \in Tabs : d # c => tab'[d].refreshing = tab[d].refreshing
  /\ \A x \in net : x.by # c => x \in net'
  /\ \A x \in net' :
       \/ x \in net /\ ~(x.by = c /\ x.st = "waiting")
       \/ x.by \in {c, Gone} /\ x.st # "waiting"

LEMMA SettledLeavesNone ==
  ASSUME TypeInv, NEW c \in Tabs, NEW m \in net, Settled(c, m)
  PROVE  NoneLeftWaiting(c)
<1> DEFINE waiting == {n \in net : n.by = c /\ n.st = "waiting"}
           again == {Again(c, m, n) : n \in waiting}
<1>1. tab \in [Tabs -> TabType]
  BY TabTyped
<1>2. m.by = c
  BY DEF Settled, Settles
<1>3. tab'[c].refreshing # "yes" /\ \A d \in Tabs : d # c => tab'[d].refreshing = tab[d].refreshing
  <2>1. PICK p \in {"app", "loading", "login"}, r \in {"ok", "failed"} :
          tab' = [tab EXCEPT ![c].refreshing = r, ![c].page = p]
    BY <1>1 DEF Settled, TabType
  <2>2. tab[c] \in TabType /\ c \in DOMAIN tab
    BY <1>1
  <2>3. tab'[c] = [tab[c] EXCEPT !.refreshing = r, !.page = p]
    BY <1>1, <2>1, <2>2
  <2>4. tab'[c].refreshing = r
    BY <2>2, <2>3 DEF TabType
  <2>5. \A d \in Tabs : d # c => tab'[d] = tab[d]
    BY <1>1, <2>1
  <2> QED
    BY <2>1, <2>4, <2>5
<1>4. net' = (net \ (waiting \union {m})) \union again \/ net' = net \ (waiting \union {m})
  <2>1. CASE m.code = "ok"
    BY <2>1 DEF Settled, Again
  <2>2. CASE m.code # "ok"
    BY <2>2 DEF Settled
  <2> QED
    BY <2>1, <2>2
<1>5. \A x \in again : x.by = c /\ x.st = "sent"
  BY AgainTyped
<1>6. \A x \in net : x.by # c => x \notin waiting \union {m}
  BY <1>2
<1>7. \A x \in net \ waiting : ~(x.by = c /\ x.st = "waiting")
  OBVIOUS
<1> HIDE DEF waiting, again
<1> QED
  BY <1>3, <1>4, <1>5, <1>6, <1>7 DEF NoneLeftWaiting

LEMMA ReloadLeavesNone ==
  ASSUME TypeInv, NEW c \in Tabs, Reload(c)
  PROVE  NoneLeftWaiting(c)
<1> DEFINE mine == {m \in net : m.by = c}
           sent == {[m EXCEPT !.by = Gone] : m \in {n \in mine : n.st # "waiting"}}
<1>1. tab \in [Tabs -> TabType] /\ \A x \in net : x \in CallType
  BY DEF TypeInv, TypeOK, TabType
<1>2. tab'[c].refreshing # "yes" /\ \A d \in Tabs : d # c => tab'[d].refreshing = tab[d].refreshing
  BY <1>1 DEF Reload
<1>3. \A x \in net' : x \in net \ mine \/ x \in sent \/ x = Call(c, "me")
  BY DEF Reload
<1>4. net \ mine \subseteq net'
  BY DEF Reload
<1>5. \A x \in sent : x.by = Gone /\ x.st # "waiting"
  BY <1>1 DEF CallType
<1>6. Call(c, "me").by = c /\ Call(c, "me").st = "sent"
  BY CallTyped DEF Ops
<1>7. \A x \in net : x \in mine <=> x.by = c
  OBVIOUS
<1> HIDE DEF mine, sent
<1> QED
  BY <1>2, <1>3, <1>4, <1>5, <1>6, <1>7 DEF NoneLeftWaiting

\* A refresh settles, and with it all who waited; a reload forgets both.
LEMMA EndsAttended ==
  ASSUME TypeInv, NobodyForgotten, NEW c \in Tabs, NoneLeftWaiting(c)
  PROVE  NobodyForgotten'
<1>1. \A d \in Tabs : d # Gone
  BY SessionsAssumption DEF SessionsAssumption
<1>2. Attended(c)'
  BY DEF NoneLeftWaiting, Attended
<1>3. ASSUME NEW d \in Tabs, d # c PROVE Attended(d)'
  <2>1. \A x \in Refreshes : x.by = d => \E y \in Refreshes' : y.by = d
    BY <1>3 DEF NoneLeftWaiting, Refreshes
  <2>2. \A x \in net' : x.by = d /\ x.st = "waiting" => x \in net
    BY <1>1, <1>3 DEF NoneLeftWaiting
  <2>3. tab'[d].refreshing = tab[d].refreshing
    BY <1>3 DEF NoneLeftWaiting
  <2> QED
    BY <2>1, <2>2, <2>3, AttendedKept DEF NobodyForgotten
<1> QED
  BY <1>2, <1>3 DEF NobodyForgotten

LEMMA NextAttended == TypeInv /\ NobodyForgotten /\ [Next]_vars => NobodyForgotten'
<1> SUFFICES ASSUME TypeInv, NobodyForgotten, [Next]_vars PROVE NobodyForgotten'
  OBVIOUS
<1>0. tab \in [Tabs -> TabType]
  BY DEF TypeInv, TypeOK, TabType
<1>1. ASSUME NEW m \in net, Work(m) \/ Lose(m) PROVE NobodyForgotten'
  BY <1>1, WorkAttended
<1>2. ASSUME NEW m \in net, Discarded(m) PROVE NobodyForgotten'
  <2>1. \A x \in Refreshes : x.by # Gone => x \in Refreshes'
    BY <1>2 DEF Discarded, Refreshes
  <2>2. Gone \notin Tabs /\ UNCHANGED tab /\ net' \subseteq net
    BY <1>2, SessionsAssumption DEF Discarded, SessionsAssumption
  <2>3. ASSUME NEW c \in Tabs PROVE Attended(c)'
    BY <2>1, <2>2, AttendedKept DEF NobodyForgotten
  <2> QED
    BY <2>3 DEF NobodyForgotten
<1>3. ASSUME NEW c \in Tabs, Reload(c) \/ \E m \in net : Settled(c, m) PROVE NobodyForgotten'
  BY <1>3, SettledLeavesNone, ReloadLeavesNone, EndsAttended
<1>4. ASSUME NEW c \in Tabs, Forget(c) PROVE NobodyForgotten'
  <2>1. /\ \A d \in Tabs : tab'[d].refreshing = "yes" <=> tab[d].refreshing = "yes"
        /\ Refreshes' = Refreshes /\ net' = net
    BY <1>0, <1>4 DEF Forget, TabType, Refreshes
  <2>2. ASSUME NEW d \in Tabs PROVE Attended(d)'
    BY <2>1, AttendedKept DEF NobodyForgotten
  <2> QED
    BY <2>2 DEF NobodyForgotten
<1>5. ASSUME NEW c \in Tabs, Shell(c) \/ \E op \in Ops : Act(c, op) PROVE NobodyForgotten'
  <2>1. \A d \in Tabs : tab'[d].refreshing = tab[d].refreshing
    <3>1. CASE UNCHANGED tab
      BY <3>1
    <3>2. CASE \E page : tab' = [tab EXCEPT ![c].page = page]
      BY <1>0, <3>2 DEF TabType
    <3>3. CASE \E page : tab' = [tab EXCEPT ![c] = [@ EXCEPT !.page = page]]
      BY <1>0, <3>3 DEF TabType
    <3> QED
      BY <1>5, <3>1, <3>2 DEF Shell, Fail, Act
  <2>2. PICK op \in Ops \ {"refresh"} : net' = net \/ Send(c, {Call(c, op)}, {})
    <3>1. CASE Shell(c)
      <4>1. "me" \in Ops \ {"refresh"} /\ (net' = net \/ Send(c, {Call(c, "me")}, {}))
        BY <3>1 DEF Shell, Ops
      <4> QED
        BY <4>1
    <3>2. ASSUME NEW o \in Ops, Act(c, o)
          PROVE  o # "refresh" /\ (net' = net \/ Send(c, {Call(c, o)}, {}))
      BY <3>2 DEF Act, Ending
    <3> QED
      BY <1>5, <3>1, <3>2
  <2>3. /\ Call(c, op) \in CallType /\ Call(c, op).op # "refresh" /\ Call(c, op).tok = 0
        /\ Call(c, op).st = "sent"
    BY CallTyped
  <2> QED
    BY <2>1, <2>2, <2>3, SendAttended
<1>6. ASSUME NEW c \in Tabs, NEW m \in net, Unauthorized(c, m) PROVE NobodyForgotten'
  BY <1>6, UnauthorizedAttended
<1>7. ASSUME NEW c \in Tabs, NEW m \in net, Heard(c, m) PROVE NobodyForgotten'
  <2>1. \A d \in Tabs : tab'[d].refreshing = tab[d].refreshing
    BY <1>0, <1>7 DEF Heard, TabType
  <2>2. net' = net \ {m} /\ m.op # "refresh"
    BY <1>7 DEF Heard
  <2>3. Refreshes' = Refreshes
    BY <2>2 DEF Refreshes
  <2>4. ASSUME NEW d \in Tabs PROVE Attended(d)'
    BY <2>1, <2>2, <2>3, AttendedKept DEF NobodyForgotten
  <2> QED
    BY <2>4 DEF NobodyForgotten
<1>8. CASE Expire \/ UNCHANGED vars
  BY <1>8 DEF Expire, vars, NobodyForgotten, Attended, Refreshes
<1> QED
  BY <1>1, <1>2, <1>3, <1>4, <1>5, <1>6, <1>7, <1>8 DEF Next, Hear

\* attemptRefresh and its timer: a caller that waits, waits for a refresh its
\* own tab has in flight, of which there is one; after a reload, a lost answer
\* or a refresh that failed nobody waits for one that is over.
THEOREM CallersAreAttended == Spec => [](NobodyForgotten /\ OneRefresh)
<1>1. Init => NobodyForgotten
  BY DEF Init, NobodyForgotten, Attended
<1>2. TokenInv => OneRefresh
  BY DEF TokenInv
<1> QED
  BY <1>1, <1>2, InitTypeInv, NextTypeInv, InitTokenInv, NextTokenInv, NextAttended, PTL DEF Spec
=============================================================================
