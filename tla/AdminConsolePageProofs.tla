----------------------- MODULE AdminConsolePageProofs -----------------------
(***************************************************************************)
(* The pages of the admin console, for every value of the constants: the   *)
(* invariant that the proofs of AdminConsoleProofs stand on.               *)
(*                                                                         *)
(* What the operators on a tab return (AskIs, MountIs, LoadOrdersIs...) and *)
(* what each does to one tab: it keeps the tab well formed (Good...), at   *)
(* most one exclusive call live (One...) and the form what its operator and *)
(* the product made it (Form...).  Then every step of Next, one lemma each *)
(* (...Step), keeps PagesInv: PagesStayGood.                               *)
(***************************************************************************)
EXTENDS AdminConsoleInvariants, FiniteSetTheorems, SequenceTheorems, TLAPS

-----------------------------------------------------------------------------
(* The steps of fulfilment.                                                *)

LEMMA RankIs ==
  /\ Rank(FulfilmentNone) = 0 /\ Rank("packed") = 1 /\ Rank("in_transit") = 2 /\ Rank("shipped") = 3
  /\ \A f \in Fulfilment : Rank(f) \in 0..3
  /\ \A n \in 1..3 : Steps[n] \in Range(Steps) /\ Rank(Steps[n]) = n
  /\ \A to \in Range(Steps) : Rank(to) \in 1..3 /\ to = Steps[Rank(to)]
  /\ Range(Steps) = {"packed", "in_transit", "shipped"}
  /\ Steps \in Seq(Range(Steps)) /\ Len(Steps) = 3 /\ DOMAIN Steps = 1..3
<1>1. /\ Steps[1] = "packed" /\ Steps[2] = "in_transit" /\ Steps[3] = "shipped"
      /\ DOMAIN Steps = 1..3 /\ Len(Steps) = 3
  BY DEF Steps
<1>11. Steps \in Seq(Range(Steps))
  <2>1. Steps = [n \in 1..3 |-> Steps[n]]
    BY DEF Steps
  <2>2. \A n \in 1..3 : Steps[n] \in Range(Steps)
    BY <1>1 DEF Range
  <2> QED BY <2>1, <2>2
<1>2. Range(Steps) = {"packed", "in_transit", "shipped"}
  <2>1. Range(Steps) = {Steps[n] : n \in 1..3}
    BY <1>1 DEF Range
  <2>2. \A n \in 1..3 : n = 1 \/ n = 2 \/ n = 3
    OBVIOUS
  <2> QED BY <2>1, <2>2, <1>1
<1> DEFINE At(f, n) == IF n = 0 THEN f = FulfilmentNone ELSE f = Steps[n]
           S == 0..3
<1>3. \A f : Rank(f) = CHOOSE n \in S : At(f, n)
  BY DEF Rank
<1>4. S = {0, 1, 2, 3}
  OBVIOUS
<1>10. FulfilmentNone \notin {"packed", "in_transit", "shipped"}
  BY Zenon DEF FulfilmentNone
<1>5. /\ \A n \in S : At(FulfilmentNone, n) <=> n = 0
      /\ \A n \in S : At("packed", n) <=> n = 1
      /\ \A n \in S : At("in_transit", n) <=> n = 2
      /\ \A n \in S : At("shipped", n) <=> n = 3
  <2>1. \A f : (At(f, 0) <=> f = FulfilmentNone) /\ (At(f, 1) <=> f = "packed")
               /\ (At(f, 2) <=> f = "in_transit") /\ (At(f, 3) <=> f = "shipped")
    BY <1>1
  <2> HIDE DEF At, S
  <2> QED BY <2>1, <1>4, <1>10
<1> HIDE DEF At, S
<1>6. /\ Rank(FulfilmentNone) = 0 /\ Rank("packed") = 1 /\ Rank("in_transit") = 2 /\ Rank("shipped") = 3
  <2>1. Rank(FulfilmentNone) = 0
    BY <1>3, <1>4, <1>5
  <2>2. Rank("packed") = 1
    BY <1>3, <1>4, <1>5
  <2>3. Rank("in_transit") = 2
    BY <1>3, <1>4, <1>5
  <2>4. Rank("shipped") = 3
    BY <1>3, <1>4, <1>5
  <2> QED BY <2>1, <2>2, <2>3, <2>4
<1>7. \A n \in 1..3 : Steps[n] \in Range(Steps) /\ Rank(Steps[n]) = n
  <2>1. \A n \in 1..3 : n = 1 \/ n = 2 \/ n = 3
    OBVIOUS
  <2> QED BY <1>1, <1>2, <1>6, <2>1
<1>8. \A to \in Range(Steps) : Rank(to) \in 1..3 /\ to = Steps[Rank(to)]
  BY <1>1, <1>2, <1>6
<1>9. \A f \in Fulfilment : Rank(f) \in 0..3
  <2>1. \A f \in Fulfilment : f \in {FulfilmentNone, "packed", "in_transit", "shipped"}
    BY <1>2 DEF Fulfilment
  <2> QED BY <1>6, <2>1
<1> QED BY <1>1, <1>2, <1>6, <1>7, <1>8, <1>9, <1>11

\* One more step written is the next prefix of the steps.
LEMMA NextPrefix ==
  ASSUME NEW from \in Fulfilment, NEW to \in Range(Steps), CanFulfil(from, to)
  PROVE  SubSeq(Steps, 1, Rank(to)) = Append(SubSeq(Steps, 1, Rank(from)), to)
<1>1. PICK n \in 0..2 : Rank(from) = n /\ Rank(to) = n + 1 /\ to = Steps[n + 1]
  <2>1. Rank(from) \in 0..3 /\ Rank(to) \in 1..3 /\ to = Steps[Rank(to)]
    BY RankIs
  <2> QED BY <2>1 DEF CanFulfil
<1>2. Steps \in Seq(Range(Steps)) /\ Len(Steps) = 3 /\ DOMAIN Steps = 1..3
  BY RankIs
<1>3. Append(SubSeq(Steps, 1, n), Steps[n + 1]) = SubSeq(Steps, 1, n + 1)
  <2>1. SubSeq(Steps, 1, n + 1) = SubSeq(Steps, 1, n) \o <<Steps[n + 1]>>
    BY <1>2, SubSeqRecursiveSecond
  <2>2. \A i \in 1..3 : Steps[i] \in Range(Steps)
    BY <1>2, RankIs
  <2>3. SubSeq(Steps, 1, n) \in Seq(Range(Steps))
    BY <2>2, SubSeqProperties
  <2> QED BY <2>1, <2>2, <2>3, AppendIsConcat
<1> QED BY <1>1, <1>3

-----------------------------------------------------------------------------
(* What the operators on a tab do to its fields.                           *)

\* d differs from c in its view and its calls only.
SamePage(c, d) ==
  /\ d.route = c.route /\ d.ready = c.ready /\ d.token = c.token /\ d.subject = c.subject

\* The tab c with another view and other calls.
WithCalls(c, view, calls) ==
  [route |-> c.route, ready |-> c.ready, token |-> c.token, subject |-> c.subject,
   view |-> view, calls |-> calls]

LEMMA WithCallsIs ==
  ASSUME NEW c, NEW view, NEW calls, calls = [i \in Slots |-> calls[i]]
  PROVE  LET d == WithCalls(c, view, calls)
         IN Shape(d) /\ SamePage(c, d) /\ d.view = view /\ d.calls = calls
BY DEF WithCalls, Shape, SamePage

\* A new call, and the slot it takes.
Asked(kind, arg) == Call(kind, arg, TRUE)
Free(c) == CHOOSE i \in IdleSlots(c) : \A j \in IdleSlots(c) : i <= j

LEMMA AskIs ==
  ASSUME NEW c, Shape(c), NEW kind, NEW arg
  PROVE  LET d == Ask(c, kind, arg)
         IN /\ Shape(d) /\ SamePage(c, d) /\ d.view = c.view
            /\ \A j \in Slots :
                 d.calls[j] = IF j = Free(c) THEN Asked(kind, arg) ELSE c.calls[j]
<1> DEFINE calls == [c.calls EXCEPT ![Free(c)] = Asked(kind, arg)]
<1>1. Ask(c, kind, arg) = [c EXCEPT !.calls[Free(c)] = Asked(kind, arg)]
  BY DEF Ask, Free, Asked
<1>2. Ask(c, kind, arg) = WithCalls(c, c.view, calls)
  BY <1>1 DEF Shape, WithCalls
<1>3. calls = [j \in Slots |-> IF j = Free(c) THEN Asked(kind, arg) ELSE c.calls[j]]
  BY DEF Shape
<1> HIDE DEF calls
<1>4. /\ calls = [j \in Slots |-> calls[j]]
      /\ \A j \in Slots : calls[j] = IF j = Free(c) THEN Asked(kind, arg) ELSE c.calls[j]
  BY <1>3
<1>5. /\ Shape(WithCalls(c, c.view, calls)) /\ SamePage(c, WithCalls(c, c.view, calls))
      /\ WithCalls(c, c.view, calls).view = c.view /\ WithCalls(c, c.view, calls).calls = calls
  BY <1>4, WithCallsIs
<1> QED BY <1>2, <1>4, <1>5

LEMMA EndIs ==
  ASSUME NEW c, Shape(c), NEW i \in Slots
  PROVE  /\ Shape(End(c, i)) /\ SamePage(c, End(c, i)) /\ End(c, i).view = c.view
         /\ \A j \in Slots : End(c, i).calls[j] = IF j = i THEN None ELSE c.calls[j]
BY DEF Shape, End, SamePage

\* A call of a page that was left.
Left(f) == [f EXCEPT !.live = FALSE]

LEMMA LeftIs ==
  ASSUME NEW f, f = [kind |-> f.kind, arg |-> f.arg, live |-> f.live, at |-> f.at,
                     status |-> f.status, body |-> f.body]
  PROVE  /\ Left(f) = [kind |-> f.kind, arg |-> f.arg, live |-> FALSE, at |-> f.at,
                       status |-> f.status, body |-> f.body]
         /\ Left(f).live = FALSE
<1>1. PICK no : no = FALSE
  OBVIOUS
<1>2. Left(f) = [f EXCEPT !.live = no]
  BY <1>1 DEF Left
<1>3. [f EXCEPT !.live = no] = [kind |-> f.kind, arg |-> f.arg, live |-> no, at |-> f.at,
                                status |-> f.status, body |-> f.body]
  OBVIOUS
<1>4. Left(f).live = no
  BY <1>2, <1>3
<1> QED BY <1>1, <1>2, <1>3, <1>4

LEMMA CancelIs ==
  ASSUME NEW c, Shape(c), NEW kinds
  PROVE  LET d == Cancel(c, kinds)
         IN /\ Shape(d) /\ SamePage(c, d) /\ d.view = c.view
            /\ \A j \in Slots :
                 d.calls[j] = IF c.calls[j] # None /\ c.calls[j].kind \in kinds
                                THEN Left(c.calls[j]) ELSE c.calls[j]
<1> DEFINE calls == [i \in Slots |-> IF c.calls[i] # None /\ c.calls[i].kind \in kinds
                                       THEN Left(c.calls[i]) ELSE c.calls[i]]
<1>0. Cancel(c, kinds) = [c EXCEPT !.calls = calls]
  BY DEF Cancel, Left
<1>2. calls = [j \in Slots |-> calls[j]]
  OBVIOUS
<1>4. \A j \in Slots : calls[j] = IF c.calls[j] # None /\ c.calls[j].kind \in kinds
                                    THEN Left(c.calls[j]) ELSE c.calls[j]
  OBVIOUS
<1> HIDE DEF calls
<1>1. Cancel(c, kinds) = WithCalls(c, c.view, calls)
  BY <1>0 DEF Shape, WithCalls
<1>3. Shape(Cancel(c, kinds)) /\ SamePage(c, Cancel(c, kinds)) /\ Cancel(c, kinds).view = c.view
      /\ Cancel(c, kinds).calls = calls
  BY <1>1, <1>2, WithCallsIs
<1> QED BY <1>3, <1>4

LEMMA ShowIs ==
  ASSUME NEW c, Shape(c), NEW i \in Slots, NEW view
  PROVE  LET d == Show(c, i, view)
         IN /\ Shape(d) /\ SamePage(c, d)
            /\ d.view = IF c.calls[i].live THEN view ELSE c.view
            /\ \A j \in Slots : d.calls[j] = IF j = i THEN None ELSE c.calls[j]
BY EndIs DEF Shape, Show, SamePage

\* The calls of the tab d, which was c before a page was opened.
Opened(c, d, s) ==
  \A j \in Slots :
    d.calls[j] = IF c.token /\ j = s THEN Asked("me", d.route)
                 ELSE IF c.calls[j] # None /\ c.calls[j].kind \in CallKind
                        THEN Left(c.calls[j]) ELSE c.calls[j]

\* A new page has nothing under way but the question of its guard.
LEMMA MountIs ==
  ASSUME NEW c, Shape(c), NEW route, NEW subject
  PROVE  LET d == Mount(c, route, subject)
             to == IF c.token THEN route ELSE "login"
         IN /\ Shape(d) /\ d.token = c.token /\ d.route = to /\ d.ready = ~ c.token
            /\ d.subject = (IF c.token THEN subject ELSE None) /\ d.view = Blank
            /\ \E s : Opened(c, d, s)
<1> DEFINE to == IF c.token THEN route ELSE "login"
           left == Cancel(c, CallKind)
           page == [left EXCEPT !.route = to, !.ready = ~ c.token, !.view = Blank,
                                !.subject = IF c.token THEN subject ELSE None]
<1>1. Mount(c, route, subject) = IF c.token THEN Ask(page, "me", to) ELSE page
  BY DEF Mount
<1>2. /\ Shape(left) /\ SamePage(c, left)
      /\ \A j \in Slots :
           left.calls[j] = IF c.calls[j] # None /\ c.calls[j].kind \in CallKind
                             THEN Left(c.calls[j]) ELSE c.calls[j]
  BY CancelIs
<1> HIDE DEF left
<1>3. /\ Shape(page) /\ page.calls = left.calls /\ page.token = c.token /\ page.view = Blank
      /\ page.route = to /\ page.ready = ~ c.token
      /\ page.subject = IF c.token THEN subject ELSE None
  <2> DEFINE about == IF c.token THEN subject ELSE None
  <2>1. page = [left EXCEPT !.route = to, !.ready = ~ c.token, !.view = Blank, !.subject = about]
    OBVIOUS
  <2> HIDE DEF page, to, about
  <2>2. page = [route |-> to, ready |-> ~ c.token, token |-> left.token, subject |-> about,
                view |-> Blank, calls |-> left.calls]
    BY <1>2, <2>1 DEF Shape
  <2>3. Shape(page) /\ page.calls = left.calls /\ page.token = c.token /\ page.view = Blank
        /\ page.route = to /\ page.ready = ~ c.token /\ page.subject = about
    BY <1>2, <2>2 DEF Shape, SamePage
  <2> QED BY <2>3 DEF about
<1> HIDE DEF page
<1>4. CASE c.token
  <2> HIDE DEF to
  <2>0. Shape(page)
    BY <1>3
  <2>1. /\ Shape(Ask(page, "me", to)) /\ SamePage(page, Ask(page, "me", to))
        /\ Ask(page, "me", to).view = page.view
    BY <2>0, AskIs
  <2>2. \A j \in Slots : Ask(page, "me", to).calls[j] =
                   IF j = Free(page) THEN Asked("me", to) ELSE page.calls[j]
    BY <2>0, AskIs
  <2>3. Mount(c, route, subject) = Ask(page, "me", to)
    BY <1>1, <1>4
  <2>4. \A j \in Slots : Mount(c, route, subject).calls[j] =
          IF c.token /\ j = Free(page) THEN Asked("me", to)
          ELSE IF c.calls[j] # None /\ c.calls[j].kind \in CallKind
                 THEN Left(c.calls[j]) ELSE c.calls[j]
    BY <2>2, <2>3, <1>2, <1>3, <1>4
  <2>5. Shape(Mount(c, route, subject)) /\ Mount(c, route, subject).token = c.token
        /\ Mount(c, route, subject).route = to /\ Mount(c, route, subject).ready = ~ c.token
        /\ Mount(c, route, subject).subject = (IF c.token THEN subject ELSE None)
        /\ Mount(c, route, subject).view = Blank
    BY <2>1, <2>3, <1>3 DEF SamePage
  <2>6. \A j \in Slots : Mount(c, route, subject).calls[j] =
          IF c.token /\ j = Free(page) THEN Asked("me", Mount(c, route, subject).route)
          ELSE IF c.calls[j] # None /\ c.calls[j].kind \in CallKind
                 THEN Left(c.calls[j]) ELSE c.calls[j]
    BY <2>4, <2>5
  <2>7. \E s : Opened(c, Mount(c, route, subject), s)
    BY <2>6 DEF Opened
  <2> USE DEF to
  <2> QED BY <2>5, <2>7
<1>5. CASE ~ c.token
  BY <1>1, <1>2, <1>3, <1>5 DEF Opened
<1> QED BY <1>4, <1>5

-----------------------------------------------------------------------------
(* A good tab stays good, one lemma per operator on a tab.                 *)

LEMMA AskedIs ==
  ASSUME NEW kind, NEW arg
  PROVE  LET f == Asked(kind, arg)
         IN f.kind = kind /\ f.arg = arg /\ f.live /\ f.at = "asked" /\ f.status = None
BY DEF Asked, Call

LEMMA GoodAsked ==
  ASSUME NEW K, NEW P, NEW kind \in CallKind, NEW arg \in Args(kind, K, P)
  PROVE  GoodCall(Asked(kind, arg), K, P)
BY DEF GoodCall, Asked, Call

LEMMA GoodLeft ==
  ASSUME NEW K, NEW P, NEW f, GoodCall(f, K, P)
  PROVE  GoodCall(Left(f), K, P) /\ Left(f).live = FALSE
<1>1. f = [kind |-> f.kind, arg |-> f.arg, live |-> f.live, at |-> f.at, status |-> f.status,
           body |-> f.body]
  BY DEF GoodCall
<1>2. PICK g : g = Left(f)
  OBVIOUS
<1>3. /\ g = [kind |-> f.kind, arg |-> f.arg, live |-> FALSE, at |-> f.at,
              status |-> f.status, body |-> f.body]
      /\ g.live = FALSE
  BY <1>1, <1>2, LeftIs
<1>4. /\ g.kind = f.kind /\ g.arg = f.arg /\ g.at = f.at /\ g.status = f.status
      /\ g.body = f.body
  BY <1>3
<1>5. GoodCall(g, K, P)
  BY <1>3, <1>4 DEF GoodCall
<1> QED BY <1>2, <1>3, <1>5

LEMMA BlankView ==
  ASSUME NEW K
  PROVE  Blank \in Views(K)
<1> DEFINE cursors == Seq(Cursor) \ {<<>>}
           rows == {None} \cup SUBSET K
           orders == Order \cup {None}
           drafts == Form \cup {None}
           kinds == SUBSET CallKind
<1>1. <<None>> \in cursors /\ None \in Cursor
  BY DEF Cursor
<1>2. NoFilter \in Filter
  BY DEF NoFilter, Filter
<1>3. None \in rows /\ None \in orders /\ None \in drafts
  OBVIOUS
<1>5. {} \in kinds
  OBVIOUS
<1>4. Views(K) = [filters : Filter, choice : Filter, cursors : cursors, rows : rows,
                  next : Cursor, shown : orders, loading : BOOLEAN, failed : BOOLEAN,
                  busy : kinds, draft : drafts, confirm : BOOLEAN]
  BY DEF Views
<1> HIDE DEF cursors, rows, orders, drafts, kinds
<1> QED BY <1>1, <1>2, <1>3, <1>4, <1>5 DEF Blank

LEMMA GoodFrom ==
  ASSUME NEW K, NEW P, NEW c, NEW d, GoodTab(c, K, P), Shape(d),
         d.route = c.route, d.subject = c.subject, d.token \in BOOLEAN, d.ready \in BOOLEAN,
         d.view \in Views(K),
         \A i \in Slots : \/ d.calls[i] = None \/ d.calls[i] = c.calls[i]
                          \/ GoodCall(d.calls[i], K, P) /\ OfThePage(c, d.calls[i])
  PROVE  GoodTab(d, K, P)
<1>1. \A f : OfThePage(c, f) => OfThePage(d, f)
  BY DEF OfThePage
<1> QED BY <1>1 DEF GoodTab

LEMMA GoodEnd ==
  ASSUME NEW K, NEW P, NEW c, GoodTab(c, K, P), NEW i \in Slots
  PROVE  GoodTab(End(c, i), K, P)
<1>1. Shape(c) /\ c.view \in Views(K) /\ c.token \in BOOLEAN /\ c.ready \in BOOLEAN
  BY DEF GoodTab
<1> QED BY <1>1, EndIs, GoodFrom DEF SamePage

LEMMA GoodShow ==
  ASSUME NEW K, NEW P, NEW c, GoodTab(c, K, P), NEW i \in Slots, NEW view,
         c.calls[i].live => view \in Views(K)
  PROVE  GoodTab(Show(c, i, view), K, P)
<1>1. Shape(c) /\ c.view \in Views(K) /\ c.token \in BOOLEAN /\ c.ready \in BOOLEAN
  BY DEF GoodTab
<1>2. Show(c, i, view).view \in Views(K)
  BY <1>1, ShowIs
<1> QED BY <1>1, <1>2, ShowIs, GoodFrom DEF SamePage

LEMMA GoodAsk ==
  ASSUME NEW K, NEW P, NEW c, GoodTab(c, K, P), NEW kind \in CallKind,
         NEW arg \in Args(kind, K, P), OfThePage(c, Asked(kind, arg))
  PROVE  GoodTab(Ask(c, kind, arg), K, P)
<1>1. Shape(c) /\ c.view \in Views(K) /\ c.token \in BOOLEAN /\ c.ready \in BOOLEAN
  BY DEF GoodTab
<1>2. GoodCall(Asked(kind, arg), K, P)
  BY GoodAsked
<1> QED BY <1>1, <1>2, AskIs, GoodFrom DEF SamePage

\* A page that may be opened.
Target(route, subject, K, P) ==
  /\ route \in Route
  /\ route = "order" => subject \in K
  /\ route = "product" => subject \in P

LEMMA GoodMount ==
  ASSUME NEW K, NEW P, NEW c, GoodTab(c, K, P), NEW route, NEW subject,
         c.token => Target(route, subject, K, P)
  PROVE  GoodTab(Mount(c, route, subject), K, P)
<1> DEFINE d == Mount(c, route, subject)
           to == IF c.token THEN route ELSE "login"
<1>1. Shape(c) /\ c.token \in BOOLEAN
  BY DEF GoodTab
<1>2. /\ Shape(d) /\ d.token = c.token /\ d.route = to /\ d.ready = ~ c.token
      /\ d.subject = (IF c.token THEN subject ELSE None) /\ d.view = Blank
  BY <1>1, MountIs
<1> HIDE DEF to
<1>3. PICK s : Opened(c, d, s)
  BY <1>1, MountIs
<1> HIDE DEF d
<1>4. to \in Route
  BY DEF Target, Route, to
<1>11. d.route = to
  BY <1>2
<1>5. GoodCall(Asked("me", d.route), K, P) /\ OfThePage(d, Asked("me", d.route))
  <2>1. "me" \in CallKind /\ to \in Args("me", K, P)
    BY <1>4 DEF CallKind, Args
  <2>2. GoodCall(Asked("me", to), K, P)
    BY <2>1, GoodAsked
  <2>3. Asked("me", to).kind = "me"
    BY AskedIs
  <2> QED BY <2>2, <2>3, <1>11 DEF OfThePage
<1>6. ASSUME NEW j \in Slots, d.calls[j] # None
      PROVE  GoodCall(d.calls[j], K, P) /\ OfThePage(d, d.calls[j])
  <2>1. CASE c.token /\ j = s
    BY <2>1, <1>3, <1>5 DEF Opened
  <2>2. CASE ~ (c.token /\ j = s)
    <3>1. CASE c.calls[j] = None
      BY <2>2, <3>1, <1>3, <1>6 DEF Opened
    <3>2. CASE c.calls[j] # None
      <4>1. GoodCall(c.calls[j], K, P) /\ c.calls[j].kind \in CallKind
        BY <3>2 DEF GoodTab, GoodCall
      <4>2. d.calls[j] = Left(c.calls[j])
        BY <1>3, <2>2, <3>2, <4>1 DEF Opened
      <4>3. GoodCall(d.calls[j], K, P) /\ d.calls[j].live = FALSE
        BY <4>1, <4>2, GoodLeft
      <4> QED BY <4>3 DEF OfThePage
    <3> QED BY <3>1, <3>2
  <2> QED BY <2>1, <2>2
<1>7. d.route = "order" => d.subject \in K
  BY <1>2 DEF Target, to
<1>8. d.route = "product" => d.subject \in P
  BY <1>2 DEF Target, to
<1>9. d.ready \in BOOLEAN /\ d.view \in Views(K)
  BY <1>2, BlankView
<1>10. GoodTab(d, K, P)
  BY <1>1, <1>2, <1>4, <1>6, <1>7, <1>8, <1>9 DEF GoodTab
<1> QED BY <1>10 DEF d

\* A tab whose view is replaced.
LEMMA ViewIs ==
  ASSUME NEW c, Shape(c), NEW view
  PROVE  LET d == [c EXCEPT !.view = view]
         IN Shape(d) /\ SamePage(c, d) /\ d.view = view /\ d.calls = c.calls
<1>1. [c EXCEPT !.view = view] = WithCalls(c, view, c.calls)
  BY DEF Shape, WithCalls
<1>2. c.calls = [i \in Slots |-> c.calls[i]]
  BY DEF Shape
<1> QED BY <1>1, <1>2, WithCallsIs

LEMMA GoodView ==
  ASSUME NEW K, NEW P, NEW c, GoodTab(c, K, P), NEW view \in Views(K)
  PROVE  GoodTab([c EXCEPT !.view = view], K, P)
<1>1. Shape(c) /\ c.token \in BOOLEAN /\ c.ready \in BOOLEAN
  BY DEF GoodTab
<1>2. PICK d : d = [c EXCEPT !.view = view]
  OBVIOUS
<1>3. Shape(d) /\ SamePage(c, d) /\ d.view = view /\ d.calls = c.calls
  BY <1>1, <1>2, ViewIs
<1>4. GoodTab(d, K, P)
  BY <1>1, <1>3, GoodFrom DEF SamePage
<1> QED BY <1>2, <1>4

LEMMA TokenIs ==
  ASSUME NEW c, Shape(c), NEW b
  PROVE  LET d == [c EXCEPT !.token = b]
         IN /\ Shape(d) /\ d.token = b /\ d.route = c.route /\ d.ready = c.ready
            /\ d.subject = c.subject /\ d.view = c.view /\ d.calls = c.calls
<1> DEFINE d == [c EXCEPT !.token = b]
<1>1. d = [route |-> c.route, ready |-> c.ready, token |-> b, subject |-> c.subject,
           view |-> c.view, calls |-> c.calls]
  BY DEF Shape
<1> HIDE DEF d
<1>2. /\ d.token = b /\ d.route = c.route /\ d.ready = c.ready
      /\ d.subject = c.subject /\ d.view = c.view /\ d.calls = c.calls
  BY <1>1
<1>3. Shape(d)
  BY <1>1, <1>2 DEF Shape
<1> QED BY <1>2, <1>3 DEF d

LEMMA ReadyIs ==
  ASSUME NEW c, Shape(c), NEW b
  PROVE  LET d == [c EXCEPT !.ready = b]
         IN /\ Shape(d) /\ d.ready = b /\ d.route = c.route /\ d.token = c.token
            /\ d.subject = c.subject /\ d.view = c.view /\ d.calls = c.calls
<1> DEFINE d == [c EXCEPT !.ready = b]
<1>1. d = [route |-> c.route, ready |-> b, token |-> c.token, subject |-> c.subject,
           view |-> c.view, calls |-> c.calls]
  BY DEF Shape
<1> HIDE DEF d
<1>2. /\ d.token = c.token /\ d.route = c.route /\ d.ready = b
      /\ d.subject = c.subject /\ d.view = c.view /\ d.calls = c.calls
  BY <1>1
<1>3. Shape(d)
  BY <1>1, <1>2 DEF Shape
<1> QED BY <1>2, <1>3 DEF d

LEMMA GoodToken ==
  ASSUME NEW K, NEW P, NEW c, GoodTab(c, K, P), NEW b \in BOOLEAN
  PROVE  GoodTab([c EXCEPT !.token = b], K, P) /\ [c EXCEPT !.token = b].token = b
<1>1. Shape(c) /\ c.view \in Views(K) /\ c.ready \in BOOLEAN
  BY DEF GoodTab
<1>2. PICK d : d = [c EXCEPT !.token = b]
  OBVIOUS
<1>3. /\ Shape(d) /\ d.token = b /\ d.route = c.route /\ d.ready = c.ready
      /\ d.subject = c.subject /\ d.view = c.view /\ d.calls = c.calls
  BY <1>1, <1>2, TokenIs
<1>4. GoodTab(d, K, P)
  BY <1>1, <1>3, GoodFrom
<1> QED BY <1>2, <1>3, <1>4

LEMMA GoodReady ==
  ASSUME NEW K, NEW P, NEW c, GoodTab(c, K, P), NEW b \in BOOLEAN
  PROVE  GoodTab([c EXCEPT !.ready = b], K, P)
<1>1. Shape(c) /\ c.view \in Views(K) /\ c.token \in BOOLEAN
  BY DEF GoodTab
<1>2. PICK d : d = [c EXCEPT !.ready = b]
  OBVIOUS
<1>3. /\ Shape(d) /\ d.ready = b /\ d.route = c.route /\ d.token = c.token
      /\ d.subject = c.subject /\ d.view = c.view /\ d.calls = c.calls
  BY <1>1, <1>2, ReadyIs
<1>4. GoodTab(d, K, P)
  BY <1>1, <1>3, GoodFrom
<1> QED BY <1>2, <1>4

LEMMA GoodSignOut ==
  ASSUME NEW K, NEW P, NEW c, GoodTab(c, K, P)
  PROVE  GoodTab(SignOut(c), K, P)
<1>1. PICK no \in BOOLEAN : no = FALSE
  OBVIOUS
<1>2. PICK d : d = [c EXCEPT !.token = no]
  OBVIOUS
<1>3. GoodTab(d, K, P) /\ d.token = no
  BY <1>2, GoodToken
<1>4. SignOut(c) = Mount(d, "login", None)
  BY <1>1, <1>2 DEF SignOut
<1>5. GoodTab(Mount(d, "login", None), K, P)
  BY <1>1, <1>3, GoodMount
<1> QED BY <1>4, <1>5

-----------------------------------------------------------------------------
(* What a page loads.                                                      *)

LEMMA GoodCancel ==
  ASSUME NEW K, NEW P, NEW c, GoodTab(c, K, P), NEW kinds
  PROVE  GoodTab(Cancel(c, kinds), K, P)
<1>1. Shape(c) /\ c.view \in Views(K) /\ c.token \in BOOLEAN /\ c.ready \in BOOLEAN
  BY DEF GoodTab
<1>2. PICK d : d = Cancel(c, kinds)
  OBVIOUS
<1>3. /\ Shape(d) /\ SamePage(c, d) /\ d.view = c.view
      /\ \A j \in Slots : d.calls[j] = IF c.calls[j] # None /\ c.calls[j].kind \in kinds
                                         THEN Left(c.calls[j]) ELSE c.calls[j]
  BY <1>1, <1>2, CancelIs
<1>4. \A j \in Slots : c.calls[j] # None =>
        GoodCall(Left(c.calls[j]), K, P) /\ Left(c.calls[j]).live = FALSE
  BY GoodLeft DEF GoodTab
<1>5. \A f : f.live = FALSE => OfThePage(c, f)
  BY DEF OfThePage
<1>6. GoodTab(d, K, P)
  BY <1>1, <1>3, <1>4, <1>5, GoodFrom DEF SamePage
<1> QED BY <1>2, <1>6

LEMMA LastCursor ==
  ASSUME NEW s \in Seq(Cursor) \ {<<>>}
  PROVE  Last(s) \in Cursor
BY DEF Last

LEMMA LoadOrdersIs ==
  ASSUME NEW K, NEW P, NEW c, GoodTab(c, K, P)
  PROVE  \E d, b, arg :
           /\ LoadOrders(c) = Ask(b, "orders", arg)
           /\ d = Cancel(c, {"orders"}) /\ Shape(d)
           /\ b = [d EXCEPT !.view = [d.view EXCEPT !.rows = None, !.loading = TRUE,
                                                    !.failed = FALSE]]
           /\ arg \in Args("orders", K, P) /\ arg = Query(c.view)
<1>1. Shape(c) /\ c.view \in Views(K)
  BY DEF GoodTab
<1> DEFINE d == Cancel(c, {"orders"})
           arg == [filter |-> c.view.filters, before |-> Last(c.view.cursors)]
           b == [d EXCEPT !.view.rows = None, !.view.loading = TRUE, !.view.failed = FALSE]
<1>2. LoadOrders(c) = Ask(b, "orders", arg)
  BY DEF LoadOrders
<1>3. Shape(d)
  BY <1>1, CancelIs
<1>4. arg \in Args("orders", K, P)
  <2>1. c.view.filters \in Filter /\ c.view.cursors \in Seq(Cursor) \ {<<>>}
    BY <1>1 DEF Views
  <2>2. Last(c.view.cursors) \in Cursor
    BY <2>1, LastCursor
  <2> QED BY <2>1, <2>2 DEF Args
<1>6. arg = Query(c.view)
  BY DEF Query
<1> HIDE DEF d, arg
<1>5. b = [d EXCEPT !.view = [d.view EXCEPT !.rows = None, !.loading = TRUE, !.failed = FALSE]]
  BY <1>3 DEF Shape
<1> HIDE DEF b
<1> QED BY <1>2, <1>3, <1>4, <1>5, <1>6 DEF d

LEMMA GoodLoadOrders ==
  ASSUME NEW K, NEW P, NEW c, GoodTab(c, K, P), c.route = "orders"
  PROVE  GoodTab(LoadOrders(c), K, P)
<1>1. PICK d, b, arg :
        /\ LoadOrders(c) = Ask(b, "orders", arg)
        /\ d = Cancel(c, {"orders"}) /\ Shape(d)
        /\ b = [d EXCEPT !.view = [d.view EXCEPT !.rows = None, !.loading = TRUE,
                                                 !.failed = FALSE]]
        /\ arg \in Args("orders", K, P)
  BY LoadOrdersIs
<1>2. GoodTab(d, K, P) /\ d.view \in Views(K)
  BY <1>1, GoodCancel DEF GoodTab
<1>3. PICK w : w = [d.view EXCEPT !.rows = None, !.loading = TRUE, !.failed = FALSE]
  OBVIOUS
<1>4. w \in Views(K)
  BY <1>2, <1>3 DEF Views
<1>5. GoodTab(b, K, P) /\ b.route = "orders"
  <2>1. Shape(c)
    BY DEF GoodTab
  <2>2. d.route = c.route
    BY <1>1, <2>1, CancelIs DEF SamePage
  <2> QED BY <1>1, <1>2, <1>3, <1>4, <2>2, GoodView, ViewIs DEF SamePage
<1>6. OfThePage(b, Asked("orders", arg))
  BY <1>5, AskedIs DEF OfThePage
<1>7. "orders" \in CallKind
  BY DEF CallKind
<1> QED BY <1>1, <1>5, <1>6, <1>7, GoodAsk

LEMMA LoadOrderIs ==
  ASSUME NEW K, NEW P, NEW c, GoodTab(c, K, P)
  PROVE  LoadOrder(c) =
           Ask([c EXCEPT !.view = [c.view EXCEPT !.loading = TRUE, !.failed = FALSE]],
               "order", c.subject)
<1>1. Shape(c)
  BY DEF GoodTab
<1>2. [c EXCEPT !.view.loading = TRUE, !.view.failed = FALSE]
        = [c EXCEPT !.view = [c.view EXCEPT !.loading = TRUE, !.failed = FALSE]]
  BY <1>1 DEF Shape
<1> QED BY <1>2 DEF LoadOrder

LEMMA GoodLoadOrder ==
  ASSUME NEW K, NEW P, NEW c, GoodTab(c, K, P), c.route = "order"
  PROVE  GoodTab(LoadOrder(c), K, P)
<1>1. PICK w : w = [c.view EXCEPT !.loading = TRUE, !.failed = FALSE]
  OBVIOUS
<1>2. w \in Views(K)
  BY <1>1 DEF GoodTab, Views
<1>3. PICK b : b = [c EXCEPT !.view = w]
  OBVIOUS
<1>4. GoodTab(b, K, P) /\ b.route = "order" /\ b.subject = c.subject /\ c.subject \in K
  <2>1. Shape(c)
    BY DEF GoodTab
  <2> QED BY <1>2, <1>3, <2>1, GoodView, ViewIs DEF SamePage, GoodTab
<1>5. LoadOrder(c) = Ask(b, "order", c.subject)
  BY <1>1, <1>3, LoadOrderIs
<1>6. OfThePage(b, Asked("order", c.subject))
  <2>1. PICK f : f = Asked("order", c.subject)
    OBVIOUS
  <2>2. f.kind = "order" /\ f.arg = c.subject
    BY <2>1, AskedIs
  <2>3. OfThePage(b, f)
    BY <1>4, <2>2 DEF OfThePage
  <2> QED BY <2>1, <2>3
<1>7. "order" \in CallKind /\ c.subject \in Args("order", K, P)
  BY <1>4 DEF CallKind, Args
<1> QED BY <1>4, <1>5, <1>6, <1>7, GoodAsk

LEMMA GoodEnter ==
  ASSUME NEW K, NEW P, NEW c, GoodTab(c, K, P)
  PROVE  GoodTab(Enter(c), K, P)
<1>1. Shape(c) /\ c.route \in Route
  BY DEF GoodTab
<1>2. PICK in : in = [c EXCEPT !.ready = TRUE]
  OBVIOUS
<1>3. GoodTab(in, K, P) /\ in.route = c.route /\ in.subject = c.subject /\ in.view = c.view
  <2>1. PICK yes \in BOOLEAN : yes = TRUE
    OBVIOUS
  <2>2. in = [c EXCEPT !.ready = yes]
    BY <1>2, <2>1
  <2> QED BY <1>1, <2>2, GoodReady, ReadyIs
<1>4. CASE c.route = "login"
  <2>1. Enter(c) = Mount(c, "products", None)
    BY <1>4 DEF Enter
  <2>2. Target("products", None, K, P)
    BY DEF Target, Route
  <2> QED BY <2>1, <2>2, GoodMount
<1>5. CASE c.route = "orders"
  <2>1. Enter(c) = LoadOrders(in)
    BY <1>2, <1>5 DEF Enter
  <2> QED BY <1>3, <1>5, <2>1, GoodLoadOrders
<1>6. CASE c.route = "order"
  <2>1. Enter(c) = LoadOrder(in)
    BY <1>2, <1>6 DEF Enter
  <2> QED BY <1>3, <1>6, <2>1, GoodLoadOrder
<1>7. CASE c.route = "products"
  <2>1. Enter(c) = Ask(in, "products", None)
    BY <1>2, <1>7 DEF Enter
  <2>2. "products" \in CallKind /\ None \in Args("products", K, P)
    BY DEF CallKind, Args
  <2>3. OfThePage(in, Asked("products", None))
    BY AskedIs DEF OfThePage
  <2> QED BY <1>3, <2>1, <2>2, <2>3, GoodAsk
<1>8. CASE c.route = "product"
  <2>1. Enter(c) = Ask(in, "product", c.subject)
    BY <1>2, <1>8 DEF Enter
  <2>2. "product" \in CallKind /\ c.subject \in Args("product", K, P)
    BY <1>8 DEF CallKind, Args, GoodTab
  <2>3. PICK f : f = Asked("product", c.subject)
    OBVIOUS
  <2>4. f.kind = "product" /\ f.arg = c.subject
    BY <2>3, AskedIs
  <2>5. OfThePage(in, f)
    BY <1>3, <1>8, <2>4 DEF OfThePage
  <2> QED BY <1>3, <2>1, <2>2, <2>3, <2>5, GoodAsk
<1>9. CASE c.route = "new"
  <2>1. PICK w : w = [in.view EXCEPT !.draft = NoDraft]
    OBVIOUS
  <2>2. Enter(c) = [in EXCEPT !.view = w]
    <3>1. Enter(c) = [in EXCEPT !.view.draft = NoDraft]
      BY <1>2, <1>9 DEF Enter
    <3>2. Shape(in)
      BY <1>3 DEF GoodTab
    <3> QED BY <2>1, <3>1, <3>2 DEF Shape
  <2>3. w \in Views(K)
    <3>1. in.view \in Views(K)
      BY <1>3 DEF GoodTab
    <3>2. NoDraft \in Form
      BY AdminAssumption DEF NoDraft, Form, Pictures
    <3> QED BY <2>1, <3>1, <3>2 DEF Views
  <2> QED BY <1>3, <2>2, <2>3, GoodView
<1> QED BY <1>1, <1>4, <1>5, <1>6, <1>7, <1>8, <1>9 DEF Route

-----------------------------------------------------------------------------
(* What a page does with an answer.                                        *)

\* The call i of the tab has its answer.
Answered(c, i) == i \in Slots /\ c.calls[i] # None /\ c.calls[i].at = "answered"

LEMMA AnswerIs ==
  ASSUME NEW K, NEW P, NEW c, GoodTab(c, K, P), NEW i, Answered(c, i)
  PROVE  LET f == c.calls[i]
         IN /\ GoodCall(f, K, P) /\ OfThePage(c, f) /\ f.kind \in CallKind /\ f.live \in BOOLEAN
            /\ f.arg \in Args(f.kind, K, P)
            /\ ~ Failed(c, i) => f.status = "ok" /\ f.body \in Bodies(f.kind, K, P)
BY DEF Answered, GoodTab, GoodCall, Failed

LEMMA RestedView ==
  ASSUME NEW K, NEW P, NEW c, GoodTab(c, K, P), NEW kind
  PROVE  Rested(c, kind) \in Views(K)
BY DEF GoodTab, Rested, Views

LEMMA GoodMeHeard ==
  ASSUME NEW K, NEW P, NEW c, GoodTab(c, K, P), NEW i, Answered(c, i)
  PROVE  GoodTab(MeHeard(c, i), K, P)
<1>1. i \in Slots /\ Shape(c)
  BY DEF Answered, GoodTab
<1>2. GoodTab(End(c, i), K, P) /\ End(c, i).token = c.token
  BY <1>1, GoodEnd, EndIs DEF SamePage
<1>3. PICK no \in BOOLEAN : no = FALSE
  OBVIOUS
<1>4. GoodTab([End(c, i) EXCEPT !.token = no], K, P)
  BY <1>2, GoodToken
<1>5. GoodTab([End(c, i) EXCEPT !.token = FALSE], K, P)
  BY <1>3, <1>4
<1>6. c.calls[i].live => GoodTab(Enter(End(c, i)), K, P)
  BY <1>2, GoodEnter
<1>7. GoodTab(SignOut(End(c, i)), K, P)
  BY <1>2, GoodSignOut
<1> QED BY <1>2, <1>5, <1>6, <1>7 DEF MeHeard

LEMMA GoodLoginHeard ==
  ASSUME NEW K, NEW P, NEW c, GoodTab(c, K, P), NEW i, Answered(c, i)
  PROVE  GoodTab(LoginHeard(c, i), K, P)
<1>1. i \in Slots
  BY DEF Answered
<1>2. GoodTab(Show(c, i, Rested(c, "login")), K, P)
  BY <1>1, RestedView, GoodShow
<1>3. PICK yes \in BOOLEAN : yes = TRUE
  OBVIOUS
<1>4. PICK d : d = [End(c, i) EXCEPT !.token = yes]
  OBVIOUS
<1>5. GoodTab(d, K, P)
  BY <1>1, <1>4, GoodEnd, GoodToken
<1>6. Target("products", None, K, P)
  BY DEF Target, Route
<1>7. GoodTab(Mount(d, "products", None), K, P)
  BY <1>5, <1>6, GoodMount
<1>8. Mount([End(c, i) EXCEPT !.token = TRUE], "products", None) = Mount(d, "products", None)
  BY <1>3, <1>4
<1> QED BY <1>2, <1>7, <1>8 DEF LoginHeard

LEMMA GoodOrdersHeard ==
  ASSUME NEW K, NEW P, NEW c, GoodTab(c, K, P), NEW i, Answered(c, i), c.calls[i].kind = "orders"
  PROVE  GoodTab(OrdersHeard(c, i), K, P)
<1>1. i \in Slots /\ c.view \in Views(K)
  BY DEF Answered, GoodTab
<1> DEFINE body == c.calls[i].body
           v == IF Failed(c, i) THEN [c.view EXCEPT !.loading = FALSE, !.failed = TRUE]
                ELSE [c.view EXCEPT !.loading = FALSE, !.rows = body.rows, !.next = body.next]
<1>2. v \in Views(K)
  <2>1. CASE Failed(c, i)
    BY <1>1, <2>1 DEF Views
  <2>2. CASE ~ Failed(c, i)
    <3>1. body \in [rows : SUBSET K, next : Cursor]
      BY <2>2, AnswerIs DEF Bodies
    <3>2. body.rows \in {None} \cup SUBSET K /\ body.next \in Cursor
      BY <3>1
    <3> HIDE DEF body
    <3> QED BY <1>1, <2>2, <3>2 DEF Views
  <2> QED BY <2>1, <2>2
<1>3. OrdersHeard(c, i) = Show(c, i, v)
  BY DEF OrdersHeard
<1> HIDE DEF v
<1> QED BY <1>1, <1>2, <1>3, GoodShow

LEMMA GoodOrderHeard ==
  ASSUME NEW K, NEW P, NEW c, GoodTab(c, K, P), NEW i, Answered(c, i), c.calls[i].kind = "order"
  PROVE  GoodTab(OrderHeard(c, i), K, P)
<1>1. i \in Slots /\ c.view \in Views(K)
  BY DEF Answered, GoodTab
<1> DEFINE v == IF Failed(c, i) THEN [c.view EXCEPT !.loading = FALSE, !.failed = TRUE]
                ELSE [c.view EXCEPT !.loading = FALSE, !.shown = c.calls[i].body]
<1>2. v \in Views(K)
  <2>1. CASE Failed(c, i)
    BY <1>1, <2>1 DEF Views
  <2>2. CASE ~ Failed(c, i)
    <3>1. c.calls[i].body \in Order
      BY <2>2, AnswerIs DEF Bodies
    <3> QED BY <1>1, <2>2, <3>1 DEF Views
  <2> QED BY <2>1, <2>2
<1>3. OrderHeard(c, i) = Show(c, i, v)
  BY DEF OrderHeard
<1> HIDE DEF v
<1> QED BY <1>1, <1>2, <1>3, GoodShow

LEMMA GoodAdvanceHeard ==
  ASSUME NEW K, NEW P, NEW c, GoodTab(c, K, P), NEW i, Answered(c, i), c.calls[i].kind = "advance"
  PROVE  GoodTab(AdvanceHeard(c, i), K, P)
<1>1. i \in Slots /\ Shape(c)
  BY DEF Answered, GoodTab
<1> DEFINE v == IF Failed(c, i) THEN Rested(c, "advance")
                ELSE [Rested(c, "advance") EXCEPT !.shown = c.calls[i].body]
           heard == Show(c, i, v)
<1>2. v \in Views(K)
  <2>1. CASE Failed(c, i)
    BY <2>1, RestedView
  <2>2. CASE ~ Failed(c, i)
    <3>1. c.calls[i].body \in Order
      BY <2>2, AnswerIs DEF Bodies
    <3>2. Rested(c, "advance") \in Views(K)
      BY RestedView
    <3> QED BY <2>2, <3>1, <3>2 DEF Views
  <2> QED BY <2>1, <2>2
<1>3. AdvanceHeard(c, i) = IF c.calls[i].status = "409" /\ c.calls[i].live
                           THEN LoadOrder(heard) ELSE heard
  BY DEF AdvanceHeard
<1> HIDE DEF v
<1>4. GoodTab(heard, K, P) /\ heard.route = c.route
  BY <1>1, <1>2, GoodShow, ShowIs DEF SamePage
<1>5. c.calls[i].live => c.route = "order"
  BY AnswerIs DEF OfThePage
<1> HIDE DEF heard
<1> QED BY <1>3, <1>4, <1>5, GoodLoadOrder

LEMMA GoodProductHeard ==
  ASSUME NEW K, NEW P, NEW c, GoodTab(c, K, P), NEW i, Answered(c, i), c.calls[i].kind = "product"
  PROVE  GoodTab(ProductHeard(c, i), K, P)
<1>1. i \in Slots /\ c.view \in Views(K)
  BY DEF Answered, GoodTab
<1> DEFINE v == IF Failed(c, i) THEN [c.view EXCEPT !.failed = TRUE]
                ELSE [c.view EXCEPT !.draft = ProductToDraft(c.calls[i].body)]
<1>2. v \in Views(K)
  <2>1. CASE Failed(c, i)
    BY <1>1, <2>1 DEF Views
  <2>2. CASE ~ Failed(c, i)
    <3>1. c.calls[i].body \in Form
      BY <2>2, AnswerIs DEF Bodies
    <3> QED BY <1>1, <2>2, <3>1 DEF Views, ProductToDraft
  <2> QED BY <2>1, <2>2
<1>3. ProductHeard(c, i) = Show(c, i, v)
  BY DEF ProductHeard
<1> HIDE DEF v
<1> QED BY <1>1, <1>2, <1>3, GoodShow

LEMMA GoodSaveHeard ==
  ASSUME NEW K, NEW P, NEW c, GoodTab(c, K, P), NEW i, Answered(c, i), c.calls[i].kind = "save"
  PROVE  GoodTab(SaveHeard(c, i), K, P)
<1>1. i \in Slots
  BY DEF Answered
<1> DEFINE v == IF Failed(c, i) THEN Rested(c, "save")
                ELSE [Rested(c, "save") EXCEPT !.draft = ProductToDraft(c.calls[i].body)]
<1>2. v \in Views(K)
  <2>1. CASE Failed(c, i)
    BY <2>1, RestedView
  <2>2. CASE ~ Failed(c, i)
    <3>1. c.calls[i].body \in Form
      BY <2>2, AnswerIs DEF Bodies
    <3>2. Rested(c, "save") \in Views(K)
      BY RestedView
    <3> QED BY <2>2, <3>1, <3>2 DEF Views, ProductToDraft
  <2> QED BY <2>1, <2>2
<1>3. SaveHeard(c, i) = Show(c, i, v)
  BY DEF SaveHeard
<1> HIDE DEF v
<1> QED BY <1>1, <1>2, <1>3, GoodShow

LEMMA GoodCreateHeard ==
  ASSUME NEW K, NEW P, NEW c, GoodTab(c, K, P), NEW i, Answered(c, i), c.calls[i].kind = "create"
  PROVE  GoodTab(CreateHeard(c, i), K, P)
<1>1. i \in Slots
  BY DEF Answered
<1>2. GoodTab(Show(c, i, Rested(c, "save")), K, P)
  BY <1>1, RestedView, GoodShow
<1>3. CASE ~ Failed(c, i)
  <2>1. c.calls[i].body \in P
    <3>1. Bodies("create", K, P) = P
      BY DEF Bodies
    <3>2. c.calls[i].body \in Bodies(c.calls[i].kind, K, P)
      BY <1>3, AnswerIs
    <3> QED BY <3>1, <3>2
  <2>2. Target("product", c.calls[i].body, K, P)
    BY <2>1 DEF Target, Route
  <2>3. GoodTab(End(c, i), K, P)
    BY <1>1, GoodEnd
  <2>4. GoodTab(Mount(End(c, i), "product", c.calls[i].body), K, P)
    BY <2>2, <2>3, GoodMount
  <2> QED BY <1>3, <2>4 DEF CreateHeard
<1> QED BY <1>2, <1>3 DEF CreateHeard

LEMMA GoodRetireHeard ==
  ASSUME NEW K, NEW P, NEW c, GoodTab(c, K, P), NEW i, Answered(c, i)
  PROVE  GoodTab(RetireHeard(c, i), K, P)
<1>1. i \in Slots
  BY DEF Answered
<1>2. GoodTab(Show(c, i, Rested(c, "retire")), K, P)
  BY <1>1, RestedView, GoodShow
<1>3. Target("products", None, K, P)
  BY DEF Target, Route
<1>4. GoodTab(Mount(End(c, i), "products", None), K, P)
  BY <1>1, <1>3, GoodEnd, GoodMount
<1> QED BY <1>2, <1>4 DEF RetireHeard

\* A picture the form does not have yet.
LEMMA AddImageForm ==
  ASSUME NEW draft \in Form, NEW image \in Images, image \notin Range(draft.images)
  PROVE  /\ AddImage(draft, image) \in Form
         /\ AddImage(draft, image).stock = draft.stock
         /\ AddImage(draft, image).active = draft.active
         /\ Range(AddImage(draft, image).images) = Range(draft.images) \cup {image}
<1>1. PICK s : s = draft.images
  OBVIOUS
<1>2. s \in Pictures /\ s \in Seq(Images)
  BY <1>1 DEF Form, Pictures
<1>3. PICK t : t = Append(s, image)
  OBVIOUS
<1>4. /\ t \in Seq(Images) /\ Len(t) = Len(s) + 1 /\ t[Len(s) + 1] = image
      /\ \A n \in 1..Len(s) : t[n] = s[n]
  BY <1>2, <1>3, AppendProperties
<1>5. DOMAIN s = 1..Len(s) /\ DOMAIN t = 1..Len(t) /\ Len(s) \in Nat
  BY <1>2, <1>4
<1>6. \A n \in DOMAIN s : s[n] # image
  BY <1>1 DEF Range
<1>7. ASSUME NEW m \in DOMAIN t, NEW n \in DOMAIN t, t[m] = t[n]
      PROVE  m = n
  <2>1. \A k \in DOMAIN t : k \in DOMAIN s \/ k = Len(s) + 1
    BY <1>4, <1>5
  <2>2. \A k \in DOMAIN s : t[k] = s[k]
    BY <1>4, <1>5
  <2>3. \A j, k \in DOMAIN s : s[j] = s[k] => j = k
    BY <1>2 DEF Pictures
  <2> QED BY <2>1, <2>2, <2>3, <1>4, <1>6, <1>7
<1>8. t \in Pictures
  BY <1>4, <1>7 DEF Pictures
<1>9. Range(t) = Range(s) \cup {image}
  <2>1. Range(t) = {t[k] : k \in 1..Len(s) + 1} /\ Range(s) = {s[k] : k \in 1..Len(s)}
    BY <1>4, <1>5 DEF Range
  <2>2. 1..Len(s) + 1 = (1..Len(s)) \cup {Len(s) + 1}
    BY <1>5
  <2> QED BY <2>1, <2>2, <1>4
<1>10. AddImage(draft, image) = [draft EXCEPT !.images = t]
  BY <1>1, <1>3 DEF AddImage
<1> QED BY <1>1, <1>8, <1>9, <1>10 DEF Form

\* The answer of an upload brings a picture the form does not have.
FreshUpload(c, i) ==
  c.calls[i].kind = "upload" /\ c.calls[i].live /\ c.calls[i].status = "ok" =>
    c.view.draft \in Form /\ c.calls[i].body \notin Range(c.view.draft.images)

LEMMA GoodUploadHeard ==
  ASSUME NEW K, NEW P, NEW c, GoodTab(c, K, P), NEW i, Answered(c, i),
         c.calls[i].kind = "upload", FreshUpload(c, i)
  PROVE  GoodTab(UploadHeard(c, i), K, P)
<1>1. i \in Slots /\ c.view \in Views(K)
  BY DEF Answered, GoodTab
<1> DEFINE rested == Rested(c, "upload")
           v == IF Failed(c, i) THEN rested
                ELSE [rested EXCEPT !.draft = AddImage(rested.draft, c.calls[i].body)]
<1>2. rested \in Views(K) /\ rested.draft = c.view.draft
  BY <1>1, RestedView DEF Rested, Views
<1>3. UploadHeard(c, i) = Show(c, i, v)
  BY DEF UploadHeard
<1> HIDE DEF rested
<1>4. c.calls[i].live => v \in Views(K)
  <2>1. CASE Failed(c, i)
    BY <1>2, <2>1
  <2>2. CASE ~ Failed(c, i) /\ c.calls[i].live
    <3>1. c.calls[i].body \in Images
      <4>1. Bodies("upload", K, P) = Images
        BY DEF Bodies
      <4>2. c.calls[i].body \in Bodies(c.calls[i].kind, K, P) /\ c.calls[i].status = "ok"
        BY <2>2, AnswerIs
      <4> QED BY <4>1, <4>2
    <3>2. rested.draft \in Form /\ c.calls[i].body \notin Range(rested.draft.images)
      BY <1>2, <2>2 DEF FreshUpload, Failed
    <3>3. AddImage(rested.draft, c.calls[i].body) \in Form
      BY <3>1, <3>2, AddImageForm
    <3> QED BY <1>2, <2>2, <3>3 DEF Views
  <2> QED BY <2>1, <2>2
<1> HIDE DEF v
<1> QED BY <1>1, <1>3, <1>4, GoodShow

LEMMA GoodHeard ==
  ASSUME NEW K, NEW P, NEW c, GoodTab(c, K, P), NEW i, Answered(c, i), FreshUpload(c, i)
  PROVE  GoodTab(Heard(c, i), K, P)
<1>1. i \in Slots /\ c.view \in Views(K) /\ c.calls[i].kind \in CallKind
  BY AnswerIs DEF Answered, GoodTab
<1>2. GoodTab(SignOut(End(c, i)), K, P)
  BY <1>1, GoodEnd, GoodSignOut
<1>3. GoodTab(Show(c, i, Rested(c, "label")), K, P) /\ GoodTab(Show(c, i, c.view), K, P)
  BY <1>1, RestedView, GoodShow
<1>4. CASE c.calls[i].status = "401"
  BY <1>2, <1>4 DEF Heard
<1>5. CASE c.calls[i].status # "401"
  <2>1. CASE c.calls[i].kind = "me"
    BY <1>5, <2>1, GoodMeHeard DEF Heard
  <2>2. CASE c.calls[i].kind = "login"
    BY <1>5, <2>2, GoodLoginHeard DEF Heard
  <2>3. CASE c.calls[i].kind = "orders"
    BY <1>5, <2>3, GoodOrdersHeard DEF Heard
  <2>4. CASE c.calls[i].kind = "order"
    BY <1>5, <2>4, GoodOrderHeard DEF Heard
  <2>5. CASE c.calls[i].kind = "advance"
    BY <1>5, <2>5, GoodAdvanceHeard DEF Heard
  <2>6. CASE c.calls[i].kind = "label"
    BY <1>3, <1>5, <2>6 DEF Heard
  <2>7. CASE c.calls[i].kind = "products"
    BY <1>3, <1>5, <2>7 DEF Heard
  <2>8. CASE c.calls[i].kind = "product"
    BY <1>5, <2>8, GoodProductHeard DEF Heard
  <2>9. CASE c.calls[i].kind = "save"
    BY <1>5, <2>9, GoodSaveHeard DEF Heard
  <2>10. CASE c.calls[i].kind = "create"
    BY <1>5, <2>10, GoodCreateHeard DEF Heard
  <2>11. CASE c.calls[i].kind = "retire"
    BY <1>5, <2>11, GoodRetireHeard DEF Heard
  <2>12. CASE c.calls[i].kind = "upload"
    BY <1>5, <2>12, GoodUploadHeard DEF Heard
  <2> QED BY <1>1, <2>1, <2>2, <2>3, <2>4, <2>5, <2>6, <2>7, <2>8, <2>9, <2>10, <2>11, <2>12
          DEF CallKind
<1> QED BY <1>4, <1>5

-----------------------------------------------------------------------------
(* One thing at a time, operator by operator.                              *)

LEMMA OneMore ==
  ASSUME NEW c, NEW s, NEW t, s \subseteq t, OneAtATime(c, s)
  PROVE  OneAtATime(c, t)
BY DEF OneAtATime

\* Nothing is under way.
Idle(c) == \A i \in Slots : ~ Live(c, i)

LEMMA OneIdle ==
  ASSUME NEW c, NEW s, Idle(c), ~ c.ready => c.view.draft = None
  PROVE  OneAtATime(c, s)
BY DEF OneAtATime, LiveCalls, Idle, Single

\* The call i has ended and the view has changed accordingly.
\* What the view may lose with the call i: what this call was waited for.
Leaves(c, d, i) ==
  /\ c.view.draft # None => d.view.draft # None
  /\ d.view.draft # None => c.view.draft # None \/ (Live(c, i) /\ c.calls[i].kind = "product")
  /\ "save" \in c.view.busy =>
       "save" \in d.view.busy \/ (Live(c, i) /\ c.calls[i].kind \in {"save", "create"})
  /\ "upload" \in c.view.busy =>
       "upload" \in d.view.busy \/ (Live(c, i) /\ c.calls[i].kind = "upload")
  /\ "advance" \in c.view.busy =>
       "advance" \in d.view.busy \/ (Live(c, i) /\ c.calls[i].kind = "advance")
  /\ c.view.loading =>
       \/ d.view.loading \/ LiveCalls(c, {"order"}) = {}
       \/ Live(c, i) /\ c.calls[i].kind = "order"

LEMMA OneEnds ==
  ASSUME NEW c, NEW d, NEW s, OneAtATime(c, s), NEW i \in Slots, d.ready = c.ready,
         \A j \in Slots : Live(d, j) => j # i /\ Live(c, j) /\ d.calls[j].kind = c.calls[j].kind,
         c.calls[i].kind \in CallKind, Leaves(c, d, i)
  PROVE  OneAtATime(d, s)
<1> USE DEF Leaves
<1>1. \A kinds : LiveCalls(d, kinds) \subseteq LiveCalls(c, kinds) \ {i}
  BY DEF LiveCalls
<1>2. \A j \in LiveCalls(d, CallKind) : d.calls[j].kind = c.calls[j].kind
  BY DEF LiveCalls
<1>3. ASSUME NEW S, NEW T, S \subseteq T, Single(T)
      PROVE  Single(S) /\ \A j \in T : S \subseteq T \ {j} => S = {}
  BY <1>3 DEF Single
<1>4. Live(c, i) => \A kinds : c.calls[i].kind \in kinds => i \in LiveCalls(c, kinds)
  BY DEF LiveCalls
<1>5. \A j \in LiveCalls(d, CallKind) : d.calls[j].kind = "me" <=> ~ d.ready
  BY <1>1, <1>2 DEF OneAtATime
<1>6. \A j \in LiveCalls(d, {"me", "product"}) : \A k \in LiveCalls(d, CallKind) : j = k
  BY <1>1 DEF OneAtATime
<1>7. ~ d.ready \/ LiveCalls(d, {"product"}) # {} => d.view.draft = None
  <2>1. CASE Live(c, i) /\ c.calls[i].kind = "product"
    <3>1. i \in LiveCalls(c, {"me", "product"}) /\ i \in LiveCalls(c, CallKind)
      BY <1>4, <2>1
    <3>2. \A j \in LiveCalls(c, CallKind) : i = j
      BY <3>1 DEF OneAtATime
    <3>3. c.ready
      BY <2>1, <3>1 DEF OneAtATime
    <3>4. LiveCalls(c, {"product"}) \subseteq LiveCalls(c, CallKind)
      BY DEF LiveCalls, CallKind
    <3> QED BY <1>1, <3>2, <3>3, <3>4
  <2>2. CASE ~ (Live(c, i) /\ c.calls[i].kind = "product")
    BY <1>1, <2>2 DEF OneAtATime
  <2> QED BY <2>1, <2>2
<1>8. /\ Single(LiveCalls(d, {"save", "create"})) /\ Single(LiveCalls(d, {"upload"}))
      /\ Single(LiveCalls(d, {"advance"}))
      /\ "overlap" \notin s => Single(LiveCalls(d, {"order", "advance"}))
  BY <1>1, <1>3 DEF OneAtATime
<1>9. LiveCalls(d, {"save", "create"}) # {} => "save" \in d.view.busy /\ d.view.draft # None
  <2>1. CASE Live(c, i) /\ c.calls[i].kind \in {"save", "create"}
    <3>1. i \in LiveCalls(c, {"save", "create"}) /\ Single(LiveCalls(c, {"save", "create"}))
      BY <1>4, <2>1 DEF OneAtATime
    <3>2. \A j \in LiveCalls(c, {"save", "create"}) : j = i
      BY <3>1 DEF Single
    <3> QED BY <1>1, <3>2
  <2>2. CASE ~ (Live(c, i) /\ c.calls[i].kind \in {"save", "create"})
    BY <1>1, <2>2 DEF OneAtATime
  <2> QED BY <2>1, <2>2
<1>10. LiveCalls(d, {"upload"}) # {} => "upload" \in d.view.busy /\ d.view.draft # None
  <2>1. CASE Live(c, i) /\ c.calls[i].kind = "upload"
    <3>1. i \in LiveCalls(c, {"upload"}) /\ Single(LiveCalls(c, {"upload"}))
      BY <1>4, <2>1 DEF OneAtATime
    <3>2. \A j \in LiveCalls(c, {"upload"}) : j = i
      BY <3>1 DEF Single
    <3> QED BY <1>1, <3>2
  <2>2. CASE ~ (Live(c, i) /\ c.calls[i].kind = "upload")
    BY <1>1, <2>2 DEF OneAtATime
  <2> QED BY <2>1, <2>2
<1>11. LiveCalls(d, {"advance"}) # {} => "advance" \in d.view.busy
  <2>1. CASE Live(c, i) /\ c.calls[i].kind = "advance"
    <3>1. i \in LiveCalls(c, {"advance"}) /\ Single(LiveCalls(c, {"advance"}))
      BY <1>4, <2>1 DEF OneAtATime
    <3>2. \A j \in LiveCalls(c, {"advance"}) : j = i
      BY <3>1 DEF Single
    <3> QED BY <1>1, <3>2
  <2>2. CASE ~ (Live(c, i) /\ c.calls[i].kind = "advance")
    BY <1>1, <2>2 DEF OneAtATime
  <2> QED BY <2>1, <2>2
<1>12. "overlap" \notin s => (LiveCalls(d, {"order"}) # {} => d.view.loading)
  <2>1. CASE Live(c, i) /\ c.calls[i].kind = "order" /\ "overlap" \notin s
    <3>1. i \in LiveCalls(c, {"order"}) /\ i \in LiveCalls(c, {"order", "advance"})
      BY <1>4, <2>1
    <3>2. LiveCalls(c, {"order"}) \subseteq LiveCalls(c, {"order", "advance"})
      BY DEF LiveCalls
    <3>3. Single(LiveCalls(c, {"order"}))
      BY <1>3, <2>1, <3>2 DEF OneAtATime
    <3>4. \A j \in LiveCalls(c, {"order"}) : j = i
      BY <3>1, <3>3 DEF Single
    <3> QED BY <1>1, <3>4
  <2>2. CASE ~ (Live(c, i) /\ c.calls[i].kind = "order")
    BY <1>1, <2>2 DEF OneAtATime
  <2> QED BY <2>1, <2>2
<1> QED BY <1>5, <1>6, <1>7, <1>8, <1>9, <1>10, <1>11, <1>12 DEF OneAtATime

\* The button rests, or there is none: what keeps a call from being asked.
MayAsk(c, kind, s) ==
  /\ kind = "me" <=> ~ c.ready
  /\ kind \in {"me", "product"} => Idle(c)
  /\ LiveCalls(c, {"me", "product"}) = {}
  /\ kind = "product" => c.view.draft = None
  /\ kind \in {"save", "create"} =>
       /\ LiveCalls(c, {"save", "create"}) = {}
       /\ "save" \in c.view.busy /\ c.view.draft # None
  /\ kind = "upload" =>
       /\ LiveCalls(c, {"upload"}) = {}
       /\ "upload" \in c.view.busy /\ c.view.draft # None
  /\ kind = "advance" => LiveCalls(c, {"advance"}) = {} /\ "advance" \in c.view.busy
  /\ "overlap" \notin s =>
       /\ kind \in {"order", "advance"} => LiveCalls(c, {"order", "advance"}) = {}
       /\ kind = "order" => c.view.loading

LEMMA OneAsk ==
  ASSUME NEW c, NEW s, OneAtATime(c, s), Shape(c), NEW kind, NEW arg, MayAsk(c, kind, s),
         ~ c.ready => c.view.draft = None
  PROVE  OneAtATime(Ask(c, kind, arg), s)
<1> DEFINE n == Free(c)
<1>1. PICK d : d = Ask(c, kind, arg)
  OBVIOUS
<1>2. /\ SamePage(c, d) /\ d.view = c.view
      /\ \A j \in Slots : d.calls[j] = IF j = n THEN Asked(kind, arg) ELSE c.calls[j]
  BY <1>1, AskIs
<1>3. Asked(kind, arg).kind = kind
  BY AskedIs
<1> HIDE DEF n
<1>4. \A j \in Slots : Live(d, j) => \/ j = n /\ d.calls[j].kind = kind
                                     \/ Live(c, j) /\ d.calls[j].kind = c.calls[j].kind
  BY <1>2, <1>3 DEF Live
<1>5. \A kinds : LiveCalls(d, kinds) \subseteq LiveCalls(c, kinds) \cup {n}
  BY <1>4 DEF LiveCalls
<1>6. \A kinds : kind \notin kinds => LiveCalls(d, kinds) \subseteq LiveCalls(c, kinds)
  BY <1>4 DEF LiveCalls
<1>7. \A S, T : Single(T) /\ S \subseteq T => Single(S)
  BY DEF Single
<1>8. \A S : S \subseteq {} \cup {n} => Single(S)
  BY DEF Single
<1>9. \A j \in LiveCalls(d, CallKind) : d.calls[j].kind = "me" <=> ~ d.ready
  BY <1>2, <1>4 DEF OneAtATime, LiveCalls, MayAsk, SamePage
<1>10. \A j \in LiveCalls(d, {"me", "product"}) : \A k \in LiveCalls(d, CallKind) : j = k
  <2>1. CASE kind \in {"me", "product"}
    <3>1. \A j \in Slots : Live(d, j) => j = n
      BY <1>4, <2>1 DEF MayAsk, Idle
    <3> QED BY <3>1 DEF LiveCalls
  <2>2. CASE kind \notin {"me", "product"}
    BY <1>6, <2>2 DEF MayAsk
  <2> QED BY <2>1, <2>2
<1>11. ~ d.ready \/ LiveCalls(d, {"product"}) # {} => d.view.draft = None
  BY <1>2, <1>6 DEF OneAtATime, MayAsk, SamePage
<1>12. /\ Single(LiveCalls(d, {"save", "create"}))
       /\ LiveCalls(d, {"save", "create"}) # {} => "save" \in d.view.busy /\ d.view.draft # None
  <2>1. CASE kind \in {"save", "create"}
    BY <1>2, <1>5, <1>8, <2>1 DEF MayAsk
  <2>2. CASE kind \notin {"save", "create"}
    BY <1>2, <1>6, <1>7, <2>2 DEF OneAtATime
  <2> QED BY <2>1, <2>2
<1>13. /\ Single(LiveCalls(d, {"upload"}))
       /\ LiveCalls(d, {"upload"}) # {} => "upload" \in d.view.busy /\ d.view.draft # None
  <2>1. CASE kind = "upload"
    BY <1>2, <1>5, <1>8, <2>1 DEF MayAsk
  <2>2. CASE kind # "upload"
    BY <1>2, <1>6, <1>7, <2>2 DEF OneAtATime
  <2> QED BY <2>1, <2>2
<1>14. /\ Single(LiveCalls(d, {"advance"}))
       /\ LiveCalls(d, {"advance"}) # {} => "advance" \in d.view.busy
  <2>1. CASE kind = "advance"
    BY <1>2, <1>5, <1>8, <2>1 DEF MayAsk
  <2>2. CASE kind # "advance"
    BY <1>2, <1>6, <1>7, <2>2 DEF OneAtATime
  <2> QED BY <2>1, <2>2
<1>15. "overlap" \notin s => /\ Single(LiveCalls(d, {"order", "advance"}))
                             /\ LiveCalls(d, {"order"}) # {} => d.view.loading
  <2>1. CASE kind = "order"
    BY <1>2, <1>5, <1>8, <2>1 DEF MayAsk
  <2>2. CASE kind = "advance"
    BY <1>2, <1>5, <1>6, <1>8, <2>2 DEF MayAsk, OneAtATime
  <2>3. CASE kind \notin {"order", "advance"}
    BY <1>2, <1>6, <1>7, <2>3 DEF OneAtATime
  <2> QED BY <2>1, <2>2, <2>3
<1>16. OneAtATime(d, s)
  BY ONLY <1>9, <1>10, <1>11, <1>12, <1>13, <1>14, <1>15 DEF OneAtATime
<1> QED BY <1>1, <1>16

\* The page still waits for its guard.
LEMMA OneGuard ==
  ASSUME NEW d, NEW s, NEW n, ~ d.ready, d.view.draft = None,
         \A j \in Slots : Live(d, j) => j = n /\ d.calls[j].kind = "me"
  PROVE  OneAtATime(d, s)
<1>1. \A kinds : "me" \notin kinds => LiveCalls(d, kinds) = {}
  BY DEF LiveCalls
<1>2. \A kinds : \A j \in LiveCalls(d, kinds) : j = n /\ d.calls[j].kind = "me"
  BY DEF LiveCalls
<1> QED BY <1>1, <1>2 DEF OneAtATime, Single

\* Fewer calls, the same buttons.
LEMMA OneFewer ==
  ASSUME NEW c, NEW d, NEW s, OneAtATime(c, s), d.ready = c.ready,
         \A j \in Slots : Live(d, j) => Live(c, j) /\ d.calls[j].kind = c.calls[j].kind,
         d.view.draft = None <=> c.view.draft = None,
         c.view.busy \subseteq d.view.busy,
         c.view.loading => d.view.loading \/ LiveCalls(c, {"order"}) = {}
  PROVE  OneAtATime(d, s)
<1>1. \A kinds : LiveCalls(d, kinds) \subseteq LiveCalls(c, kinds)
  BY DEF LiveCalls
<1>2. \A j \in LiveCalls(d, CallKind) : d.calls[j].kind = c.calls[j].kind
  BY DEF LiveCalls
<1>3. \A S, T : S \subseteq T /\ Single(T) => Single(S)
  BY DEF Single
<1>4. \A j \in LiveCalls(d, CallKind) : d.calls[j].kind = "me" <=> ~ d.ready
  BY <1>1, <1>2 DEF OneAtATime
<1>5. \A j \in LiveCalls(d, {"me", "product"}) : \A k \in LiveCalls(d, CallKind) : j = k
  BY <1>1 DEF OneAtATime
<1>6. ~ d.ready \/ LiveCalls(d, {"product"}) # {} => d.view.draft = None
  BY <1>1 DEF OneAtATime
<1>7. /\ Single(LiveCalls(d, {"save", "create"})) /\ Single(LiveCalls(d, {"upload"}))
      /\ Single(LiveCalls(d, {"advance"}))
      /\ "overlap" \notin s => Single(LiveCalls(d, {"order", "advance"}))
  BY <1>1, <1>3 DEF OneAtATime
<1>8. /\ LiveCalls(d, {"save", "create"}) # {} => "save" \in d.view.busy /\ d.view.draft # None
      /\ LiveCalls(d, {"upload"}) # {} => "upload" \in d.view.busy /\ d.view.draft # None
      /\ LiveCalls(d, {"advance"}) # {} => "advance" \in d.view.busy
  BY <1>1 DEF OneAtATime
<1>9. "overlap" \notin s => (LiveCalls(d, {"order"}) # {} => d.view.loading)
  BY <1>1 DEF OneAtATime
<1>10. OneAtATime(d, s)
  BY ONLY <1>4, <1>5, <1>6, <1>7, <1>8, <1>9 DEF OneAtATime
<1> QED BY <1>10

\* What a page that was just opened has under way.
LEMMA OpenedIs ==
  ASSUME NEW K, NEW P, NEW c, GoodTab(c, K, P), NEW route, NEW subject
  PROVE  LET d == Mount(c, route, subject)
         IN /\ d.view.draft = None /\ d.view.shown = None
            /\ \E n : \A j \in Slots : Live(d, j) => /\ c.token /\ j = n /\ d.calls[j].kind = "me"
<1>1. Shape(c)
  BY DEF GoodTab
<1>2. PICK d : d = Mount(c, route, subject)
  OBVIOUS
<1>3. d.view = Blank /\ \E n : Opened(c, d, n)
  BY <1>1, <1>2, MountIs
<1>4. PICK n : Opened(c, d, n)
  BY <1>3
<1>5. ASSUME NEW j \in Slots, Live(d, j)
      PROVE  c.token /\ j = n /\ d.calls[j].kind = "me"
  <2>1. CASE c.token /\ j = n
    BY <2>1, <1>4, AskedIs DEF Opened
  <2>2. CASE ~ (c.token /\ j = n)
    <3>1. CASE c.calls[j] = None
      BY <2>2, <3>1, <1>4, <1>5 DEF Opened, Live
    <3>2. CASE c.calls[j] # None
      <4>1. GoodCall(c.calls[j], K, P) /\ c.calls[j].kind \in CallKind
        BY <3>2 DEF GoodTab, GoodCall
      <4>2. d.calls[j] = Left(c.calls[j])
        BY <1>4, <2>2, <3>2, <4>1 DEF Opened
      <4>3. Left(c.calls[j]).live = FALSE
        BY <4>1, GoodLeft
      <4> QED BY <4>2, <4>3, <1>5 DEF Live
    <3> QED BY <3>1, <3>2
  <2> QED BY <2>1, <2>2
<1>6. Blank.draft = None /\ Blank.shown = None
  BY DEF Blank
<1> QED BY <1>2, <1>3, <1>5, <1>6

LEMMA OneMount ==
  ASSUME NEW K, NEW P, NEW c, GoodTab(c, K, P), NEW route, NEW subject, NEW s
  PROVE  OneAtATime(Mount(c, route, subject), s)
<1>1. Shape(c) /\ c.token \in BOOLEAN
  BY DEF GoodTab
<1>2. PICK d : d = Mount(c, route, subject)
  OBVIOUS
<1>3. d.ready = ~ c.token
  BY <1>1, <1>2, MountIs
<1>4. d.view.draft = None
  BY <1>2, OpenedIs
<1>5. PICK n : \A j \in Slots : Live(d, j) => /\ c.token /\ j = n /\ d.calls[j].kind = "me"
  BY <1>2, OpenedIs
<1>6. CASE c.token
  <2>1. ~ d.ready
    BY <1>3, <1>6
  <2>2. \A j \in Slots : Live(d, j) => j = n /\ d.calls[j].kind = "me"
    BY <1>5
  <2>3. OneAtATime(d, s)
    BY ONLY <1>4, <2>1, <2>2, OneGuard
  <2> QED BY <1>2, <2>3
<1>7. CASE ~ c.token
  BY <1>2, <1>4, <1>5, <1>7, OneIdle DEF Idle
<1> QED BY <1>6, <1>7

LEMMA OneSignOut ==
  ASSUME NEW K, NEW P, NEW c, GoodTab(c, K, P), NEW s
  PROVE  OneAtATime(SignOut(c), s)
<1>1. PICK no \in BOOLEAN : no = FALSE
  OBVIOUS
<1>2. GoodTab([c EXCEPT !.token = no], K, P)
  BY GoodToken
<1>3. OneAtATime(Mount([c EXCEPT !.token = no], "login", None), s)
  BY <1>2, OneMount
<1> QED BY <1>1, <1>3 DEF SignOut

\* The page is ready, and it is not a product that is being loaded.
LEMMA NoGuard ==
  ASSUME NEW K, NEW P, NEW c, GoodTab(c, K, P), NEW s, OneAtATime(c, s), c.ready,
         c.route # "product" \/ c.view.draft # None
  PROVE  LiveCalls(c, {"me", "product"}) = {}
<1>1. ASSUME NEW i \in Slots, Live(c, i), c.calls[i].kind \in {"me", "product"}
      PROVE  FALSE
  <2>1. OfThePage(c, c.calls[i])
    BY <1>1 DEF GoodTab, Live
  <2>2. i \in LiveCalls(c, CallKind)
    BY <1>1 DEF LiveCalls, CallKind
  <2>3. c.calls[i].kind = "product"
    BY <1>1, <2>2 DEF OneAtATime
  <2>4. LiveCalls(c, {"product"}) # {}
    BY <1>1, <2>3 DEF LiveCalls
  <2>5. c.view.draft = None
    BY <2>4 DEF OneAtATime
  <2> QED BY <1>1, <2>1, <2>3, <2>5 DEF OfThePage, Live
<1> QED BY <1>1 DEF LiveCalls

LEMMA OneLoadOrders ==
  ASSUME NEW K, NEW P, NEW c, GoodTab(c, K, P), NEW s, OneAtATime(c, s), c.ready,
         c.route = "orders"
  PROVE  OneAtATime(LoadOrders(c), s)
<1>1. PICK d, b, arg :
        /\ LoadOrders(c) = Ask(b, "orders", arg)
        /\ d = Cancel(c, {"orders"}) /\ Shape(d)
        /\ b = [d EXCEPT !.view = [d.view EXCEPT !.rows = None, !.loading = TRUE,
                                                 !.failed = FALSE]]
        /\ arg \in Args("orders", K, P)
  BY LoadOrdersIs
<1>2. Shape(c) /\ c.view \in Views(K)
  BY DEF GoodTab
<1>3. /\ SamePage(c, d) /\ d.view = c.view
      /\ \A j \in Slots : d.calls[j] = IF c.calls[j] # None /\ c.calls[j].kind \in {"orders"}
                                         THEN Left(c.calls[j]) ELSE c.calls[j]
  BY <1>1, <1>2, CancelIs
<1>4. PICK w : w = [c.view EXCEPT !.rows = None, !.loading = TRUE, !.failed = FALSE]
  OBVIOUS
<1>5. w.draft = c.view.draft /\ w.busy = c.view.busy /\ w.loading
  BY <1>2, <1>4 DEF Views
<1>6. Shape(b) /\ SamePage(d, b) /\ b.view = w /\ b.calls = d.calls
  <2>1. b = [d EXCEPT !.view = w] /\ Shape(d)
    BY <1>1, <1>3, <1>4
  <2> QED BY ONLY <2>1, ViewIs
<1>7. \A j \in Slots : Live(b, j) => Live(c, j) /\ b.calls[j] = c.calls[j]
  <2>1. \A j \in Slots : c.calls[j] # None => Left(c.calls[j]).live = FALSE
    BY GoodLeft DEF GoodTab
  <2> QED BY <1>3, <1>6, <2>1 DEF Live
<1>8. OneAtATime(b, s)
  <2>1. \A j \in Slots : Live(b, j) => Live(c, j) /\ b.calls[j].kind = c.calls[j].kind
    BY <1>7
  <2>2. /\ b.ready = c.ready /\ (b.view.draft = None <=> c.view.draft = None)
        /\ c.view.busy \subseteq b.view.busy
        /\ (c.view.loading => b.view.loading \/ LiveCalls(c, {"order"}) = {})
    BY <1>3, <1>5, <1>6 DEF SamePage
  <2>3. OneAtATime(c, s)
    OBVIOUS
  <2> QED BY ONLY <2>1, <2>2, <2>3, OneFewer
<1>9. MayAsk(b, "orders", s)
  <2>1. LiveCalls(c, {"me", "product"}) = {}
    BY NoGuard
  <2>2. LiveCalls(b, {"me", "product"}) = {}
    BY <1>7, <2>1 DEF LiveCalls
  <2> QED BY <1>3, <1>6, <2>2 DEF MayAsk, SamePage
<1>10. b.ready
  BY <1>3, <1>6 DEF SamePage
<1>11. OneAtATime(Ask(b, "orders", arg), s)
  BY ONLY <1>6, <1>8, <1>9, <1>10, OneAsk
<1> QED BY <1>1, <1>11

LEMMA OneLoadOrder ==
  ASSUME NEW K, NEW P, NEW c, GoodTab(c, K, P), NEW s, OneAtATime(c, s), c.ready,
         c.route = "order", "overlap" \notin s => LiveCalls(c, {"order", "advance"}) = {}
  PROVE  OneAtATime(LoadOrder(c), s)
<1>1. PICK w : w = [c.view EXCEPT !.loading = TRUE, !.failed = FALSE]
  OBVIOUS
<1>2. Shape(c) /\ c.view \in Views(K)
  BY DEF GoodTab
<1>3. PICK b : b = [c EXCEPT !.view = w]
  OBVIOUS
<1>4. LoadOrder(c) = Ask(b, "order", c.subject)
  BY <1>1, <1>3, LoadOrderIs
<1>5. w.draft = c.view.draft /\ w.busy = c.view.busy /\ w.loading
  BY <1>1, <1>2 DEF Views
<1>6. Shape(b) /\ SamePage(c, b) /\ b.view = w /\ b.calls = c.calls
  BY <1>2, <1>3, ViewIs
<1>7. \A j \in Slots : Live(b, j) <=> Live(c, j)
  BY <1>6 DEF Live
<1>8. OneAtATime(b, s)
  BY <1>5, <1>6, <1>7, OneFewer DEF SamePage
<1>9. MayAsk(b, "order", s)
  <2>1. LiveCalls(c, {"me", "product"}) = {}
    BY NoGuard
  <2>2. \A kinds : LiveCalls(b, kinds) = LiveCalls(c, kinds)
    BY <1>6, <1>7 DEF LiveCalls
  <2> QED BY <1>5, <1>6, <2>1, <2>2 DEF MayAsk, SamePage
<1>10. b.ready
  BY <1>6 DEF SamePage
<1> QED BY <1>4, <1>6, <1>8, <1>9, <1>10, OneAsk

\* The guard has passed and nothing else is under way.
LEMMA OneEnter ==
  ASSUME NEW K, NEW P, NEW c, GoodTab(c, K, P), NEW s, Idle(c), c.view.draft = None
  PROVE  OneAtATime(Enter(c), s)
<1>1. Shape(c) /\ c.route \in Route
  BY DEF GoodTab
<1>2. PICK in : in = [c EXCEPT !.ready = TRUE]
  OBVIOUS
<1>3. /\ GoodTab(in, K, P) /\ in.route = c.route /\ in.subject = c.subject /\ in.view = c.view
      /\ in.calls = c.calls /\ in.ready /\ Shape(in)
  <2>1. PICK yes \in BOOLEAN : yes = TRUE
    OBVIOUS
  <2>2. in = [c EXCEPT !.ready = yes]
    BY <1>2, <2>1
  <2>3. /\ in.ready = yes /\ in.route = c.route /\ in.subject = c.subject /\ in.view = c.view
        /\ in.calls = c.calls /\ Shape(in)
    BY <1>1, <2>2, ReadyIs
  <2>4. GoodTab(in, K, P)
    BY <2>1, <2>2, GoodReady
  <2> QED BY <2>1, <2>3, <2>4
<1>4. Idle(in) /\ OneAtATime(in, s)
  BY <1>3, OneIdle DEF Idle, Live
<1>5. \A kinds : LiveCalls(in, kinds) = {}
  BY <1>4 DEF LiveCalls, Idle
<1>6. \A kind \in {"products", "product"} : MayAsk(in, kind, s)
  BY <1>3, <1>4, <1>5 DEF MayAsk
<1>7. CASE c.route = "login"
  BY <1>7, OneMount DEF Enter
<1>8. CASE c.route = "orders"
  BY <1>2, <1>3, <1>4, <1>8, OneLoadOrders DEF Enter
<1>9. CASE c.route = "order"
  BY <1>2, <1>3, <1>4, <1>5, <1>9, OneLoadOrder DEF Enter
<1>10. CASE c.route = "products"
  BY <1>2, <1>3, <1>4, <1>6, <1>10, OneAsk DEF Enter
<1>11. CASE c.route = "product"
  BY <1>2, <1>3, <1>4, <1>6, <1>11, OneAsk DEF Enter
<1>12. CASE c.route = "new"
  <2>1. PICK w : w = [in.view EXCEPT !.draft = NoDraft]
    OBVIOUS
  <2>2. Enter(c) = [in EXCEPT !.view = w]
    <3>1. Enter(c) = [in EXCEPT !.view.draft = NoDraft]
      BY <1>2, <1>12 DEF Enter
    <3> QED BY <2>1, <3>1, <1>3 DEF Shape
  <2>3. PICK d : d = [in EXCEPT !.view = w]
    OBVIOUS
  <2>4. d.ready /\ d.calls = in.calls
    BY <1>3, <2>3, ViewIs DEF SamePage
  <2>5. Idle(d)
    BY <1>4, <2>4 DEF Idle, Live
  <2> QED BY <2>2, <2>3, <2>4, <2>5, OneIdle
<1> QED BY <1>1, <1>7, <1>8, <1>9, <1>10, <1>11, <1>12 DEF Route

\* A view that the answer of the call i may leave behind.
Follows(c, i, view) ==
  LET kind == c.calls[i].kind
  IN /\ c.view.draft # None => view.draft # None
     /\ view.draft # None => c.view.draft # None \/ kind = "product"
     /\ "save" \in c.view.busy => "save" \in view.busy \/ kind \in {"save", "create"}
     /\ "upload" \in c.view.busy => "upload" \in view.busy \/ kind = "upload"
     /\ "advance" \in c.view.busy => "advance" \in view.busy \/ kind = "advance"
     /\ c.view.loading => view.loading \/ LiveCalls(c, {"order"}) = {} \/ kind = "order"

LEMMA OneShow ==
  ASSUME NEW K, NEW P, NEW c, GoodTab(c, K, P), NEW s, OneAtATime(c, s), NEW i, Answered(c, i),
         NEW view, Live(c, i) => Follows(c, i, view)
  PROVE  OneAtATime(Show(c, i, view), s)
<1>1. Shape(c) /\ i \in Slots /\ c.calls[i] # None /\ c.calls[i].kind \in CallKind
  BY AnswerIs DEF GoodTab, Answered
<1>2. PICK d : d = Show(c, i, view)
  OBVIOUS
<1>3. /\ SamePage(c, d) /\ d.view = IF c.calls[i].live THEN view ELSE c.view
      /\ \A j \in Slots : d.calls[j] = IF j = i THEN None ELSE c.calls[j]
  BY <1>1, <1>2, ShowIs
<1>4. \A j \in Slots : Live(d, j) => j # i /\ Live(c, j) /\ d.calls[j].kind = c.calls[j].kind
  BY <1>3 DEF Live
<1>5. d.ready = c.ready
  BY <1>3 DEF SamePage
<1>6. CASE Live(c, i)
  <2>1. d.view = view /\ Follows(c, i, view)
    BY <1>3, <1>6 DEF Live
  <2>2. Leaves(c, d, i)
    BY <1>6, <2>1 DEF Follows, Leaves
  <2> QED BY <1>1, <1>2, <1>4, <1>5, <2>2, OneEnds
<1>7. CASE ~ Live(c, i)
  <2>1. d.view = c.view
    BY <1>1, <1>3, <1>7 DEF Live
  <2>2. Leaves(c, d, i)
    BY <2>1 DEF Leaves
  <2> QED BY <1>1, <1>2, <1>4, <1>5, <2>2, OneEnds
<1> QED BY <1>6, <1>7

\* A call of the page that nobody waits for any more.
LEMMA OneEnd ==
  ASSUME NEW K, NEW P, NEW c, GoodTab(c, K, P), NEW s, OneAtATime(c, s), NEW i, Answered(c, i)
  PROVE  OneAtATime(End(c, i), s)
<1>1. Shape(c) /\ i \in Slots /\ c.calls[i].kind \in CallKind
  BY AnswerIs DEF GoodTab, Answered
<1>2. PICK d : d = End(c, i)
  OBVIOUS
<1>3. /\ SamePage(c, d) /\ d.view = c.view
      /\ \A j \in Slots : d.calls[j] = IF j = i THEN None ELSE c.calls[j]
  BY <1>1, <1>2, EndIs
<1>4. \A j \in Slots : Live(d, j) => j # i /\ Live(c, j) /\ d.calls[j].kind = c.calls[j].kind
  BY <1>3 DEF Live
<1>5. Leaves(c, d, i) /\ d.ready = c.ready
  BY <1>3 DEF Leaves, SamePage
<1> QED BY <1>1, <1>2, <1>4, <1>5, OneEnds

LEMMA RestedFollows ==
  ASSUME NEW K, NEW P, NEW c, GoodTab(c, K, P), NEW i \in Slots, NEW kind,
         \/ kind \in {"login", "label", "retire"} \/ kind = c.calls[i].kind
         \/ kind = "save" /\ c.calls[i].kind = "create"
  PROVE  Follows(c, i, Rested(c, kind))
<1>1. PICK v : v = Rested(c, kind)
  OBVIOUS
<1>2. /\ v.draft = c.view.draft /\ v.loading = c.view.loading
      /\ v.busy = c.view.busy \ {kind}
  BY <1>1 DEF GoodTab, Views, Rested
<1>3. Follows(c, i, v)
  BY <1>2 DEF Follows
<1> QED BY <1>1, <1>3

LEMMA OneMeHeard ==
  ASSUME NEW K, NEW P, NEW c, GoodTab(c, K, P), NEW s, OneAtATime(c, s), NEW i, Answered(c, i),
         c.calls[i].kind = "me"
  PROVE  OneAtATime(MeHeard(c, i), s)
<1>1. i \in Slots /\ Shape(c) /\ c.calls[i] # None
  BY DEF Answered, GoodTab
<1>2. PICK d : d = End(c, i)
  OBVIOUS
<1>3. /\ GoodTab(d, K, P) /\ Shape(d) /\ SamePage(c, d) /\ d.view = c.view
      /\ \A j \in Slots : d.calls[j] = IF j = i THEN None ELSE c.calls[j]
  BY <1>1, <1>2, GoodEnd, EndIs
<1>4. OneAtATime(d, s)
  BY <1>2, OneEnd
<1>5. PICK no : no = FALSE
  OBVIOUS
<1>6. PICK b : b = [d EXCEPT !.token = no]
  OBVIOUS
<1>7. b.ready = d.ready /\ b.view = d.view /\ b.calls = d.calls
  BY <1>3, <1>6, TokenIs
<1>8. \A j \in Slots : Live(b, j) <=> Live(d, j)
  BY <1>7 DEF Live
<1>9. OneAtATime(b, s)
  BY <1>4, <1>7, <1>8, OneFewer
<1>10. CASE c.calls[i].live /\ ~ Failed(c, i)
  <2>1. i \in LiveCalls(c, {"me", "product"}) /\ i \in LiveCalls(c, CallKind)
    BY <1>1, <1>10 DEF LiveCalls, Live, CallKind
  <2>2. ~ c.ready /\ \A j \in LiveCalls(c, CallKind) : i = j
    BY <2>1 DEF OneAtATime
  <2>3. c.view.draft = None
    BY <2>2 DEF OneAtATime
  <2>4. \A j \in Slots : Live(c, j) => j \in LiveCalls(c, CallKind)
    BY DEF LiveCalls, Live, GoodTab, GoodCall
  <2>5. Idle(d)
    BY <1>3, <2>2, <2>4 DEF Idle, Live
  <2>6. OneAtATime(Enter(d), s)
    BY <1>3, <2>3, <2>5, OneEnter
  <2> QED BY <1>2, <1>10, <2>6 DEF MeHeard
<1>11. OneAtATime(SignOut(d), s)
  BY <1>3, OneSignOut
<1> QED BY <1>2, <1>4, <1>5, <1>6, <1>9, <1>10, <1>11 DEF MeHeard

LEMMA OneAdvanceHeard ==
  ASSUME NEW K, NEW P, NEW c, GoodTab(c, K, P), NEW s, OneAtATime(c, s), NEW i, Answered(c, i),
         c.calls[i].kind = "advance"
  PROVE  OneAtATime(AdvanceHeard(c, i), s)
<1> DEFINE v == IF Failed(c, i) THEN Rested(c, "advance")
                ELSE [Rested(c, "advance") EXCEPT !.shown = c.calls[i].body]
<1>1. i \in Slots /\ Shape(c) /\ c.calls[i] # None
  BY DEF Answered, GoodTab
<1>2. Follows(c, i, v)
  <2>1. PICK r : r = Rested(c, "advance")
    OBVIOUS
  <2>2. r \in Views(K) /\ Follows(c, i, r)
    <3>1. r \in Views(K)
      BY <2>1, RestedView
    <3>2. Follows(c, i, r)
      BY <1>1, <2>1, RestedFollows
    <3> QED BY <3>1, <3>2
  <2>3. PICK w : w = [r EXCEPT !.shown = c.calls[i].body]
    OBVIOUS
  <2>4. w.draft = r.draft /\ w.busy = r.busy /\ w.loading = r.loading
    BY <2>2, <2>3 DEF Views
  <2>5. Follows(c, i, w)
    BY <2>2, <2>4 DEF Follows
  <2> QED BY <2>1, <2>2, <2>3, <2>5
<1> HIDE DEF v
<1>3. PICK heard : heard = Show(c, i, v)
  OBVIOUS
<1>4. OneAtATime(heard, s)
  BY <1>2, <1>3, OneShow
<1>5. AdvanceHeard(c, i) = IF c.calls[i].status = "409" /\ c.calls[i].live
                             THEN LoadOrder(heard) ELSE heard
  BY <1>3 DEF AdvanceHeard, v
<1>6. CASE c.calls[i].status = "409" /\ c.calls[i].live
  <2>1. v \in Views(K)
    BY <1>6, RestedView DEF v, Failed
  <2>2. GoodTab(heard, K, P)
    BY <1>1, <1>3, <2>1, GoodShow
  <2>3. /\ SamePage(c, heard)
        /\ \A j \in Slots : heard.calls[j] = IF j = i THEN None ELSE c.calls[j]
    BY <1>1, <1>3, ShowIs
  <2>4. c.route = "order"
    BY <1>6, AnswerIs DEF OfThePage
  <2>5. i \in LiveCalls(c, {"order", "advance"}) /\ i \in LiveCalls(c, CallKind)
    BY <1>1, <1>6 DEF LiveCalls, Live, CallKind
  <2>6. c.ready
    BY <2>5 DEF OneAtATime
  <2>7. "overlap" \notin s => LiveCalls(heard, {"order", "advance"}) = {}
    <3>1. "overlap" \notin s => \A j \in LiveCalls(c, {"order", "advance"}) : j = i
      BY <2>5 DEF OneAtATime, Single
    <3> QED BY <2>3, <3>1 DEF LiveCalls, Live
  <2> QED BY <1>4, <1>5, <1>6, <2>2, <2>3, <2>4, <2>6, <2>7, OneLoadOrder DEF SamePage
<1> QED BY <1>4, <1>5, <1>6

LEMMA OneOrdersHeard ==
  ASSUME NEW K, NEW P, NEW c, GoodTab(c, K, P), NEW s, OneAtATime(c, s), NEW i, Answered(c, i),
         c.calls[i].kind \in {"orders", "order"}
  PROVE  /\ c.calls[i].kind = "orders" => OneAtATime(OrdersHeard(c, i), s)
         /\ c.calls[i].kind = "order" => OneAtATime(OrderHeard(c, i), s)
<1>1. i \in Slots /\ c.view \in Views(K)
  BY DEF Answered, GoodTab
<1>2. ASSUME NEW v, v.draft = c.view.draft, v.busy = c.view.busy, Live(c, i)
      PROVE  Follows(c, i, v)
  <2>1. CASE c.calls[i].kind = "order"
    BY <1>2, <2>1 DEF Follows
  <2>2. CASE c.calls[i].kind = "orders"
    <3>1. c.route = "orders"
      BY <1>2, <2>2, AnswerIs DEF Live, OfThePage
    <3>2. LiveCalls(c, {"order"}) = {}
      BY <3>1 DEF LiveCalls, Live, GoodTab, OfThePage
    <3> QED BY <1>2, <3>2 DEF Follows
  <2> QED BY <2>1, <2>2
<1> DEFINE body == c.calls[i].body
           v == IF Failed(c, i) THEN [c.view EXCEPT !.loading = FALSE, !.failed = TRUE]
                ELSE [c.view EXCEPT !.loading = FALSE, !.rows = body.rows, !.next = body.next]
           w == IF Failed(c, i) THEN [c.view EXCEPT !.loading = FALSE, !.failed = TRUE]
                ELSE [c.view EXCEPT !.loading = FALSE, !.shown = c.calls[i].body]
<1>3. v.draft = c.view.draft /\ v.busy = c.view.busy
  BY <1>1 DEF Views
<1>4. w.draft = c.view.draft /\ w.busy = c.view.busy
  BY <1>1 DEF Views
<1>5. OrdersHeard(c, i) = Show(c, i, v) /\ OrderHeard(c, i) = Show(c, i, w)
  BY DEF OrdersHeard, OrderHeard
<1> HIDE DEF v, w
<1>6. Live(c, i) => Follows(c, i, v) /\ Follows(c, i, w)
  BY <1>2, <1>3, <1>4
<1>7. OneAtATime(Show(c, i, v), s) /\ OneAtATime(Show(c, i, w), s)
  BY <1>6, OneShow
<1> QED BY <1>5, <1>7

LEMMA OneProductHeard ==
  ASSUME NEW K, NEW P, NEW c, GoodTab(c, K, P), NEW s, OneAtATime(c, s), NEW i, Answered(c, i),
         c.calls[i].kind = "product"
  PROVE  OneAtATime(ProductHeard(c, i), s)
<1>1. i \in Slots /\ c.view \in Views(K)
  BY DEF Answered, GoodTab
<1> DEFINE v == IF Failed(c, i) THEN [c.view EXCEPT !.failed = TRUE]
                ELSE [c.view EXCEPT !.draft = ProductToDraft(c.calls[i].body)]
<1>2. Live(c, i) => c.view.draft = None
  BY <1>1 DEF OneAtATime, LiveCalls
<1>3. v.busy = c.view.busy /\ v.loading = c.view.loading
  BY <1>1 DEF Views
<1>4. ProductHeard(c, i) = Show(c, i, v)
  BY DEF ProductHeard
<1> HIDE DEF v
<1>5. Live(c, i) => Follows(c, i, v)
  BY <1>2, <1>3 DEF Follows
<1> QED BY <1>4, <1>5, OneShow

LEMMA OneSaveHeard ==
  ASSUME NEW K, NEW P, NEW c, GoodTab(c, K, P), NEW s, OneAtATime(c, s), NEW i, Answered(c, i),
         c.calls[i].kind = "save"
  PROVE  OneAtATime(SaveHeard(c, i), s)
<1>1. i \in Slots /\ c.view \in Views(K)
  BY DEF Answered, GoodTab
<1> DEFINE r == Rested(c, "save")
           v == IF Failed(c, i) THEN r
                ELSE [r EXCEPT !.draft = ProductToDraft(c.calls[i].body)]
<1>2. Live(c, i) => c.view.draft # None
  BY <1>1 DEF OneAtATime, LiveCalls
<1>3. Follows(c, i, r) /\ r \in Views(K)
  BY <1>1, RestedFollows, RestedView
<1>4. SaveHeard(c, i) = Show(c, i, v)
  BY DEF SaveHeard
<1> HIDE DEF r
<1>5. v.busy = r.busy /\ v.loading = r.loading
  BY <1>3 DEF Views
<1>6. v.draft = IF Failed(c, i) THEN r.draft ELSE c.calls[i].body
  BY <1>3 DEF Views, ProductToDraft
<1>7. ~ Failed(c, i) => c.calls[i].body # None
  <2>1. ~ Failed(c, i) => c.calls[i].body \in Form
    BY AnswerIs DEF Bodies
  <2> QED BY <2>1, NoneIsNothing
<1> HIDE DEF v
<1>8. Live(c, i) => Follows(c, i, v)
  BY <1>2, <1>3, <1>5, <1>6, <1>7 DEF Follows
<1> QED BY <1>4, <1>8, OneShow

LEMMA OneUploadHeard ==
  ASSUME NEW K, NEW P, NEW c, GoodTab(c, K, P), NEW s, OneAtATime(c, s), NEW i, Answered(c, i),
         c.calls[i].kind = "upload", FreshUpload(c, i)
  PROVE  OneAtATime(UploadHeard(c, i), s)
<1>1. i \in Slots /\ c.view \in Views(K) /\ c.calls[i] # None
  BY DEF Answered, GoodTab
<1> DEFINE r == Rested(c, "upload")
           v == IF Failed(c, i) THEN r
                ELSE [r EXCEPT !.draft = AddImage(r.draft, c.calls[i].body)]
<1>2. Live(c, i) => c.view.draft # None
  BY <1>1 DEF OneAtATime, LiveCalls
<1>3. Follows(c, i, r) /\ r \in Views(K) /\ r.draft = c.view.draft
  BY <1>1, RestedFollows, RestedView DEF Rested, Views
<1>4. UploadHeard(c, i) = Show(c, i, v)
  BY DEF UploadHeard
<1> HIDE DEF r
<1>5. v.busy = r.busy /\ v.loading = r.loading
  BY <1>3 DEF Views
<1>6. Live(c, i) => v.draft # None
  <2>1. CASE Failed(c, i)
    BY <1>2, <1>3, <2>1
  <2>2. CASE ~ Failed(c, i) /\ Live(c, i)
    <3>1. c.calls[i].body \in Images
      <4>1. Bodies("upload", K, P) = Images
        BY DEF Bodies
      <4>2. c.calls[i].body \in Bodies(c.calls[i].kind, K, P)
        BY <2>2, AnswerIs
      <4> QED BY <4>1, <4>2
    <3>2. r.draft \in Form /\ c.calls[i].body \notin Range(r.draft.images)
      BY <1>3, <2>2 DEF FreshUpload, Failed, Live
    <3>3. AddImage(r.draft, c.calls[i].body) \in Form
      BY <3>1, <3>2, AddImageForm
    <3>4. v.draft = AddImage(r.draft, c.calls[i].body)
      BY <1>3, <2>2 DEF Views
    <3> QED BY <3>3, <3>4, NoneIsNothing
  <2> QED BY <2>1, <2>2
<1> HIDE DEF v
<1>7. Live(c, i) => Follows(c, i, v)
  BY <1>2, <1>3, <1>5, <1>6 DEF Follows
<1> QED BY <1>4, <1>7, OneShow

LEMMA OneHeard ==
  ASSUME NEW K, NEW P, NEW c, GoodTab(c, K, P), NEW s, OneAtATime(c, s), NEW i, Answered(c, i),
         FreshUpload(c, i)
  PROVE  OneAtATime(Heard(c, i), s)
<1>1. i \in Slots /\ c.calls[i].kind \in CallKind /\ Shape(c)
  BY AnswerIs DEF Answered, GoodTab
<1>2. PICK d : d = End(c, i)
  OBVIOUS
<1>3. GoodTab(d, K, P)
  BY <1>1, <1>2, GoodEnd
<1>4. OneAtATime(SignOut(d), s) /\ \A route, subject : OneAtATime(Mount(d, route, subject), s)
  BY <1>3, OneSignOut, OneMount
<1>5. \A kind \in {"login", "label", "retire"} : OneAtATime(Show(c, i, Rested(c, kind)), s)
  BY <1>1, RestedFollows, OneShow
<1>6. c.calls[i].kind = "create" => OneAtATime(Show(c, i, Rested(c, "save")), s)
  BY <1>1, RestedFollows, OneShow
<1>7. CASE c.calls[i].status = "401"
  BY <1>2, <1>4, <1>7 DEF Heard
<1>8. CASE c.calls[i].status # "401"
  <2>1. CASE c.calls[i].kind = "me"
    BY <1>8, <2>1, OneMeHeard DEF Heard
  <2>2. CASE c.calls[i].kind = "login"
    <3>1. PICK yes \in BOOLEAN : yes = TRUE
      OBVIOUS
    <3>2. PICK b : b = [d EXCEPT !.token = yes]
      OBVIOUS
    <3>3. GoodTab(b, K, P)
      BY <1>3, <3>2, GoodToken
    <3>4. OneAtATime(Mount(b, "products", None), s)
      BY <3>3, OneMount
    <3>5. Heard(c, i) = IF Failed(c, i) THEN Show(c, i, Rested(c, "login"))
                        ELSE Mount([d EXCEPT !.token = TRUE], "products", None)
      BY <1>2, <1>8, <2>2 DEF Heard, LoginHeard
    <3> QED BY <1>5, <3>1, <3>2, <3>4, <3>5
  <2>3. CASE c.calls[i].kind = "orders"
    BY <1>8, <2>3, OneOrdersHeard DEF Heard
  <2>4. CASE c.calls[i].kind = "order"
    BY <1>8, <2>4, OneOrdersHeard DEF Heard
  <2>5. CASE c.calls[i].kind = "advance"
    BY <1>8, <2>5, OneAdvanceHeard DEF Heard
  <2>6. CASE c.calls[i].kind = "label"
    BY <1>5, <1>8, <2>6 DEF Heard
  <2>7. CASE c.calls[i].kind = "products"
    <3>1. Follows(c, i, c.view)
      BY DEF Follows
    <3>2. OneAtATime(Show(c, i, c.view), s)
      BY <3>1, OneShow
    <3> QED BY <1>8, <2>7, <3>2 DEF Heard
  <2>8. CASE c.calls[i].kind = "product"
    BY <1>8, <2>8, OneProductHeard DEF Heard
  <2>9. CASE c.calls[i].kind = "save"
    BY <1>8, <2>9, OneSaveHeard DEF Heard
  <2>10. CASE c.calls[i].kind = "create"
    BY <1>2, <1>4, <1>6, <1>8, <2>10 DEF Heard, CreateHeard
  <2>11. CASE c.calls[i].kind = "retire"
    BY <1>2, <1>4, <1>5, <1>8, <2>11 DEF Heard, RetireHeard
  <2>12. CASE c.calls[i].kind = "upload"
    BY <1>8, <2>12, OneUploadHeard DEF Heard
  <2> QED BY <1>1, <2>1, <2>2, <2>3, <2>4, <2>5, <2>6, <2>7, <2>8, <2>9, <2>10, <2>11, <2>12
          DEF CallKind
<1> QED BY <1>7, <1>8

-----------------------------------------------------------------------------
(* What a page that was just opened, or has just passed its guard, has     *)
(* under way.                                                              *)

Fresh(d) ==
  /\ d.view.draft # None => d.route = "new"
  /\ \A j \in Slots : Live(d, j) =>
       /\ d.calls[j].status = None
       /\ d.calls[j].kind \in {"me", "orders", "order", "products", "product"}

\* The live calls of d are calls of c, but for one that was just asked.
Asks(c, d, kind) ==
  \A j \in Slots : Live(d, j) =>
    \/ Live(c, j) /\ d.calls[j] = c.calls[j]
    \/ d.calls[j].kind = kind /\ d.calls[j].status = None

\* The page of an order stays the page of this order.
SameOrder(c, d) ==
  c.route = "order" /\ d.subject = c.subject /\ d.view.shown = c.view.shown

LEMMA AskAsks ==
  ASSUME NEW c, Shape(c), NEW kind, NEW arg
  PROVE  Asks(c, Ask(c, kind, arg), kind)
<1>1. PICK d : d = Ask(c, kind, arg)
  OBVIOUS
<1>2. \A j \in Slots : d.calls[j] = IF j = Free(c) THEN Asked(kind, arg) ELSE c.calls[j]
  BY <1>1, AskIs
<1>3. Asks(c, d, kind)
  BY <1>2, AskedIs DEF Asks, Live
<1> QED BY <1>1, <1>3

LEMMA LoadOrdersAsks ==
  ASSUME NEW K, NEW P, NEW c, GoodTab(c, K, P)
  PROVE  LET d == LoadOrders(c)
         IN /\ SamePage(c, d) /\ d.view.draft = c.view.draft /\ d.view.shown = c.view.shown
            /\ d.view.cursors = c.view.cursors /\ d.view.rows = None
            /\ Asks(c, d, "orders")
<1>1. PICK d, b, arg :
        /\ LoadOrders(c) = Ask(b, "orders", arg)
        /\ d = Cancel(c, {"orders"}) /\ Shape(d)
        /\ b = [d EXCEPT !.view = [d.view EXCEPT !.rows = None, !.loading = TRUE,
                                                 !.failed = FALSE]]
        /\ arg \in Args("orders", K, P)
  BY LoadOrdersIs
<1>2. Shape(c) /\ c.view \in Views(K)
  BY DEF GoodTab
<1>3. /\ SamePage(c, d) /\ d.view = c.view
      /\ \A j \in Slots : d.calls[j] = IF c.calls[j] # None /\ c.calls[j].kind \in {"orders"}
                                         THEN Left(c.calls[j]) ELSE c.calls[j]
  BY <1>1, <1>2, CancelIs
<1>4. PICK w : w = [c.view EXCEPT !.rows = None, !.loading = TRUE, !.failed = FALSE]
  OBVIOUS
<1>5. /\ w.draft = c.view.draft /\ w.shown = c.view.shown /\ w.cursors = c.view.cursors
      /\ w.rows = None
  BY <1>2, <1>4 DEF Views
<1>6. Shape(b) /\ SamePage(d, b) /\ b.view = w /\ b.calls = d.calls
  <2>1. b = [d EXCEPT !.view = w] /\ Shape(d)
    BY <1>1, <1>3, <1>4
  <2> QED BY ONLY <2>1, ViewIs
<1>7. \A j \in Slots : Live(b, j) => Live(c, j) /\ b.calls[j] = c.calls[j]
  <2>1. \A j \in Slots : c.calls[j] # None => Left(c.calls[j]).live = FALSE
    BY GoodLeft DEF GoodTab
  <2> QED BY <1>3, <1>6, <2>1 DEF Live
<1>8. PICK e : e = Ask(b, "orders", arg)
  OBVIOUS
<1>9. SamePage(b, e) /\ e.view = b.view /\ Asks(b, e, "orders")
  BY <1>6, <1>8, AskIs, AskAsks
<1>10. Asks(c, e, "orders")
  BY <1>7, <1>9 DEF Asks
<1> QED BY <1>1, <1>3, <1>5, <1>6, <1>8, <1>9, <1>10 DEF SamePage

LEMMA LoadOrderAsks ==
  ASSUME NEW K, NEW P, NEW c, GoodTab(c, K, P)
  PROVE  LET d == LoadOrder(c)
         IN /\ SamePage(c, d) /\ d.view.draft = c.view.draft /\ d.view.shown = c.view.shown
            /\ Asks(c, d, "order")
<1>1. PICK w : w = [c.view EXCEPT !.loading = TRUE, !.failed = FALSE]
  OBVIOUS
<1>2. Shape(c) /\ c.view \in Views(K)
  BY DEF GoodTab
<1>3. PICK b : b = [c EXCEPT !.view = w]
  OBVIOUS
<1>4. LoadOrder(c) = Ask(b, "order", c.subject)
  BY <1>1, <1>3, LoadOrderIs
<1>5. w.draft = c.view.draft /\ w.shown = c.view.shown
  BY <1>1, <1>2 DEF Views
<1>6. Shape(b) /\ SamePage(c, b) /\ b.view = w /\ b.calls = c.calls
  BY <1>2, <1>3, ViewIs
<1>7. PICK e : e = Ask(b, "order", c.subject)
  OBVIOUS
<1>8. SamePage(b, e) /\ e.view = b.view /\ Asks(b, e, "order")
  BY <1>6, <1>7, AskIs, AskAsks
<1>9. Asks(c, e, "order")
  BY <1>6, <1>8 DEF Asks, Live
<1> QED BY <1>4, <1>5, <1>6, <1>7, <1>8, <1>9 DEF SamePage

LEMMA FreshMount ==
  ASSUME NEW K, NEW P, NEW c, GoodTab(c, K, P), NEW route, NEW subject
  PROVE  Fresh(Mount(c, route, subject))
<1>1. Shape(c)
  BY DEF GoodTab
<1>2. PICK d : d = Mount(c, route, subject)
  OBVIOUS
<1>3. d.view.draft = None
  BY <1>2, OpenedIs
<1>4. PICK n : Opened(c, d, n)
  BY <1>1, <1>2, MountIs
<1>5. ASSUME NEW j \in Slots, Live(d, j)
      PROVE  d.calls[j].status = None /\ d.calls[j].kind = "me"
  <2>1. CASE c.token /\ j = n
    BY <2>1, <1>4, AskedIs DEF Opened
  <2>2. CASE ~ (c.token /\ j = n)
    <3>1. CASE c.calls[j] = None
      BY <2>2, <3>1, <1>4, <1>5 DEF Opened, Live
    <3>2. CASE c.calls[j] # None
      <4>1. GoodCall(c.calls[j], K, P) /\ c.calls[j].kind \in CallKind
        BY <3>2 DEF GoodTab, GoodCall
      <4>2. d.calls[j] = Left(c.calls[j])
        BY <1>4, <2>2, <3>2, <4>1 DEF Opened
      <4> QED BY <4>1, <4>2, <1>5, GoodLeft DEF Live
    <3> QED BY <3>1, <3>2
  <2> QED BY <2>1, <2>2
<1>6. Fresh(d)
  BY <1>3, <1>5 DEF Fresh
<1> QED BY <1>2, <1>6

LEMMA FreshSignOut ==
  ASSUME NEW K, NEW P, NEW c, GoodTab(c, K, P)
  PROVE  Fresh(SignOut(c))
<1>1. PICK no \in BOOLEAN : no = FALSE
  OBVIOUS
<1>2. GoodTab([c EXCEPT !.token = no], K, P)
  BY GoodToken
<1>3. Fresh(Mount([c EXCEPT !.token = no], "login", None))
  BY <1>2, FreshMount
<1> QED BY <1>1, <1>3 DEF SignOut

LEMMA FreshEnter ==
  ASSUME NEW K, NEW P, NEW c, GoodTab(c, K, P), Idle(c), c.view.draft = None
  PROVE  LET d == Enter(c)
         IN Fresh(d) /\ (d.route = "order" => SameOrder(c, d))
<1>1. Shape(c) /\ c.route \in Route
  BY DEF GoodTab
<1>2. PICK in : in = [c EXCEPT !.ready = TRUE]
  OBVIOUS
<1>3. /\ GoodTab(in, K, P) /\ Shape(in) /\ in.route = c.route /\ in.subject = c.subject
      /\ in.view = c.view /\ in.calls = c.calls
  <2>1. PICK yes \in BOOLEAN : yes = TRUE
    OBVIOUS
  <2>2. in = [c EXCEPT !.ready = yes]
    BY <1>2, <2>1
  <2>3. /\ in.route = c.route /\ in.subject = c.subject /\ in.view = c.view
        /\ in.calls = c.calls /\ Shape(in)
    BY <1>1, <2>2, ReadyIs
  <2>4. GoodTab(in, K, P)
    BY <2>1, <2>2, GoodReady
  <2> QED BY <2>3, <2>4
<1>4. Idle(in)
  BY <1>3 DEF Idle, Live
<1>5. ASSUME NEW d, NEW kind \in {"orders", "order", "products", "product"},
             d.view.draft = None, Asks(in, d, kind)
      PROVE  Fresh(d)
  BY <1>4, <1>5 DEF Fresh, Asks, Idle
<1>6. \A kind, arg : LET d == Ask(in, kind, arg)
                     IN d.view.draft = None /\ d.route = in.route /\ Asks(in, d, kind)
  BY <1>3, AskIs, AskAsks DEF SamePage
<1>7. CASE c.route = "login"
  <2>1. PICK d : d = Mount(c, "products", None)
    OBVIOUS
  <2>2. d.route = IF c.token THEN "products" ELSE "login"
    BY <1>1, <2>1, MountIs
  <2>3. Fresh(d)
    BY <2>1, FreshMount
  <2> QED BY <1>7, <2>1, <2>2, <2>3 DEF Enter
<1>8. CASE c.route = "orders"
  <2>1. PICK d : d = LoadOrders(in)
    OBVIOUS
  <2>2. d.view.draft = None /\ d.route = "orders" /\ Asks(in, d, "orders")
    BY <1>3, <1>8, <2>1, LoadOrdersAsks DEF SamePage
  <2> QED BY <1>2, <1>5, <1>8, <2>1, <2>2 DEF Enter
<1>9. CASE c.route = "order"
  <2>1. PICK d : d = LoadOrder(in)
    OBVIOUS
  <2>2. d.view.draft = None /\ Asks(in, d, "order") /\ SameOrder(c, d)
    BY <1>3, <1>9, <2>1, LoadOrderAsks DEF SamePage, SameOrder
  <2> QED BY <1>2, <1>5, <1>9, <2>1, <2>2 DEF Enter
<1>10. CASE c.route = "products"
  BY <1>2, <1>3, <1>5, <1>6, <1>10 DEF Enter
<1>11. CASE c.route = "product"
  BY <1>2, <1>3, <1>5, <1>6, <1>11 DEF Enter
<1>12. CASE c.route = "new"
  <2>1. PICK w : w = [in.view EXCEPT !.draft = NoDraft]
    OBVIOUS
  <2>2. Enter(c) = [in EXCEPT !.view = w]
    <3>1. Enter(c) = [in EXCEPT !.view.draft = NoDraft]
      BY <1>2, <1>12 DEF Enter
    <3> QED BY <2>1, <3>1, <1>3 DEF Shape
  <2>3. PICK d : d = [in EXCEPT !.view = w]
    OBVIOUS
  <2>4. d.route = "new" /\ d.calls = in.calls
    BY <1>3, <1>12, <2>3, ViewIs DEF SamePage
  <2>5. Fresh(d)
    BY <1>4, <2>4 DEF Idle, Live, Fresh
  <2> QED BY <2>2, <2>3, <2>4, <2>5
<1> QED BY <1>1, <1>7, <1>8, <1>9, <1>10, <1>11, <1>12 DEF Route

-----------------------------------------------------------------------------
(* The form, operator by operator.                                         *)

LEMMA FormFresh ==
  ASSUME NEW d, Fresh(d), NEW mine, NEW product
  PROVE  FormInv(d, mine, product)
<1>1. /\ LiveCalls(d, {"save", "create"}) = {} /\ LiveCalls(d, {"upload"}) = {}
      /\ \A j \in LiveCalls(d, {"product"}) : d.calls[j].status = None
      /\ ~ (d.route = "product" /\ d.view.draft # None)
  BY DEF Fresh, LiveCalls
<1> QED BY <1>1, NoneIsNothing DEF FormInv

\* The draft stays, and calls end or are asked.
LEMMA FormFrame ==
  ASSUME NEW c, NEW d, NEW mine, NEW product, FormInv(c, mine, product), d.route = c.route,
         d.view.draft = c.view.draft,
         \A j \in Slots : Live(d, j) =>
           \/ Live(c, j) /\ d.calls[j] = c.calls[j]
           \/ d.calls[j].kind \notin {"save", "create"} /\ d.calls[j].status # "ok"
  PROVE  FormInv(d, mine, product)
<1>1. ASSUME NEW j \in Slots, Live(d, j), d.calls[j].kind \in {"save", "create"} \/ d.calls[j].status = "ok"
      PROVE  d.calls[j] = c.calls[j] /\ \A kinds : j \in LiveCalls(d, kinds) => j \in LiveCalls(c, kinds)
  BY <1>1 DEF LiveCalls
<1>2. \A j \in LiveCalls(d, {"product"}) : d.calls[j].status = "ok" =>
        d.calls[j] = c.calls[j] /\ j \in LiveCalls(c, {"product"})
  BY <1>1 DEF LiveCalls
<1>3. \A j \in LiveCalls(d, {"save", "create"}) :
        d.calls[j] = c.calls[j] /\ j \in LiveCalls(c, {"save", "create"})
  BY <1>1 DEF LiveCalls
<1>4. \A j \in LiveCalls(d, {"upload"}) : d.calls[j].status = "ok" =>
        d.calls[j] = c.calls[j] /\ j \in LiveCalls(c, {"upload"})
  BY <1>1 DEF LiveCalls
<1> QED BY <1>2, <1>3, <1>4 DEF FormInv

LEMMA FormAsks ==
  ASSUME NEW c, NEW d, NEW mine, NEW product, FormInv(c, mine, product), d.route = c.route,
         d.view.draft = c.view.draft, NEW kind, kind \notin {"save", "create"}, Asks(c, d, kind)
  PROVE  FormInv(d, mine, product)
BY FormFrame, NoneIsNothing DEF Asks

LEMMA FormShow ==
  ASSUME NEW K, NEW P, NEW c, GoodTab(c, K, P), NEW i \in Slots, NEW view,
         view.draft = c.view.draft, NEW mine, NEW product, FormInv(c, mine, product)
  PROVE  FormInv(Show(c, i, view), mine, product)
<1>1. Shape(c)
  BY DEF GoodTab
<1>2. PICK d : d = Show(c, i, view)
  OBVIOUS
<1>3. /\ SamePage(c, d) /\ d.view.draft = c.view.draft
      /\ \A j \in Slots : d.calls[j] = IF j = i THEN None ELSE c.calls[j]
  BY <1>1, <1>2, ShowIs
<1>4. \A j \in Slots : Live(d, j) => Live(c, j) /\ d.calls[j] = c.calls[j]
  BY <1>3 DEF Live
<1> QED BY <1>2, <1>3, <1>4, FormFrame DEF SamePage

LEMMA FormEnd ==
  ASSUME NEW K, NEW P, NEW c, GoodTab(c, K, P), NEW i \in Slots,
         NEW mine, NEW product, FormInv(c, mine, product)
  PROVE  FormInv(End(c, i), mine, product)
<1>1. Shape(c)
  BY DEF GoodTab
<1>2. PICK d : d = End(c, i)
  OBVIOUS
<1>3. /\ SamePage(c, d) /\ d.view = c.view
      /\ \A j \in Slots : d.calls[j] = IF j = i THEN None ELSE c.calls[j]
  BY <1>1, <1>2, EndIs
<1>4. \A j \in Slots : Live(d, j) => Live(c, j) /\ d.calls[j] = c.calls[j]
  BY <1>3 DEF Live
<1> QED BY <1>2, <1>3, <1>4, FormFrame DEF SamePage

\* What the history of the form becomes with an answer (see Hear).
HeardPut(c, i, mine) ==
  LET f == c.calls[i]
      heard == f.live /\ f.status = "ok"
  IN IF heard /\ f.kind = "product" THEN [NoPut EXCEPT !.moved = mine.moved]
     ELSE IF heard /\ f.kind = "upload"
       THEN [mine EXCEPT !.added = @ \cup {f.body}, !.late = @ \/ "save" \in c.view.busy]
     ELSE mine

LEMMA UploadIsFresh ==
  ASSUME NEW K, NEW P, NEW c, GoodTab(c, K, P), NEW s, OneAtATime(c, s), NEW i, Answered(c, i),
         NEW mine, NEW product, FormInv(c, mine, product)
  PROVE  FreshUpload(c, i)
<1>1. ASSUME c.calls[i].kind = "upload", c.calls[i].live, c.calls[i].status = "ok"
      PROVE  c.view.draft \in Form /\ c.calls[i].body \notin Range(c.view.draft.images)
  <2>1. i \in LiveCalls(c, {"upload"})
    BY <1>1 DEF LiveCalls, Live, Answered
  <2>2. c.view.draft # None
    BY <2>1 DEF OneAtATime
  <2>3. c.view.draft \in Form
    BY <2>2 DEF GoodTab, Views
  <2> QED BY <1>1, <2>1, <2>3 DEF FormInv
<1> QED BY <1>1 DEF FreshUpload

\* The form is filled with the product as it was read.
LEMMA FormProductHeard ==
  ASSUME NEW K, NEW P, NEW c, GoodTab(c, K, P), NEW s, OneAtATime(c, s), NEW i, Answered(c, i),
         c.calls[i].kind = "product", NEW mine \in Put, NEW product, FormInv(c, mine, product)
  PROVE  FormInv(ProductHeard(c, i), HeardPut(c, i, mine), product)
<1>1. i \in Slots /\ c.view \in Views(K) /\ Shape(c) /\ c.calls[i] # None
  BY DEF Answered, GoodTab
<1> DEFINE v == IF Failed(c, i) THEN [c.view EXCEPT !.failed = TRUE]
                ELSE [c.view EXCEPT !.draft = ProductToDraft(c.calls[i].body)]
<1>2. ProductHeard(c, i) = Show(c, i, v)
  BY DEF ProductHeard
<1>3. v.draft = IF Failed(c, i) THEN c.view.draft ELSE c.calls[i].body
  BY <1>1 DEF Views, ProductToDraft
<1> HIDE DEF v
<1>4. PICK d : d = Show(c, i, v)
  OBVIOUS
<1>5. /\ SamePage(c, d) /\ d.view = IF c.calls[i].live THEN v ELSE c.view
      /\ \A j \in Slots : d.calls[j] = IF j = i THEN None ELSE c.calls[j]
  BY <1>1, <1>4, ShowIs
<1>6. CASE Failed(c, i) \/ ~ c.calls[i].live
  <2>1. HeardPut(c, i, mine) = mine
    BY <1>6 DEF HeardPut, Failed
  <2>2. \A j \in Slots : Live(d, j) => Live(c, j) /\ d.calls[j] = c.calls[j]
    BY <1>5 DEF Live
  <2>3. d.view.draft = c.view.draft /\ d.route = c.route
    BY <1>3, <1>5, <1>6 DEF SamePage
  <2> QED BY <1>2, <1>4, <2>1, <2>2, <2>3, FormFrame
<1>7. CASE ~ Failed(c, i) /\ c.calls[i].live
  <2>1. i \in LiveCalls(c, {"me", "product"}) /\ i \in LiveCalls(c, {"product"})
    BY <1>1, <1>7 DEF LiveCalls, Live
  <2>2. \A j \in LiveCalls(c, CallKind) : i = j
    BY <2>1 DEF OneAtATime
  <2>3. \A j \in Slots : Live(c, j) => j \in LiveCalls(c, CallKind)
    BY DEF LiveCalls, Live, GoodTab, GoodCall
  <2>4. \A j \in Slots : ~ Live(d, j)
    BY <1>5, <2>2, <2>3 DEF Live
  <2>5. c.calls[i].status = "ok" /\ c.calls[i].body \in Form
    BY <1>7, AnswerIs DEF Bodies
  <2>6. PICK m : m = HeardPut(c, i, mine)
    OBVIOUS
  <2>7. /\ m.stock = None /\ m.active = None /\ m.added = {} /\ m.removed = {}
        /\ m.moved = mine.moved
    BY <1>7, <2>5, <2>6 DEF HeardPut, NoPut
  <2>8. ~ mine.moved => c.calls[i].body.stock = product.stock
    BY <2>1, <2>5 DEF FormInv
  <2>9. d.view.draft = c.calls[i].body
    BY <1>3, <1>5, <1>7
  <2>10. Keeps(d.view.draft, m)
    BY <2>7 DEF Keeps
  <2>11. \A kinds : LiveCalls(d, kinds) = {}
    BY <2>4 DEF LiveCalls
  <2>12. FormInv(d, m, product)
    BY <2>7, <2>8, <2>9, <2>10, <2>11 DEF FormInv
  <2> QED BY <1>2, <1>4, <2>6, <2>12
<1> QED BY <1>6, <1>7

\* The form is filled with what was saved.
LEMMA FormSaveHeard ==
  ASSUME NEW K, NEW P, NEW c, GoodTab(c, K, P), NEW s, OneAtATime(c, s), NEW i, Answered(c, i),
         c.calls[i].kind = "save", NEW mine \in Put, NEW product, FormInv(c, mine, product)
  PROVE  FormInv(SaveHeard(c, i), mine, product)
<1>1. i \in Slots /\ c.view \in Views(K) /\ Shape(c) /\ c.calls[i] # None
  BY DEF Answered, GoodTab
<1> DEFINE r == Rested(c, "save")
           v == IF Failed(c, i) THEN r
                ELSE [r EXCEPT !.draft = ProductToDraft(c.calls[i].body)]
<1>2. SaveHeard(c, i) = Show(c, i, v)
  BY DEF SaveHeard
<1>3. r \in Views(K) /\ r.draft = c.view.draft
  BY <1>1, RestedView DEF Rested, Views
<1> HIDE DEF r
<1>4. v.draft = IF Failed(c, i) THEN c.view.draft ELSE c.calls[i].body
  BY <1>3 DEF Views, ProductToDraft
<1> HIDE DEF v
<1>5. PICK d : d = Show(c, i, v)
  OBVIOUS
<1>6. /\ SamePage(c, d) /\ d.view = IF c.calls[i].live THEN v ELSE c.view
      /\ \A j \in Slots : d.calls[j] = IF j = i THEN None ELSE c.calls[j]
  BY <1>1, <1>5, ShowIs
<1>7. \A j \in Slots : Live(d, j) => j # i /\ Live(c, j) /\ d.calls[j] = c.calls[j]
  BY <1>6 DEF Live
<1>8. CASE Failed(c, i) \/ ~ c.calls[i].live
  <2>1. d.view.draft = c.view.draft /\ d.route = c.route
    BY <1>4, <1>6, <1>8 DEF SamePage
  <2> QED BY <1>2, <1>5, <1>7, <2>1, FormFrame
<1>9. CASE ~ Failed(c, i) /\ c.calls[i].live
  <2>1. i \in LiveCalls(c, {"save", "create"}) /\ i \in LiveCalls(c, CallKind)
    BY <1>1, <1>9 DEF LiveCalls, Live, CallKind
  <2>2. \A j \in LiveCalls(c, {"save", "create"}) : j = i
    BY <2>1 DEF OneAtATime, Single
  <2>3. LiveCalls(d, {"save", "create"}) = {}
    BY <1>7, <2>2 DEF LiveCalls
  <2>4. LiveCalls(c, {"product"}) = {}
    <3>1. \A j \in LiveCalls(c, {"product"}) : j = i
      BY <2>1 DEF OneAtATime, LiveCalls
    <3> QED BY <3>1, <1>1 DEF LiveCalls
  <2>5. LiveCalls(d, {"product"}) = {}
    BY <1>7, <2>4 DEF LiveCalls
  <2>6. PICK sent : sent = c.calls[i].arg.product
    OBVIOUS
  <2>7. c.calls[i].status = "ok" /\ c.route = "product" /\ c.view.draft # None
    BY <1>9, <2>1, AnswerIs DEF OfThePage, OneAtATime
  <2>8. /\ Range(sent.images) \subseteq Range(c.view.draft.images) \cup mine.removed
        /\ mine.stock = None => sent.stock = c.view.draft.stock
        /\ ~ mine.late => sent = c.view.draft
        /\ c.calls[i].body = sent
    BY <1>1, <2>1, <2>6, <2>7 DEF FormInv
  <2>9. d.view.draft = sent /\ d.route = c.route
    BY <1>4, <1>6, <1>9, <2>8 DEF SamePage
  <2>10. ~ mine.late => Keeps(sent, mine)
    BY <2>7, <2>8 DEF FormInv
  <2>11. mine.stock = None /\ ~ mine.moved => sent.stock = product.stock
    BY <2>7, <2>8 DEF FormInv
  <2>12. ASSUME NEW j \in LiveCalls(d, {"upload"}), d.calls[j].status = "ok"
         PROVE  d.calls[j].body \notin Range(sent.images) \cup mine.removed
    <3>1. j \in LiveCalls(c, {"upload"}) /\ d.calls[j] = c.calls[j]
      BY <1>7 DEF LiveCalls
    <3>2. d.calls[j].body \notin Range(c.view.draft.images) \cup mine.removed
      BY <2>12, <3>1 DEF FormInv
    <3> QED BY <2>8, <3>2
  <2>13. FormInv(d, mine, product)
    BY <2>3, <2>5, <2>9, <2>10, <2>11, <2>12 DEF FormInv
  <2> QED BY <1>2, <1>5, <2>13
<1> QED BY <1>8, <1>9

\* A picture comes to the form.
LEMMA FormUploadHeard ==
  ASSUME NEW K, NEW P, NEW c, GoodTab(c, K, P), NEW s, OneAtATime(c, s), NEW i, Answered(c, i),
         c.calls[i].kind = "upload", NEW mine \in Put, NEW product, FormInv(c, mine, product)
  PROVE  FormInv(UploadHeard(c, i), HeardPut(c, i, mine), product)
<1>1. i \in Slots /\ c.view \in Views(K) /\ Shape(c) /\ c.calls[i] # None
  BY DEF Answered, GoodTab
<1> DEFINE r == Rested(c, "upload")
           v == IF Failed(c, i) THEN r
                ELSE [r EXCEPT !.draft = AddImage(r.draft, c.calls[i].body)]
<1>2. UploadHeard(c, i) = Show(c, i, v)
  BY DEF UploadHeard
<1>3. r \in Views(K) /\ r.draft = c.view.draft
  BY <1>1, RestedView DEF Rested, Views
<1> HIDE DEF r
<1>4. v.draft = IF Failed(c, i) THEN c.view.draft ELSE AddImage(c.view.draft, c.calls[i].body)
  BY <1>3 DEF Views
<1> HIDE DEF v
<1>5. PICK d : d = Show(c, i, v)
  OBVIOUS
<1>6. /\ SamePage(c, d) /\ d.view = IF c.calls[i].live THEN v ELSE c.view
      /\ \A j \in Slots : d.calls[j] = IF j = i THEN None ELSE c.calls[j]
  BY <1>1, <1>5, ShowIs
<1>7. \A j \in Slots : Live(d, j) => j # i /\ Live(c, j) /\ d.calls[j] = c.calls[j]
  BY <1>6 DEF Live
<1>8. CASE Failed(c, i) \/ ~ c.calls[i].live
  <2>1. d.view.draft = c.view.draft /\ d.route = c.route /\ HeardPut(c, i, mine) = mine
    BY <1>1, <1>4, <1>6, <1>8 DEF SamePage, HeardPut, Failed
  <2> QED BY <1>2, <1>5, <1>7, <2>1, FormFrame
<1>9. CASE ~ Failed(c, i) /\ c.calls[i].live
  <2>1. i \in LiveCalls(c, {"upload"})
    BY <1>1, <1>9 DEF LiveCalls, Live
  <2>2. c.view.draft # None /\ LiveCalls(c, {"product"}) = {}
    BY <2>1 DEF OneAtATime
  <2>3. PICK old : old = c.view.draft
    OBVIOUS
  <2>4. PICK image : image = c.calls[i].body
    OBVIOUS
  <2>5. old \in Form /\ image \notin Range(old.images) \cup mine.removed
    <3>1. c.calls[i].status = "ok"
      BY <1>9 DEF Failed
    <3> QED BY <1>1, <2>1, <2>2, <2>3, <2>4, <3>1 DEF FormInv, Views
  <2>6. image \in Images
    <3>1. Bodies("upload", K, P) = Images
      BY DEF Bodies
    <3> QED BY <1>9, <2>4, <3>1, AnswerIs
  <2>7. PICK new : new = AddImage(old, image)
    OBVIOUS
  <2>8. /\ new \in Form /\ new.stock = old.stock /\ new.active = old.active
        /\ Range(new.images) = Range(old.images) \cup {image}
    BY <2>5, <2>6, <2>7, AddImageForm
  <2>9. d.view.draft = new /\ d.route = c.route
    BY <1>4, <1>6, <1>9, <2>3, <2>4, <2>7 DEF SamePage
  <2>10. PICK m : m = HeardPut(c, i, mine)
    OBVIOUS
  <2>11. /\ m.stock = mine.stock /\ m.active = mine.active /\ m.removed = mine.removed
         /\ m.added = mine.added \cup {image} /\ m.moved = mine.moved
         /\ ~ m.late => ~ mine.late /\ "save" \notin c.view.busy
    BY <1>1, <1>9, <2>4, <2>10 DEF HeardPut, Failed, Put
  <2>12. c.route = "product" => (~ m.late => Keeps(new, m))
    <3>1. c.route = "product" /\ ~ mine.late => Keeps(old, mine)
      BY <2>2, <2>3 DEF FormInv
    <3> QED BY <2>5, <2>8, <2>11, <3>1 DEF Keeps
  <2>13. c.route = "product" => (m.stock = None /\ ~ m.moved => new.stock = product.stock)
    BY <2>2, <2>3, <2>8, <2>11 DEF FormInv
  <2>14. LiveCalls(d, {"product"}) = {}
    BY <1>7, <2>2 DEF LiveCalls
  <2>15. ASSUME NEW j \in LiveCalls(d, {"save", "create"})
         PROVE  LET sent == d.calls[j].arg.product
                IN /\ Range(sent.images) \subseteq Range(new.images) \cup m.removed
                   /\ m.stock = None => sent.stock = new.stock
                   /\ ~ m.late => sent = new
                   /\ d.calls[j].kind = "save" /\ d.calls[j].status = "ok" => d.calls[j].body = sent
    <3>1. j \in LiveCalls(c, {"save", "create"}) /\ d.calls[j] = c.calls[j]
      BY <1>7 DEF LiveCalls
    <3>2. "save" \in c.view.busy
      BY <3>1 DEF OneAtATime
    <3> QED BY <2>3, <2>8, <2>11, <3>1, <3>2 DEF FormInv
  <2>16. LiveCalls(d, {"upload"}) = {}
    <3>1. \A j \in LiveCalls(c, {"upload"}) : j = i
      BY <2>1 DEF OneAtATime, Single
    <3> QED BY <1>7, <3>1 DEF LiveCalls
  <2>17. FormInv(d, m, product)
    BY <2>9, <2>12, <2>13, <2>14, <2>15, <2>16 DEF FormInv
  <2> QED BY <1>2, <1>5, <2>10, <2>17
<1> QED BY <1>8, <1>9

LEMMA FormMeHeard ==
  ASSUME NEW K, NEW P, NEW c, GoodTab(c, K, P), NEW s, OneAtATime(c, s), NEW i, Answered(c, i),
         c.calls[i].kind = "me", NEW mine, FormInv(c, mine, shelf[c.subject])
  PROVE  FormInv(MeHeard(c, i), mine, shelf[MeHeard(c, i).subject])
<1>1. i \in Slots /\ Shape(c) /\ c.calls[i] # None
  BY DEF Answered, GoodTab
<1>2. PICK d : d = End(c, i)
  OBVIOUS
<1>3. /\ GoodTab(d, K, P) /\ Shape(d) /\ SamePage(c, d) /\ d.view = c.view
      /\ \A j \in Slots : d.calls[j] = IF j = i THEN None ELSE c.calls[j]
  BY <1>1, <1>2, GoodEnd, EndIs
<1>4. FormInv(d, mine, shelf[d.subject])
  BY <1>1, <1>2, <1>3, FormEnd DEF SamePage
<1>5. PICK no : no = FALSE
  OBVIOUS
<1>6. PICK b : b = [d EXCEPT !.token = no]
  OBVIOUS
<1>7. /\ b.route = d.route /\ b.subject = d.subject /\ b.view = d.view /\ b.calls = d.calls
  BY <1>3, <1>6, TokenIs
<1>8. FormInv(b, mine, shelf[b.subject])
  <2>1. \A j \in Slots : Live(b, j) => Live(d, j) /\ b.calls[j] = d.calls[j]
    BY <1>7 DEF Live
  <2> QED BY <1>4, <1>7, <2>1, FormFrame
<1>9. CASE c.calls[i].live /\ ~ Failed(c, i)
  <2>1. i \in LiveCalls(c, {"me", "product"}) /\ i \in LiveCalls(c, CallKind)
    BY <1>1, <1>9 DEF LiveCalls, Live, CallKind
  <2>2. ~ c.ready /\ \A j \in LiveCalls(c, CallKind) : i = j
    BY <2>1 DEF OneAtATime
  <2>3. c.view.draft = None
    BY <2>2 DEF OneAtATime
  <2>4. \A j \in Slots : Live(c, j) => j \in LiveCalls(c, CallKind)
    BY DEF LiveCalls, Live, GoodTab, GoodCall
  <2>5. Idle(d)
    BY <1>3, <2>2, <2>4 DEF Idle, Live
  <2>6. Fresh(Enter(d))
    BY <1>3, <2>3, <2>5, FreshEnter
  <2> QED BY <1>2, <1>9, <2>6, FormFresh DEF MeHeard
<1>10. Fresh(SignOut(d))
  BY <1>3, FreshSignOut
<1> QED BY <1>2, <1>4, <1>5, <1>6, <1>8, <1>9, <1>10, FormFresh DEF MeHeard

LEMMA FormHeard ==
  ASSUME NEW K, NEW P, NEW c, GoodTab(c, K, P), NEW s, OneAtATime(c, s), NEW i, Answered(c, i),
         NEW mine \in Put, FormInv(c, mine, shelf[c.subject])
  PROVE  FormInv(Heard(c, i), HeardPut(c, i, mine), shelf[Heard(c, i).subject])
<1>1. i \in Slots /\ c.calls[i].kind \in CallKind /\ Shape(c) /\ c.view \in Views(K)
  BY AnswerIs DEF Answered, GoodTab
<1>2. PICK d : d = End(c, i)
  OBVIOUS
<1>3. GoodTab(d, K, P)
  BY <1>1, <1>2, GoodEnd
<1>4. \A m, route, subject :
        FormInv(Mount(d, route, subject), m, shelf[Mount(d, route, subject).subject])
  BY <1>3, FreshMount, FormFresh
<1>5. \A m : FormInv(SignOut(d), m, shelf[SignOut(d).subject])
  BY <1>3, FreshSignOut, FormFresh
<1>6. \A view : Show(c, i, view).subject = c.subject
  BY <1>1, ShowIs DEF SamePage
<1>7. \A view : view.draft = c.view.draft =>
        FormInv(Show(c, i, view), mine, shelf[Show(c, i, view).subject])
  BY <1>1, <1>6, FormShow
<1>8. \A kind : Rested(c, kind).draft = c.view.draft
  BY <1>1 DEF Rested, Views
<1>9. \A kind : FormInv(Show(c, i, Rested(c, kind)), mine, shelf[Show(c, i, Rested(c, kind)).subject])
  BY <1>7, <1>8
<1>10. c.calls[i].kind \notin {"product", "upload"} => HeardPut(c, i, mine) = mine
  BY DEF HeardPut
<1>11. CASE c.calls[i].status = "401"
  BY <1>2, <1>5, <1>11 DEF Heard
<1>12. CASE c.calls[i].status # "401"
  <2>1. CASE c.calls[i].kind = "me"
    BY <1>10, <1>12, <2>1, FormMeHeard DEF Heard
  <2>2. CASE c.calls[i].kind = "login"
    <3>1. PICK yes \in BOOLEAN : yes = TRUE
      OBVIOUS
    <3>2. PICK b : b = [d EXCEPT !.token = yes]
      OBVIOUS
    <3>3. GoodTab(b, K, P)
      BY <1>3, <3>2, GoodToken
    <3>4. PICK e : e = Mount(b, "products", None)
      OBVIOUS
    <3>5. FormInv(e, mine, shelf[e.subject])
      BY <3>3, <3>4, FreshMount, FormFresh
    <3>6. Heard(c, i) = IF Failed(c, i) THEN Show(c, i, Rested(c, "login")) ELSE e
      BY <1>2, <1>12, <2>2, <3>1, <3>2, <3>4 DEF Heard, LoginHeard
    <3> QED BY <1>9, <1>10, <2>2, <3>5, <3>6
  <2>3. CASE c.calls[i].kind = "orders"
    <3> DEFINE body == c.calls[i].body
               v == IF Failed(c, i) THEN [c.view EXCEPT !.loading = FALSE, !.failed = TRUE]
                    ELSE [c.view EXCEPT !.loading = FALSE, !.rows = body.rows, !.next = body.next]
    <3>1. v.draft = c.view.draft
      BY <1>1 DEF Views
    <3>2. Heard(c, i) = Show(c, i, v)
      BY <1>12, <2>3 DEF Heard, OrdersHeard
    <3> HIDE DEF v
    <3> QED BY <1>7, <1>10, <2>3, <3>1, <3>2
  <2>4. CASE c.calls[i].kind = "order"
    <3> DEFINE v == IF Failed(c, i) THEN [c.view EXCEPT !.loading = FALSE, !.failed = TRUE]
                    ELSE [c.view EXCEPT !.loading = FALSE, !.shown = c.calls[i].body]
    <3>1. v.draft = c.view.draft
      BY <1>1 DEF Views
    <3>2. Heard(c, i) = Show(c, i, v)
      BY <1>12, <2>4 DEF Heard, OrderHeard
    <3> HIDE DEF v
    <3> QED BY <1>7, <1>10, <2>4, <3>1, <3>2
  <2>5. CASE c.calls[i].kind = "advance"
    <3> DEFINE v == IF Failed(c, i) THEN Rested(c, "advance")
                    ELSE [Rested(c, "advance") EXCEPT !.shown = c.calls[i].body]
    <3>1. v.draft = c.view.draft
      BY <1>1, <1>8, RestedView DEF Views
    <3>2. PICK heard : heard = Show(c, i, v)
      OBVIOUS
    <3>3. Heard(c, i) = IF c.calls[i].status = "409" /\ c.calls[i].live
                          THEN LoadOrder(heard) ELSE heard
      BY <1>12, <2>5, <3>2 DEF Heard, AdvanceHeard
    <3>4. c.calls[i].live => v \in Views(K)
      <4>1. CASE Failed(c, i)
        BY <4>1, RestedView
      <4>2. CASE ~ Failed(c, i)
        <5>1. c.calls[i].body \in Order
          BY <2>5, <4>2, AnswerIs DEF Bodies
        <5>2. Rested(c, "advance") \in Views(K)
          BY RestedView
        <5> QED BY <4>2, <5>1, <5>2 DEF Views
      <4> QED BY <4>1, <4>2
    <3> HIDE DEF v
    <3>5. GoodTab(heard, K, P)
      BY <1>1, <3>2, <3>4, GoodShow
    <3>6. FormInv(heard, mine, shelf[heard.subject])
      BY <1>7, <3>1, <3>2
    <3>7. PICK e : e = LoadOrder(heard)
      OBVIOUS
    <3>8. SamePage(heard, e) /\ e.view.draft = heard.view.draft /\ Asks(heard, e, "order")
      BY <3>5, <3>7, LoadOrderAsks
    <3>9. FormInv(e, mine, shelf[e.subject])
      BY <3>6, <3>8, FormAsks DEF SamePage
    <3> QED BY <1>10, <2>5, <3>3, <3>6, <3>7, <3>9
  <2>6. CASE c.calls[i].kind = "label"
    BY <1>9, <1>10, <1>12, <2>6 DEF Heard
  <2>7. CASE c.calls[i].kind = "products"
    BY <1>7, <1>10, <1>12, <2>7 DEF Heard
  <2>8. CASE c.calls[i].kind = "product"
    <3>1. Heard(c, i) = ProductHeard(c, i) /\ Heard(c, i).subject = c.subject
      BY <1>6, <1>12, <2>8 DEF Heard, ProductHeard
    <3> QED BY <2>8, <3>1, FormProductHeard
  <2>9. CASE c.calls[i].kind = "save"
    <3>1. Heard(c, i) = SaveHeard(c, i) /\ Heard(c, i).subject = c.subject
      BY <1>6, <1>12, <2>9 DEF Heard, SaveHeard
    <3> QED BY <1>10, <2>9, <3>1, FormSaveHeard
  <2>10. CASE c.calls[i].kind = "create"
    BY <1>2, <1>4, <1>9, <1>10, <1>12, <2>10 DEF Heard, CreateHeard
  <2>11. CASE c.calls[i].kind = "retire"
    BY <1>2, <1>4, <1>9, <1>10, <1>12, <2>11 DEF Heard, RetireHeard
  <2>12. CASE c.calls[i].kind = "upload"
    <3>1. Heard(c, i) = UploadHeard(c, i) /\ Heard(c, i).subject = c.subject
      BY <1>6, <1>12, <2>12 DEF Heard, UploadHeard
    <3> QED BY <2>12, <3>1, FormUploadHeard
  <2> QED BY <1>1, <2>1, <2>2, <2>3, <2>4, <2>5, <2>6, <2>7, <2>8, <2>9, <2>10, <2>11, <2>12
          DEF CallKind
<1> QED BY <1>11, <1>12

-----------------------------------------------------------------------------
(* A step of the system, from what it does to one tab.                     *)

\* More orders and products do not hurt.
LEMMA GoodMore ==
  ASSUME NEW c, NEW K, NEW P, NEW L, NEW Q, GoodTab(c, K, P), K \subseteq L, P \subseteq Q
  PROVE  GoodTab(c, L, Q)
<1>1. ASSUME NEW f, GoodCall(f, K, P)
      PROVE  GoodCall(f, L, Q)
  <2>1. Args(f.kind, K, P) \subseteq Args(f.kind, L, Q)
    BY DEF Args
  <2>2. Bodies(f.kind, K, P) \subseteq Bodies(f.kind, L, Q)
    BY DEF Bodies
  <2> QED BY <1>1, <2>1, <2>2 DEF GoodCall
<1>2. Views(K) \subseteq Views(L)
  <2> DEFINE A == {None} \cup SUBSET K
             B == {None} \cup SUBSET L
  <2>1. A \subseteq B
    OBVIOUS
  <2>2. \A v \in Views(K) : v \in Views(L)
    <3>1. Views(K) = [filters : Filter, choice : Filter, cursors : Seq(Cursor) \ {<<>>}, rows : A,
             next : Cursor, shown : Order \cup {None}, loading : BOOLEAN, failed : BOOLEAN,
             busy : SUBSET CallKind, draft : Form \cup {None}, confirm : BOOLEAN]
      BY DEF Views
    <3>2. Views(L) = [filters : Filter, choice : Filter, cursors : Seq(Cursor) \ {<<>>}, rows : B,
             next : Cursor, shown : Order \cup {None}, loading : BOOLEAN, failed : BOOLEAN,
             busy : SUBSET CallKind, draft : Form \cup {None}, confirm : BOOLEAN]
      BY DEF Views
    <3> HIDE DEF A, B
    <3> QED BY <2>1, <3>1, <3>2
  <2> QED BY <2>2
<1> QED BY <1>1, <1>2 DEF GoodTab

\* The tab of op becomes d; the others stay.
LEMMA TabStep ==
  ASSUME PagesInv, NEW op \in Operators, NEW d, tabs' = [tabs EXCEPT ![op] = d],
         Known \subseteq Known', Stocked \subseteq Stocked', seen \subseteq seen',
         (book \in [OrderIds -> Order \cup {None}])', (shelf \in [ProductIds -> Product \cup {None}])',
         (now \in 0..MaxTime)', desk' = desk, (put \in [Operators -> Put])',
         GoodTab(d, Known', Stocked'), OneAtATime(d, seen'), FormInv(d, put'[op], shelf'[d.subject]),
         \A x \in Operators \ {op} : FormInv(tabs[x], put'[x], shelf'[tabs[x].subject])
  PROVE  PagesInv'
<1>1. /\ tabs = [x \in Operators |-> tabs[x]] /\ desk \in Desks
      /\ \A x \in Operators : GoodTab(tabs[x], Known, Stocked)
  BY DEF PagesInv, TypeInv
<1>2. /\ tabs' = [x \in Operators |-> IF x = op THEN d ELSE tabs[x]]
      /\ tabs'[op] = d /\ \A x \in Operators \ {op} : tabs'[x] = tabs[x]
  BY <1>1
<1>3. \A x \in Operators : GoodTab(tabs'[x], Known', Stocked')
  <2>1. \A x \in Operators \ {op} : GoodTab(tabs[x], Known', Stocked')
    BY <1>1, GoodMore
  <2> QED BY <1>2, <2>1
<1>4. \A x \in Operators : OneAtATime(tabs'[x], seen')
  <2>1. \A x \in Operators : OneAtATime(tabs[x], seen)
    BY DEF PagesInv, OneInv
  <2>2. \A x \in Operators \ {op} : OneAtATime(tabs[x], seen')
    BY <2>1, OneMore
  <2> QED BY <1>2, <2>2
<1>5. \A x \in Operators : FormInv(tabs'[x], put'[x], shelf'[tabs'[x].subject])
  BY <1>2
<1>6. TypeInv'
  <2>1. tabs' = [x \in Operators |-> tabs'[x]]
    BY <1>2
  <2> QED BY <1>1, <1>3, <2>1 DEF TypeInv
<1> QED BY <1>4, <1>5, <1>6 DEF PagesInv, OneInv, FormsInv

\* The same when a click or an answer only changes the tab and the history of its form.
LEMMA PageStep ==
  ASSUME PagesInv, NEW op \in Operators, NEW d, tabs' = [tabs EXCEPT ![op] = d],
         UNCHANGED <<book, shelf, now, desk>>, seen \subseteq seen',
         NEW mine \in Put, put' = [put EXCEPT ![op] = mine],
         GoodTab(d, Known, Stocked), OneAtATime(d, seen'), FormInv(d, mine, shelf[d.subject])
  PROVE  PagesInv'
<1>1. /\ book \in [OrderIds -> Order \cup {None}] /\ shelf \in [ProductIds -> Product \cup {None}]
      /\ now \in 0..MaxTime /\ put \in [Operators -> Put]
  BY DEF PagesInv, TypeInv
<1>2. Known' = Known /\ Stocked' = Stocked
  BY DEF Known, Stocked
<1>3. put'[op] = mine /\ put' \in [Operators -> Put] /\ \A x \in Operators \ {op} : put'[x] = put[x]
  BY <1>1
<1>4. \A x \in Operators : FormInv(tabs[x], put[x], shelf[tabs[x].subject])
  BY DEF PagesInv, FormsInv
<1>5. \A x \in Operators \ {op} : FormInv(tabs[x], put'[x], shelf'[tabs[x].subject])
  BY <1>3, <1>4
<1> QED BY <1>1, <1>2, <1>3, <1>5, TabStep

LEMMA ClickStep ==
  ASSUME PagesInv, NEW op \in Operators, NEW d, tabs' = [tabs EXCEPT ![op] = d],
         UNCHANGED <<book, shelf, now, desk, put>>, seen \subseteq seen',
         GoodTab(d, Known, Stocked), OneAtATime(d, seen'), FormInv(d, put[op], shelf[d.subject])
  PROVE  PagesInv'
<1>1. put \in [Operators -> Put]
  BY DEF PagesInv, TypeInv
<1>2. put[op] \in Put /\ put' = [put EXCEPT ![op] = put[op]]
  BY <1>1
<1> QED BY <1>2, PageStep

-----------------------------------------------------------------------------
(* Clicks.                                                                 *)

\* What there is to say of a tab before a click.
LEMMA PageOf ==
  ASSUME PagesInv, NEW op \in Operators
  PROVE  LET c == tabs[op]
         IN /\ GoodTab(c, Known, Stocked) /\ Shape(c) /\ c.view \in Views(Known) /\ c.ready \in BOOLEAN
            /\ OneAtATime(c, seen) /\ FormInv(c, put[op], shelf[c.subject])
            /\ put[op] \in Put
BY DEF PagesInv, TypeInv, OneInv, FormsInv, GoodTab

\* A button rests, and is pressed.
LEMMA StartStep ==
  ASSUME PagesInv, NEW op \in Operators, NEW kind \in {"login", "advance", "label", "retire", "upload"},
         NEW arg \in Args(kind, Known, Stocked), tabs[op].ready, kind \notin tabs[op].view.busy,
         tabs[op].route # "product" \/ tabs[op].view.draft # None,
         OfThePage(tabs[op], Asked(kind, arg)),
         kind = "upload" => tabs[op].view.draft # None,
         kind = "advance" => ~ tabs[op].view.loading,
         Start(op, kind, arg)
  PROVE  PagesInv'
<1>1. PICK c : c = tabs[op]
  OBVIOUS
<1>2. /\ GoodTab(c, Known, Stocked) /\ Shape(c) /\ c.view \in Views(Known) /\ c.ready
      /\ OneAtATime(c, seen) /\ FormInv(c, put[op], shelf[c.subject])
  BY <1>1, PageOf
<1>3. PICK w : w = [c.view EXCEPT !.busy = c.view.busy \cup {kind}]
  OBVIOUS
<1>4. w \in Views(Known) /\ w.busy = c.view.busy \cup {kind} /\ w.draft = c.view.draft
      /\ w.loading = c.view.loading
  BY <1>2, <1>3 DEF Views, CallKind
<1>5. PICK b : b = [c EXCEPT !.view = w]
  OBVIOUS
<1>6. /\ Shape(b) /\ SamePage(c, b) /\ b.view = w /\ b.calls = c.calls /\ GoodTab(b, Known, Stocked)
  BY <1>2, <1>4, <1>5, ViewIs, GoodView
<1>7. PICK d : d = Ask(b, kind, arg)
  OBVIOUS
<1>8. Start(op, kind, arg) => Click(op, d)
  <2>1. [c EXCEPT !.view.busy = c.view.busy \cup {kind}] = b
    BY <1>2, <1>3, <1>5 DEF Shape
  <2>2. Start(op, kind, arg) => Click(op, Ask([c EXCEPT !.view.busy = @ \cup {kind}], kind, arg))
    BY <1>1 DEF Start
  <2> QED BY <1>7, <2>1, <2>2
<1>9. tabs' = [tabs EXCEPT ![op] = d] /\ UNCHANGED <<book, shelf, now, desk, put, seen>>
  BY <1>8 DEF Click, server, history
<1>10. \A j \in Slots : Live(b, j) <=> Live(c, j)
  BY <1>6 DEF Live
<1>11. OneAtATime(b, seen)
  BY <1>2, <1>4, <1>6, <1>10, OneFewer DEF SamePage
<1>12. MayAsk(b, kind, seen)
  <2>1. LiveCalls(c, {"me", "product"}) = {}
    BY <1>1, <1>2, NoGuard
  <2>2. \A kinds : LiveCalls(b, kinds) = LiveCalls(c, kinds)
    BY <1>6, <1>10 DEF LiveCalls
  <2>3. kind = "upload" => LiveCalls(c, {"upload"}) = {}
    BY <1>1, <1>2 DEF OneAtATime
  <2>4. kind = "advance" => LiveCalls(c, {"advance"}) = {}
    BY <1>1, <1>2 DEF OneAtATime
  <2>5. kind = "advance" /\ "overlap" \notin seen => LiveCalls(c, {"order", "advance"}) = {}
    <3>1. kind = "advance" /\ "overlap" \notin seen => LiveCalls(c, {"order"}) = {}
      BY <1>1, <1>2 DEF OneAtATime
    <3> QED BY <2>4, <3>1 DEF LiveCalls
  <2> QED BY <1>1, <1>2, <1>4, <1>6, <2>1, <2>2, <2>3, <2>4, <2>5 DEF MayAsk, SamePage
<1>13. OneAtATime(d, seen)
  BY <1>2, <1>6, <1>7, <1>11, <1>12, OneAsk DEF SamePage
<1>14. GoodTab(d, Known, Stocked)
  <2>1. kind \in CallKind
    BY DEF CallKind
  <2>2. OfThePage(b, Asked(kind, arg))
    BY <1>1, <1>6 DEF OfThePage, SamePage
  <2> QED BY <1>6, <1>7, <2>1, <2>2, GoodAsk
<1>15. FormInv(d, put[op], shelf[d.subject])
  <2>1. SamePage(b, d) /\ d.view = w /\ Asks(b, d, kind)
    BY <1>6, <1>7, AskIs, AskAsks
  <2>2. Asks(c, d, kind)
    BY <1>6, <2>1 DEF Asks, Live
  <2>3. d.route = c.route /\ d.subject = c.subject /\ d.view.draft = c.view.draft
    BY <1>4, <1>6, <2>1 DEF SamePage
  <2> QED BY <1>2, <2>2, <2>3, FormAsks
<1>16. seen \subseteq seen' /\ OneAtATime(d, seen')
  BY <1>9, <1>13
<1> QED BY <1>9, <1>14, <1>15, <1>16, ClickStep

LEMMA OpensStep ==
  ASSUME PagesInv, NEW op \in Operators, NEW route, NEW subject, Target(route, subject, Known, Stocked),
         Click(op, Mount(tabs[op], route, subject))
  PROVE  PagesInv'
<1>1. PICK d : d = Mount(tabs[op], route, subject)
  OBVIOUS
<1>2. GoodTab(d, Known, Stocked)
  BY <1>1, PageOf, GoodMount
<1>3. OneAtATime(d, seen) /\ Fresh(d)
  BY <1>1, PageOf, OneMount, FreshMount
<1>4. tabs' = [tabs EXCEPT ![op] = d] /\ UNCHANGED <<book, shelf, now, desk, put, seen>>
  BY <1>1 DEF Click, server, history
<1>5. FormInv(d, put[op], shelf[d.subject])
  BY <1>3, FormFresh
<1> QED BY <1>2, <1>3, <1>4, <1>5, ClickStep

LEMMA FollowStep ==
  ASSUME PagesInv, NEW op \in Operators, Follow(op)
  PROVE  PagesInv'
<1>1. CASE Click(op, Mount(tabs[op], "orders", None))
  BY <1>1, OpensStep DEF Target, Route
<1>2. CASE Click(op, Mount(tabs[op], "products", None))
  BY <1>2, OpensStep DEF Target, Route
<1>3. CASE Click(op, SignOut(tabs[op]))
  <2>1. PICK d : d = SignOut(tabs[op])
    OBVIOUS
  <2>2. GoodTab(d, Known, Stocked) /\ OneAtATime(d, seen) /\ Fresh(d)
    BY <2>1, PageOf, GoodSignOut, OneSignOut, FreshSignOut
  <2>3. tabs' = [tabs EXCEPT ![op] = d] /\ UNCHANGED <<book, shelf, now, desk, put, seen>>
    BY <1>3, <2>1 DEF Click, server, history
  <2>4. FormInv(d, put[op], shelf[d.subject])
    BY <2>2, FormFresh
  <2> QED BY <2>2, <2>3, <2>4, ClickStep
<1>4. CASE Click(op, Mount(tabs[op], "new", None))
  BY <1>4, OpensStep DEF Target, Route
<1>5. CASE \E p \in ProductIds : shelf[p] # None /\ Click(op, Mount(tabs[op], "product", p))
  <2>1. PICK p \in ProductIds : shelf[p] # None /\ Click(op, Mount(tabs[op], "product", p))
    BY <1>5
  <2>2. Target("product", p, Known, Stocked)
    BY <2>1 DEF Target, Route, Stocked
  <2> QED BY <2>1, <2>2, OpensStep
<1>6. CASE View(op).rows # None /\ \E o \in View(op).rows : Click(op, Mount(tabs[op], "order", o))
  <2>1. PICK o \in View(op).rows : Click(op, Mount(tabs[op], "order", o))
    BY <1>6
  <2>2. View(op).rows \subseteq Known
    BY <1>6, PageOf DEF View, Views
  <2>3. Target("order", o, Known, Stocked)
    BY <2>1, <2>2 DEF Target, Route
  <2> QED BY <2>1, <2>3, OpensStep
<1> QED BY <1>1, <1>2, <1>3, <1>4, <1>5, <1>6 DEF Follow

\* The view changes, and with it neither what is under way nor the form.
LEMMA ViewStep ==
  ASSUME PagesInv, NEW op \in Operators, NEW w \in Views(Known),
         w.draft = tabs[op].view.draft, w.busy = tabs[op].view.busy, w.loading = tabs[op].view.loading
  PROVE  LET d == [tabs[op] EXCEPT !.view = w]
         IN /\ GoodTab(d, Known, Stocked) /\ SamePage(tabs[op], d) /\ OneAtATime(d, seen)
            /\ FormInv(d, put[op], shelf[d.subject])
<1>1. PICK c : c = tabs[op]
  OBVIOUS
<1>2. /\ GoodTab(c, Known, Stocked) /\ Shape(c)
      /\ OneAtATime(c, seen) /\ FormInv(c, put[op], shelf[c.subject])
  BY <1>1, PageOf
<1>3. PICK d : d = [c EXCEPT !.view = w]
  OBVIOUS
<1>4. /\ SamePage(c, d) /\ d.view = w /\ d.calls = c.calls /\ GoodTab(d, Known, Stocked)
  BY <1>2, <1>3, ViewIs, GoodView
<1>5. \A j \in Slots : Live(d, j) <=> Live(c, j)
  BY <1>4 DEF Live
<1>6. OneAtATime(d, seen)
  BY <1>1, <1>2, <1>4, <1>5, OneFewer DEF SamePage
<1>7. FormInv(d, put[op], shelf[d.subject])
  BY <1>1, <1>2, <1>4, <1>5, FormFrame DEF SamePage
<1> QED BY <1>1, <1>3, <1>4, <1>6, <1>7

LEMMA ChooseStep ==
  ASSUME PagesInv, NEW op \in Operators, Choose(op)
  PROVE  PagesInv'
<1>1. PICK f \in Filters : Click(op, [tabs[op] EXCEPT !.view.choice = f])
  BY DEF Choose
<1>2. PICK c : c = tabs[op]
  OBVIOUS
<1>3. c.view \in Views(Known) /\ Shape(c)
  BY <1>2, PageOf
<1>4. PICK w : w = [c.view EXCEPT !.choice = f]
  OBVIOUS
<1>5. /\ w \in Views(Known) /\ w.draft = c.view.draft /\ w.busy = c.view.busy
      /\ w.loading = c.view.loading
  BY <1>3, <1>4, FiltersAssumption DEF Views
<1>6. PICK d : d = [tabs[op] EXCEPT !.view = w]
  OBVIOUS
<1>7. d = [tabs[op] EXCEPT !.view.choice = f]
  BY <1>2, <1>3, <1>4, <1>6 DEF Shape
<1>8. tabs' = [tabs EXCEPT ![op] = d] /\ UNCHANGED <<book, shelf, now, desk, put, seen>>
  BY <1>1, <1>7 DEF Click, server, history
<1>9. /\ GoodTab(d, Known, Stocked) /\ OneAtATime(d, seen)
      /\ FormInv(d, put[op], shelf[d.subject])
  BY <1>2, <1>5, <1>6, ViewStep
<1> QED BY <1>8, <1>9, ClickStep

\* The order book is loaded with the filters and the cursors of w.
LEMMA ReloadStep ==
  ASSUME PagesInv, NEW op \in Operators, On(op, "orders"), NEW w \in Views(Known),
         w.draft = tabs[op].view.draft, w.busy = tabs[op].view.busy, w.loading = tabs[op].view.loading,
         Click(op, LoadOrders([tabs[op] EXCEPT !.view = w]))
  PROVE  PagesInv'
<1>1. PICK b : b = [tabs[op] EXCEPT !.view = w]
  OBVIOUS
<1>2. /\ GoodTab(b, Known, Stocked) /\ SamePage(tabs[op], b) /\ OneAtATime(b, seen)
      /\ FormInv(b, put[op], shelf[b.subject])
  BY <1>1, ViewStep
<1>3. b.route = "orders" /\ b.ready
  BY <1>2 DEF On, SamePage
<1>4. PICK d : d = LoadOrders(b)
  OBVIOUS
<1>5. GoodTab(d, Known, Stocked) /\ OneAtATime(d, seen)
  BY <1>2, <1>3, <1>4, GoodLoadOrders, OneLoadOrders
<1>6. SamePage(b, d) /\ d.view.draft = b.view.draft /\ Asks(b, d, "orders")
  BY <1>2, <1>4, LoadOrdersAsks
<1>7. FormInv(d, put[op], shelf[d.subject])
  BY <1>2, <1>6, FormAsks DEF SamePage
<1>8. tabs' = [tabs EXCEPT ![op] = d] /\ UNCHANGED <<book, shelf, now, desk, put, seen>>
  BY <1>1, <1>4 DEF Click, server, history
<1> QED BY <1>5, <1>7, <1>8, ClickStep

\* Where the buttons of the list go from the view v.
Leads(v, w) ==
  \/ w.cursors = <<None>>
  \/ /\ w.filters = v.filters /\ v.rows # None /\ v.next # None
     /\ w.cursors = Append(v.cursors, v.next)
  \/ w.filters = v.filters /\ Len(v.cursors) > 1 /\ w.cursors = Front(v.cursors)

\* A reload of the order book only changes the filters and the cursors first.
Reloads(op, w) ==
  /\ w \in Views(Known) /\ w.draft = tabs[op].view.draft /\ w.busy = tabs[op].view.busy
  /\ w.loading = tabs[op].view.loading /\ w.shown = tabs[op].view.shown
  /\ Leads(tabs[op].view, w) /\ Click(op, LoadOrders([tabs[op] EXCEPT !.view = w]))

LEMMA ReloadIs ==
  ASSUME PagesInv, NEW op \in Operators, ApplyFilters(op) \/ GoNext(op) \/ GoPrev(op)
  PROVE  On(op, "orders") /\ \E w : Reloads(op, w)
<1>1. PICK c : c = tabs[op]
  OBVIOUS
<1>2. c.view \in Views(Known) /\ Shape(c)
  BY <1>1, PageOf
<1>3. c.view.cursors \in Seq(Cursor) /\ c.view.cursors # <<>> /\ c.view.next \in Cursor
      /\ None \in Cursor /\ c.view.choice \in Filter
  BY <1>2 DEF Views, Cursor
<1>4. On(op, "orders")
  BY DEF ApplyFilters, GoNext, GoPrev, PageShown
<1>5. CASE ApplyFilters(op)
  <2>1. PICK w : w = [c.view EXCEPT !.cursors = <<None>>, !.filters = c.view.choice]
    OBVIOUS
  <2>2. <<None>> \in Seq(Cursor) \ {<<>>}
    BY <1>3
  <2>3. /\ w \in Views(Known) /\ w.draft = c.view.draft /\ w.busy = c.view.busy
        /\ w.loading = c.view.loading /\ w.shown = c.view.shown
    BY <1>2, <1>3, <2>1, <2>2 DEF Views
  <2>4. [c EXCEPT !.view.cursors = <<None>>, !.view.filters = c.view.choice] = [c EXCEPT !.view = w]
    BY <1>2, <2>1 DEF Shape
  <2>5. Click(op, LoadOrders([c EXCEPT !.view = w]))
    BY <1>1, <1>5, <2>4 DEF ApplyFilters, View
  <2>6. Leads(c.view, w)
    BY <1>2, <2>1 DEF Views, Leads
  <2> QED BY <1>1, <1>4, <2>3, <2>5, <2>6 DEF Reloads
<1>6. CASE GoNext(op)
  <2>1. PICK s : s = Append(c.view.cursors, c.view.next)
    OBVIOUS
  <2>2. s \in Seq(Cursor) \ {<<>>}
    BY <1>3, <2>1, AppendProperties
  <2>3. PICK w : w = [c.view EXCEPT !.cursors = s]
    OBVIOUS
  <2>4. /\ w \in Views(Known) /\ w.draft = c.view.draft /\ w.busy = c.view.busy
        /\ w.loading = c.view.loading /\ w.shown = c.view.shown
    BY <1>2, <2>2, <2>3 DEF Views
  <2>5. [c EXCEPT !.view.cursors = Append(@, c.view.next)] = [c EXCEPT !.view = w]
    BY <1>2, <2>1, <2>3 DEF Shape
  <2>6. Click(op, LoadOrders([c EXCEPT !.view = w]))
    BY <1>1, <1>6, <2>5 DEF GoNext, View
  <2>7. Leads(c.view, w)
    <3>1. c.view.rows # None /\ c.view.next # None
      BY <1>1, <1>6 DEF GoNext, PageShown, View
    <3> QED BY <1>2, <2>1, <2>3, <3>1 DEF Views, Leads
  <2> QED BY <1>1, <1>4, <2>4, <2>6, <2>7 DEF Reloads
<1>7. CASE GoPrev(op)
  <2>1. PICK s : s = Front(c.view.cursors)
    OBVIOUS
  <2>2. s \in Seq(Cursor) \ {<<>>}
    <3>1. Len(c.view.cursors) > 1
      BY <1>1, <1>7 DEF GoPrev, View
    <3>2. PICK all \in Seq(Cursor) : all = c.view.cursors
      BY <1>3
    <3>3. s = SubSeq(all, 1, Len(all) - 1)
      BY <2>1, <3>2 DEF Front
    <3>4. s \in Seq(Cursor) /\ Len(s) = Len(all) - 1
      BY <3>1, <3>2, <3>3
    <3> QED BY <3>1, <3>2, <3>4
  <2>3. PICK w : w = [c.view EXCEPT !.cursors = s]
    OBVIOUS
  <2>4. /\ w \in Views(Known) /\ w.draft = c.view.draft /\ w.busy = c.view.busy
        /\ w.loading = c.view.loading /\ w.shown = c.view.shown
    BY <1>2, <2>2, <2>3 DEF Views
  <2>5. [c EXCEPT !.view.cursors = Front(@)] = [c EXCEPT !.view = w]
    BY <1>2, <2>1, <2>3 DEF Shape
  <2>6. Click(op, LoadOrders([c EXCEPT !.view = w]))
    BY <1>1, <1>7, <2>5 DEF GoPrev, View
  <2>7. Leads(c.view, w)
    <3>1. Len(c.view.cursors) > 1
      BY <1>1, <1>7 DEF GoPrev, View
    <3> QED BY <1>2, <2>1, <2>3, <3>1 DEF Views, Leads
  <2> QED BY <1>1, <1>4, <2>4, <2>6, <2>7 DEF Reloads
<1> QED BY <1>5, <1>6, <1>7

LEMMA ApplyFiltersStep ==
  ASSUME PagesInv, NEW op \in Operators, ApplyFilters(op) \/ GoNext(op) \/ GoPrev(op)
  PROVE  PagesInv'
<1>1. On(op, "orders") /\ \E w : Reloads(op, w)
  BY ReloadIs
<1>2. PICK w : Reloads(op, w)
  BY <1>1
<1> QED BY <1>1, <1>2, ReloadStep DEF Reloads

-----------------------------------------------------------------------------
(* The pictures of a form.                                                 *)

LEMMA WithoutIs ==
  ASSUME NEW s \in Pictures, NEW n \in 1..Len(s)
  PROVE  /\ RemoveAt(s, n) \in Seq(Images) /\ Len(RemoveAt(s, n)) = Len(s) - 1
         /\ \A k \in 1..Len(s) - 1 : RemoveAt(s, n)[k] = IF k < n THEN s[k] ELSE s[k + 1]
<1>1. s \in Seq(Images) /\ Len(s) \in Nat
  BY DEF Pictures
<1>2. PICK a : a = SubSeq(s, 1, n - 1)
  OBVIOUS
<1>3. PICK b : b = SubSeq(s, n + 1, Len(s))
  OBVIOUS
<1>4. a \in Seq(Images) /\ Len(a) = n - 1 /\ \A k \in 1..n - 1 : a[k] = s[k]
  <2>1. \A k \in 1..n - 1 : s[k] \in Images
    BY <1>1, ElementOfSeq
  <2> QED BY <1>1, <1>2, <2>1, SubSeqProperties
<1>5. /\ b \in Seq(Images) /\ Len(b) = Len(s) - n
      /\ \A k \in 1..Len(s) - n : b[k] = s[n + k]
  <2>1. \A k \in n + 1..Len(s) : s[k] \in Images
    BY <1>1, ElementOfSeq
  <2>2. b \in Seq(Images) /\ Len(b) = IF n + 1 <= Len(s) THEN Len(s) - (n + 1) + 1 ELSE 0
    BY <1>1, <1>3, <2>1, SubSeqProperties
  <2>3. \A k \in 1..Len(s) - n : b[k] = s[n + 1 + k - 1]
    BY <1>1, <1>3, <2>1, SubSeqProperties
  <2>4. \A k \in 1..Len(s) - n : n + 1 + k - 1 = n + k
    BY <1>1
  <2> QED BY <1>1, <2>2, <2>3, <2>4
<1>6. RemoveAt(s, n) = a \o b
  BY <1>2, <1>3 DEF RemoveAt
<1>7. /\ a \o b \in Seq(Images) /\ Len(a \o b) = Len(a) + Len(b)
      /\ \A k \in 1..Len(a) + Len(b) : (a \o b)[k] = IF k <= Len(a) THEN a[k] ELSE b[k - Len(a)]
  BY <1>4, <1>5, ConcatProperties
<1>8. Len(a \o b) = Len(s) - 1
  BY <1>1, <1>4, <1>5, <1>7
<1>9. ASSUME NEW k \in 1..Len(s) - 1
      PROVE  (a \o b)[k] = IF k < n THEN s[k] ELSE s[k + 1]
  <2>1. k \in 1..Len(a) + Len(b)
    BY <1>1, <1>4, <1>5
  <2>2. CASE k < n
    BY <2>1, <2>2, <1>1, <1>4, <1>7
  <2>3. CASE ~ (k < n)
    <3>1. (a \o b)[k] = b[k - (n - 1)]
      BY <2>1, <2>3, <1>1, <1>4, <1>7
    <3>2. k - (n - 1) \in 1..Len(s) - n /\ n + (k - (n - 1)) = k + 1
      BY <1>1, <2>3
    <3> QED BY <3>1, <3>2, <2>3, <1>5
  <2> QED BY <2>2, <2>3
<1> QED BY <1>6, <1>7, <1>8, <1>9

\* A picture is removed.
LEMMA RemovedPicture ==
  ASSUME NEW s \in Pictures, NEW n \in 1..Len(s)
  PROVE  /\ RemoveAt(s, n) \in Pictures
         /\ Range(RemoveAt(s, n)) = Range(s) \ {s[n]} /\ s[n] \in Range(s) /\ s[n] \in Images
<1>1. PICK t : t = RemoveAt(s, n)
  OBVIOUS
<1>2. /\ t \in Seq(Images) /\ Len(t) = Len(s) - 1
      /\ \A k \in 1..Len(s) - 1 : t[k] = IF k < n THEN s[k] ELSE s[k + 1]
  BY <1>1, WithoutIs
<1>3. /\ s \in Seq(Images) /\ Len(s) \in Nat /\ DOMAIN s = 1..Len(s)
      /\ \A j, k \in 1..Len(s) : s[j] = s[k] => j = k
  BY DEF Pictures
<1>4. DOMAIN t = 1..Len(s) - 1
  BY <1>2
<1>5. ASSUME NEW j \in 1..Len(s) - 1, NEW k \in 1..Len(s) - 1, t[j] = t[k]
      PROVE  j = k
  <2>1. j \in 1..Len(s) /\ j + 1 \in 1..Len(s) /\ k \in 1..Len(s) /\ k + 1 \in 1..Len(s)
    BY <1>3
  <2> QED BY <1>2, <1>3, <1>5, <2>1
<1>6. t \in Pictures
  BY <1>2, <1>4, <1>5 DEF Pictures
<1>7. Range(t) \subseteq Range(s) \ {s[n]}
  <2>1. ASSUME NEW k \in 1..Len(s) - 1
        PROVE  t[k] \in Range(s) /\ t[k] # s[n]
    <3>1. k \in 1..Len(s) /\ k + 1 \in 1..Len(s)
      BY <1>3
    <3>2. \A m \in 1..Len(s) : s[m] \in Range(s)
      BY <1>3 DEF Range
    <3>3. k < n => k # n
      BY <1>3
    <3>4. ~ (k < n) => k + 1 # n
      BY <1>3
    <3> QED BY <1>2, <1>3, <3>1, <3>2, <3>3, <3>4
  <2> QED BY <1>4, <2>1 DEF Range
<1>8. Range(s) \ {s[n]} \subseteq Range(t)
  <2>1. ASSUME NEW m \in 1..Len(s), m # n
        PROVE  s[m] \in Range(t)
    <3>1. \A k \in 1..Len(s) - 1 : t[k] \in Range(t)
      BY <1>4 DEF Range
    <3>2. CASE m < n
      <4>1. m \in 1..Len(s) - 1
        BY <1>3, <3>2
      <4> QED BY <1>2, <3>1, <3>2, <4>1
    <3>3. CASE m > n
      <4>1. m - 1 \in 1..Len(s) - 1 /\ ~ (m - 1 < n) /\ m - 1 + 1 = m
        BY <1>3, <3>3
      <4> QED BY <1>2, <3>1, <4>1
    <3> QED BY <2>1, <3>2, <3>3
  <2> QED BY <1>3, <2>1 DEF Range
<1>9. s[n] \in Range(s) /\ s[n] \in Images
  BY <1>3, ElementOfSeq DEF Range
<1> QED BY <1>1, <1>6, <1>7, <1>8, <1>9

\* A picture is moved to the front.
LEMMA MovedPicture ==
  ASSUME NEW s \in Pictures, NEW n \in 1..Len(s)
  PROVE  /\ <<s[n]>> \o RemoveAt(s, n) \in Pictures
         /\ Range(<<s[n]>> \o RemoveAt(s, n)) = Range(s)
<1>1. PICK t : t = RemoveAt(s, n)
  OBVIOUS
<1>2. /\ t \in Pictures /\ Range(t) = Range(s) \ {s[n]} /\ s[n] \in Range(s) /\ s[n] \in Images
  BY <1>1, RemovedPicture
<1>3. t \in Seq(Images) /\ Len(t) \in Nat /\ DOMAIN t = 1..Len(t)
  BY <1>2 DEF Pictures
<1>4. PICK x : x = s[n]
  OBVIOUS
<1>5. PICK u : u = <<x>> \o t
  OBVIOUS
<1>6. /\ u \in Seq(Images) /\ Len(u) = Len(t) + 1 /\ u[1] = x
      /\ \A k \in 1..Len(t) : u[k + 1] = t[k]
  <2>1. <<x>> \in Seq(Images) /\ Len(<<x>>) = 1 /\ <<x>>[1] = x
    BY <1>2, <1>4
  <2>2. /\ u \in Seq(Images) /\ Len(u) = 1 + Len(t)
        /\ \A k \in 1..1 + Len(t) : u[k] = IF k <= 1 THEN <<x>>[k] ELSE t[k - 1]
    BY <1>3, <1>5, <2>1, ConcatProperties
  <2>3. \A k \in 1..Len(t) : k + 1 \in 1..1 + Len(t) /\ ~ (k + 1 <= 1) /\ k + 1 - 1 = k
    BY <1>3
  <2>4. 1 \in 1..1 + Len(t)
    BY <1>3
  <2> QED BY <1>3, <2>1, <2>2, <2>3, <2>4
<1>7. DOMAIN u = 1..Len(t) + 1
  BY <1>6
<1>8. \A m \in 1..Len(t) + 1 : m = 1 \/ \E k \in 1..Len(t) : m = k + 1
  <2>1. \A m \in 1..Len(t) + 1 : m = 1 \/ (m - 1 \in 1..Len(t) /\ m = m - 1 + 1)
    BY <1>3
  <2> QED BY <2>1
<1>9. \A k \in 1..Len(t) : t[k] \in Range(t)
  BY <1>3 DEF Range
<1>10. \A k \in 1..Len(t) : t[k] # x
  BY <1>2, <1>4, <1>9
<1>11. ASSUME NEW j \in 1..Len(t) + 1, NEW m \in 1..Len(t) + 1, u[j] = u[m]
       PROVE  j = m
  <2>1. \A i, k \in 1..Len(t) : t[i] = t[k] => i = k
    BY <1>2, <1>3 DEF Pictures
  <2> QED BY <1>6, <1>8, <1>10, <1>11, <2>1
<1>12. u \in Pictures
  BY <1>6, <1>7, <1>11 DEF Pictures
<1>13. Range(u) = Range(t) \cup {x}
  <2>1. ASSUME NEW y \in Range(u)
        PROVE  y \in Range(t) \cup {x}
    <3>1. PICK m \in 1..Len(t) + 1 : u[m] = y
      BY <1>7, <2>1 DEF Range
    <3>2. CASE m = 1
      BY <1>6, <3>1, <3>2
    <3>3. CASE \E k \in 1..Len(t) : m = k + 1
      BY <1>6, <1>9, <3>1, <3>3
    <3> QED BY <1>8, <3>1, <3>2, <3>3
  <2>2. Range(t) \cup {x} \subseteq Range(u)
    <3>1. \A k \in 1..Len(t) : k + 1 \in 1..Len(t) + 1
      BY <1>3
    <3>2. 1 \in 1..Len(t) + 1
      BY <1>3
    <3>3. \A m \in 1..Len(t) + 1 : u[m] \in Range(u)
      BY <1>7 DEF Range
    <3>4. \A k \in 1..Len(t) : t[k] \in Range(u)
      BY <1>6, <3>1, <3>3
    <3>5. x \in Range(u)
      BY <1>6, <3>2, <3>3
    <3> QED BY <1>3, <3>4, <3>5 DEF Range
  <2> QED BY <2>1, <2>2
<1> QED BY <1>1, <1>2, <1>4, <1>5, <1>12, <1>13

-----------------------------------------------------------------------------
(* Clicks on an order and on a form.                                       *)

LEMMA ButtonsStep ==
  ASSUME PagesInv, NEW op \in Operators, ClickLogin(op) \/ Advance(op) \/ PrintLabel(op)
  PROVE  PagesInv'
<1>1. PICK c : c = tabs[op]
  OBVIOUS
<1>2. /\ GoodTab(c, Known, Stocked) /\ c.view \in Views(Known)
  BY <1>1, PageOf
<1>3. CASE ClickLogin(op)
  <2>1. PICK f : f = Asked("login", None)
    OBVIOUS
  <2>2. f.kind = "login"
    BY <2>1, AskedIs
  <2>3. OfThePage(c, f) /\ None \in Args("login", Known, Stocked)
    BY <2>2 DEF OfThePage, Args
  <2> QED BY <1>1, <1>3, <2>1, <2>3, StartStep DEF ClickLogin, On, Resting, View
<1>4. CASE Advance(op)
  <2>1. PICK shown : shown = c.view.shown
    OBVIOUS
  <2>2. /\ c.ready /\ c.route = "order" /\ ~ c.view.loading /\ shown # None
        /\ "advance" \notin c.view.busy /\ Rank(shown.fulfilment) < Len(Steps)
    BY <1>1, <1>4, <2>1 DEF Advance, OrderShown, On, View, Resting
  <2>3. shown \in Order
    BY <1>2, <2>1, <2>2 DEF Views
  <2>4. PICK to : to = Steps[Rank(shown.fulfilment) + 1]
    OBVIOUS
  <2>5. to \in Range(Steps)
    <3>1. shown.fulfilment \in Fulfilment
      BY <2>3 DEF Order
    <3>2. Rank(shown.fulfilment) \in 0..3 /\ Rank(shown.fulfilment) < 3
      BY <2>2, <3>1, RankIs
    <3>3. Rank(shown.fulfilment) + 1 \in 1..3
      BY <3>2
    <3> QED BY <2>4, <3>3, RankIs
  <2>6. PICK arg : arg = [order |-> c.subject, to |-> to]
    OBVIOUS
  <2>7. arg \in Args("advance", Known, Stocked)
    BY <1>2, <2>2, <2>5, <2>6 DEF Args, GoodTab
  <2>8. PICK f : f = Asked("advance", arg)
    OBVIOUS
  <2>9. f.kind = "advance" /\ f.arg = arg
    BY <2>8, AskedIs
  <2>10. OfThePage(c, f)
    BY <2>2, <2>6, <2>9 DEF OfThePage
  <2>11. Start(op, "advance", arg)
    BY <1>1, <1>4, <2>1, <2>4, <2>6 DEF Advance, View
  <2> QED BY <1>1, <2>2, <2>7, <2>8, <2>10, <2>11, StartStep
<1>5. CASE PrintLabel(op)
  <2>1. c.ready /\ c.route = "order" /\ "label" \notin c.view.busy
    BY <1>1, <1>5 DEF PrintLabel, OrderShown, On, View, Resting
  <2>2. PICK f : f = Asked("label", c.subject)
    OBVIOUS
  <2>3. f.kind = "label"
    BY <2>2, AskedIs
  <2>4. OfThePage(c, f) /\ c.subject \in Args("label", Known, Stocked)
    BY <1>2, <2>1, <2>3 DEF OfThePage, Args, GoodTab
  <2> QED BY <1>1, <1>5, <2>1, <2>2, <2>4, StartStep DEF PrintLabel
<1> QED BY <1>3, <1>4, <1>5

\* "Try again" may overtake a step that is under way: that is the overlap.
LEMMA TryAgainStep ==
  ASSUME PagesInv, NEW op \in Operators, TryAgain(op)
  PROVE  PagesInv'
<1>1. PICK c : c = tabs[op]
  OBVIOUS
<1>2. /\ GoodTab(c, Known, Stocked) /\ OneAtATime(c, seen) /\ FormInv(c, put[op], shelf[c.subject])
  BY <1>1, PageOf
<1>3. c.ready /\ c.route = "order" /\ ~ c.view.loading
  BY <1>1 DEF TryAgain, On, View
<1>4. PICK d : d = LoadOrder(c)
  OBVIOUS
<1>5. tabs' = [tabs EXCEPT ![op] = d] /\ UNCHANGED <<book, shelf, now, desk, put>>
  BY <1>1, <1>4 DEF TryAgain, server
<1>6. GoodTab(d, Known, Stocked)
  BY <1>2, <1>3, <1>4, GoodLoadOrder
<1>7. seen \subseteq seen'
  BY DEF TryAgain
<1>8. "overlap" \notin seen' => LiveCalls(c, {"order", "advance"}) = {}
  <2>1. "overlap" \notin seen' => "overlap" \notin seen /\ "advance" \notin c.view.busy
    BY <1>1 DEF TryAgain, Resting, View
  <2>2. "overlap" \notin seen' => LiveCalls(c, {"order"}) = {} /\ LiveCalls(c, {"advance"}) = {}
    BY <1>2, <1>3, <2>1 DEF OneAtATime
  <2> QED BY <2>2 DEF LiveCalls
<1>9. OneAtATime(d, seen')
  BY <1>2, <1>3, <1>4, <1>7, <1>8, OneMore, OneLoadOrder
<1>10. FormInv(d, put[op], shelf[d.subject])
  <2>1. SamePage(c, d) /\ d.view.draft = c.view.draft /\ Asks(c, d, "order")
    BY <1>2, <1>4, LoadOrderAsks
  <2> QED BY <1>2, <2>1, FormAsks DEF SamePage
<1> QED BY <1>5, <1>6, <1>7, <1>9, <1>10, ClickStep

\* What an edit leaves behind.
EditOf(old, m, draft, mine) ==
  /\ draft \in Form /\ mine \in Put /\ mine.late = m.late /\ mine.moved = m.moved
  /\ Range(draft.images) \subseteq Range(old.images)
  /\ Range(old.images) \subseteq Range(draft.images) \cup mine.removed
  /\ m.removed \subseteq mine.removed /\ mine.removed \subseteq m.removed \cup Range(old.images)
  /\ mine.stock = None => m.stock = None /\ draft.stock = old.stock
  /\ Keeps(old, m) => Keeps(draft, mine)

LEMMA EditStep ==
  ASSUME PagesInv, NEW op \in Operators, FormShown(op), NEW draft, NEW mine,
         EditOf(View(op).draft, put[op], draft, mine), Edit(op, draft, mine)
  PROVE  PagesInv'
<1>1. PICK c : c = tabs[op]
  OBVIOUS
<1>2. /\ GoodTab(c, Known, Stocked) /\ Shape(c) /\ c.view \in Views(Known)
      /\ OneAtATime(c, seen) /\ FormInv(c, put[op], shelf[c.subject]) /\ put[op] \in Put
  BY <1>1, PageOf
<1>3. PICK old : old = c.view.draft
  OBVIOUS
<1>4. PICK m : m = put[op]
  OBVIOUS
<1>5. old # None /\ old \in Form /\ c.ready /\ EditOf(old, m, draft, mine)
  BY <1>1, <1>2, <1>3, <1>4 DEF FormShown, View, On, Views
<1>6. PICK w : w = [c.view EXCEPT !.draft = draft]
  OBVIOUS
<1>7. w \in Views(Known) /\ w.draft = draft /\ w.busy = c.view.busy /\ w.loading = c.view.loading
  BY <1>2, <1>5, <1>6 DEF Views, EditOf
<1>8. PICK d : d = [c EXCEPT !.view = w]
  OBVIOUS
<1>9. GoodTab(d, Known, Stocked) /\ SamePage(c, d) /\ d.view = w /\ d.calls = c.calls
  BY <1>2, <1>7, <1>8, ViewIs, GoodView
<1>10a. PICK saving : saving = Saving(op)
  OBVIOUS
<1>10. saving \in BOOLEAN /\ saving = Saving(op)
  BY <1>10a DEF Saving
<1>11. PICK m2 : m2 = [mine EXCEPT !.late = mine.late \/ saving]
  OBVIOUS
<1>12. /\ m2 \in Put /\ m2.stock = mine.stock /\ m2.active = mine.active /\ m2.added = mine.added
       /\ m2.removed = mine.removed /\ m2.moved = mine.moved /\ (m2.late <=> mine.late \/ saving)
  BY <1>5, <1>10, <1>11 DEF EditOf, Put
<1>13. /\ tabs' = [tabs EXCEPT ![op] = d] /\ put' = [put EXCEPT ![op] = m2]
       /\ UNCHANGED <<book, shelf, now, desk, seen>>
  <2>1. [c EXCEPT !.view.draft = draft] = d
    BY <1>2, <1>6, <1>8 DEF Shape
  <2>2. tabs' = [tabs EXCEPT ![op].view.draft = draft]
    BY DEF Edit
  <2>3. [tabs EXCEPT ![op].view.draft = draft] = [tabs EXCEPT ![op] = [tabs[op] EXCEPT !.view.draft = draft]]
    BY DEF PagesInv, TypeInv
  <2>4. put' = [put EXCEPT ![op] = m2]
    BY <1>10, <1>11 DEF Edit
  <2> QED BY <1>1, <2>1, <2>2, <2>3, <2>4 DEF Edit, server
<1>14. \A j \in Slots : Live(d, j) <=> Live(c, j)
  BY <1>9 DEF Live
<1>15. OneAtATime(d, seen)
  <2>1. draft # None
    BY <1>5, NoneIsNothing DEF EditOf
  <2> QED BY <1>2, <1>3, <1>5, <1>7, <1>9, <1>14, <2>1, OneFewer DEF SamePage
<1>16. \A kinds : LiveCalls(d, kinds) = LiveCalls(c, kinds)
  BY <1>9, <1>14 DEF LiveCalls
<1>17. FormInv(d, m2, shelf[d.subject])
  <2>1. PICK product : product = shelf[c.subject]
    OBVIOUS
  <2>2. FormInv(c, m, product) /\ d.subject = c.subject /\ d.route = c.route /\ d.view.draft = draft
    BY <1>2, <1>4, <1>7, <1>9, <2>1 DEF SamePage
  <2>3. c.route = "product" =>
          /\ ~ m2.late => Keeps(draft, m2)
          /\ m2.stock = None /\ ~ m2.moved => draft.stock = product.stock
    <3>1. c.route = "product" /\ ~ m2.late => Keeps(draft, mine)
      BY <1>3, <1>5, <1>12, <2>2 DEF FormInv, EditOf
    <3>2. Keeps(draft, mine) => Keeps(draft, m2)
      BY <1>12 DEF Keeps
    <3>3. c.route = "product" /\ m2.stock = None /\ ~ m2.moved => draft.stock = product.stock
      BY <1>3, <1>5, <1>12, <2>2 DEF FormInv, EditOf
    <3> QED BY <3>1, <3>2, <3>3
  <2>4. LiveCalls(c, {"product"}) = {}
    BY <1>2, <1>3, <1>5 DEF OneAtATime
  <2>5. ASSUME NEW j \in LiveCalls(c, {"save", "create"})
        PROVE  LET sent == c.calls[j].arg.product
               IN /\ Range(sent.images) \subseteq Range(draft.images) \cup m2.removed
                  /\ m2.stock = None => sent.stock = draft.stock
                  /\ ~ m2.late => sent = draft
                  /\ c.calls[j].kind = "save" /\ c.calls[j].status = "ok" => c.calls[j].body = sent
    <3>1. saving
      BY <1>1, <1>2, <1>10, <2>5 DEF OneAtATime, Saving
    <3>2. PICK sent : sent = c.calls[j].arg.product
      OBVIOUS
    <3>3. /\ Range(sent.images) \subseteq Range(old.images) \cup m.removed
          /\ m.stock = None => sent.stock = old.stock
          /\ c.calls[j].kind = "save" /\ c.calls[j].status = "ok" => c.calls[j].body = sent
      BY <1>3, <2>2, <2>5, <3>2 DEF FormInv
    <3> QED BY <1>5, <1>12, <3>1, <3>2, <3>3 DEF EditOf
  <2>6. ASSUME NEW j \in LiveCalls(c, {"upload"}), c.calls[j].status = "ok"
        PROVE  c.calls[j].body \notin Range(draft.images) \cup m2.removed
    <3>1. c.calls[j].body \notin Range(old.images) \cup m.removed
      BY <1>3, <2>2, <2>6 DEF FormInv
    <3> QED BY <1>5, <1>12, <3>1 DEF EditOf
  <2>7. FormInv(d, m2, product)
    BY <1>9, <1>16, <2>2, <2>3, <2>4, <2>5, <2>6 DEF FormInv
  <2> QED BY <2>1, <2>2, <2>7
<1> QED BY <1>9, <1>12, <1>13, <1>15, <1>17, PageStep

LEMMA EditFormStep ==
  ASSUME PagesInv, NEW op \in Operators, EditForm(op)
  PROVE  PagesInv'
<1>1. PICK old : old = View(op).draft
  OBVIOUS
<1>2. PICK m : m = put[op]
  OBVIOUS
<1>3. /\ old \in Form /\ m \in Put /\ FormShown(op)
  BY <1>1, <1>2, PageOf DEF EditForm, FormShown, View, Views
<1>4. /\ old.stock \in 0..MaxStock /\ old.active \in BOOLEAN /\ old.images \in Pictures
      /\ None \notin 0..MaxStock
  BY <1>3, AdminAssumption DEF Form
<1>5. CASE \E n \in 0..MaxStock : Edit(op, [old EXCEPT !.stock = n], [m EXCEPT !.stock = n])
  <2>1. PICK n \in 0..MaxStock : Edit(op, [old EXCEPT !.stock = n], [m EXCEPT !.stock = n])
    BY <1>5
  <2>2. PICK draft, mine : draft = [old EXCEPT !.stock = n] /\ mine = [m EXCEPT !.stock = n]
    OBVIOUS
  <2>3. /\ draft \in Form /\ draft.stock = n /\ draft.active = old.active
        /\ draft.images = old.images
    BY <1>3, <2>2 DEF Form
  <2>4. /\ mine \in Put /\ mine.stock = n /\ mine.active = m.active /\ mine.added = m.added
        /\ mine.removed = m.removed /\ mine.late = m.late /\ mine.moved = m.moved
    BY <1>3, <2>2 DEF Put
  <2>5. EditOf(old, m, draft, mine)
    BY <1>4, <2>3, <2>4 DEF EditOf, Keeps
  <2> QED BY <1>1, <1>2, <1>3, <2>1, <2>2, <2>5, EditStep
<1>6. CASE Edit(op, [old EXCEPT !.active = ~ @], [m EXCEPT !.active = ~ old.active])
  <2>1. PICK b \in BOOLEAN : b = ~ old.active
    OBVIOUS
  <2>2. PICK draft, mine : draft = [old EXCEPT !.active = b] /\ mine = [m EXCEPT !.active = b]
    OBVIOUS
  <2>3. [old EXCEPT !.active = ~ @] = draft /\ [m EXCEPT !.active = ~ old.active] = mine
    BY <2>1, <2>2
  <2>4. /\ draft \in Form /\ draft.stock = old.stock /\ draft.active = b
        /\ draft.images = old.images
    BY <1>3, <2>2 DEF Form
  <2>5. /\ mine \in Put /\ mine.stock = m.stock /\ mine.active = b /\ mine.added = m.added
        /\ mine.removed = m.removed /\ mine.late = m.late /\ mine.moved = m.moved
    BY <1>3, <2>2 DEF Put
  <2>6. EditOf(old, m, draft, mine)
    BY <2>4, <2>5 DEF EditOf, Keeps
  <2> QED BY <1>1, <1>2, <1>3, <1>6, <2>2, <2>3, <2>6, EditStep
<1>7. CASE \E n \in 2..Len(old.images) :
             Edit(op, [old EXCEPT !.images = <<@[n]>> \o RemoveAt(@, n)], m)
  <2>1. PICK n \in 2..Len(old.images) :
          Edit(op, [old EXCEPT !.images = <<old.images[n]>> \o RemoveAt(old.images, n)], m)
    BY <1>7
  <2>2. PICK t : t = <<old.images[n]>> \o RemoveAt(old.images, n)
    OBVIOUS
  <2>3. t \in Pictures /\ Range(t) = Range(old.images)
    <3>1. n \in 1..Len(old.images)
      BY <1>4 DEF Pictures
    <3> QED BY <1>4, <2>2, <3>1, MovedPicture
  <2>4. PICK draft : draft = [old EXCEPT !.images = t]
    OBVIOUS
  <2>5. /\ draft \in Form /\ draft.stock = old.stock /\ draft.active = old.active
        /\ draft.images = t
    BY <1>3, <2>3, <2>4 DEF Form
  <2>6. EditOf(old, m, draft, m)
    BY <1>3, <2>3, <2>5 DEF EditOf, Keeps
  <2> QED BY <1>1, <1>2, <1>3, <2>1, <2>2, <2>4, <2>6, EditStep
<1>8. CASE \E n \in 1..Len(old.images) :
             Edit(op, [old EXCEPT !.images = RemoveAt(@, n)],
                  [m EXCEPT !.removed = @ \cup {old.images[n]}, !.added = @ \ {old.images[n]}])
  <2>1. PICK n \in 1..Len(old.images) :
          Edit(op, [old EXCEPT !.images = RemoveAt(old.images, n)],
               [m EXCEPT !.removed = m.removed \cup {old.images[n]},
                         !.added = m.added \ {old.images[n]}])
    BY <1>8
  <2>2. PICK t : t = RemoveAt(old.images, n)
    OBVIOUS
  <2>3. PICK x : x = old.images[n]
    OBVIOUS
  <2>4. /\ t \in Pictures /\ Range(t) = Range(old.images) \ {x} /\ x \in Range(old.images)
        /\ x \in Images
    BY <1>4, <2>2, <2>3, RemovedPicture
  <2>5. PICK draft, mine : /\ draft = [old EXCEPT !.images = t]
                           /\ mine = [m EXCEPT !.removed = m.removed \cup {x}, !.added = m.added \ {x}]
    OBVIOUS
  <2>6. /\ draft \in Form /\ draft.stock = old.stock /\ draft.active = old.active
        /\ draft.images = t
    BY <1>3, <2>4, <2>5 DEF Form
  <2>7. /\ mine \in Put /\ mine.stock = m.stock /\ mine.active = m.active
        /\ mine.added = m.added \ {x} /\ mine.removed = m.removed \cup {x}
        /\ mine.late = m.late /\ mine.moved = m.moved
    BY <1>3, <2>4, <2>5 DEF Put
  <2>8. EditOf(old, m, draft, mine)
    BY <2>4, <2>6, <2>7 DEF EditOf, Keeps
  <2> QED BY <1>1, <1>2, <1>3, <2>1, <2>2, <2>3, <2>5, <2>8, EditStep
<1> QED BY <1>1, <1>2, <1>5, <1>6, <1>7, <1>8 DEF EditForm

LEMMA PickImageStep ==
  ASSUME PagesInv, NEW op \in Operators, PickImage(op)
  PROVE  PagesInv'
<1>1. /\ tabs[op].ready /\ tabs[op].route \in {"product", "new"} /\ tabs[op].view.draft # None
      /\ "upload" \notin tabs[op].view.busy
  BY DEF PickImage, FormShown, On, View, Resting
<1>2. PICK f : f = Asked("upload", None)
  OBVIOUS
<1>3. f.kind = "upload"
  BY <1>2, AskedIs
<1>4. OfThePage(tabs[op], f) /\ None \in Args("upload", Known, Stocked)
  BY <1>1, <1>3 DEF OfThePage, Args
<1>5. Start(op, "upload", None)
  BY DEF PickImage
<1> QED BY <1>1, <1>2, <1>4, <1>5, StartStep

\* A save is the page's form, sent for its product or for a new one.
Saves(op, b, kind, id) ==
  /\ kind \in {"save", "create"}
  /\ kind = "save" => tabs[op].route = "product" /\ id = tabs[op].subject
  /\ kind = "create" => tabs[op].route = "new" /\ id \in ProductIds
  /\ Click(op, Ask(b, kind, [id |-> id, product |-> tabs[op].view.draft]))

LEMMA SaveIs ==
  ASSUME NEW op, SaveForm(op), NEW b, b = [tabs[op] EXCEPT !.view.busy = @ \cup {"save"}]
  PROVE  \E kind, id : Saves(op, b, kind, id)
<1>1. PICK c, body : c = tabs[op] /\ body = c.view.draft
  OBVIOUS
<1>2. CASE /\ c.route = "product"
           /\ Click(op, Ask(b, "save", [id |-> c.subject, product |-> body]))
  <2>1. PICK kind, id : kind = "save" /\ id = c.subject
    OBVIOUS
  <2>2. Saves(op, b, kind, id)
    BY <1>1, <1>2, <2>1 DEF Saves
  <2> QED BY <2>2
<1>3. CASE /\ c.route = "new"
           /\ \E p \in ProductIds : Click(op, Ask(b, "create", [id |-> p, product |-> body]))
  <2>1. PICK p \in ProductIds : Click(op, Ask(b, "create", [id |-> p, product |-> body]))
    BY <1>3
  <2>2. PICK kind, id : kind = "create" /\ id = p
    OBVIOUS
  <2>3. Saves(op, b, kind, id)
    BY <1>1, <1>3, <2>1, <2>2 DEF Saves
  <2> QED BY <2>3
<1> QED BY <1>1, <1>2, <1>3 DEF SaveForm, On, View

LEMMA SaveFormStep ==
  ASSUME PagesInv, NEW op \in Operators, SaveForm(op)
  PROVE  PagesInv'
<1>1. PICK c : c = tabs[op]
  OBVIOUS
<1>2. /\ GoodTab(c, Known, Stocked) /\ Shape(c) /\ c.view \in Views(Known)
      /\ OneAtATime(c, seen) /\ FormInv(c, put[op], shelf[c.subject])
  BY <1>1, PageOf
<1>3. PICK w : w = [c.view EXCEPT !.busy = c.view.busy \cup {"save"}]
  OBVIOUS
<1>4. /\ w \in Views(Known) /\ w.busy = c.view.busy \cup {"save"} /\ w.draft = c.view.draft
      /\ w.loading = c.view.loading
  BY <1>2, <1>3 DEF Views, CallKind
<1>5. PICK b : b = [c EXCEPT !.view = w]
  OBVIOUS
<1>6. /\ Shape(b) /\ SamePage(c, b) /\ b.view = w /\ b.calls = c.calls /\ GoodTab(b, Known, Stocked)
  BY <1>2, <1>4, <1>5, ViewIs, GoodView
<1>7. PICK body : body = c.view.draft
  OBVIOUS
<1>8. /\ body \in Form /\ body # None /\ c.ready /\ "save" \notin c.view.busy
  BY <1>1, <1>2, <1>7 DEF SaveForm, FormShown, View, On, Resting, Views
<1>9. PICK kind, id : Saves(op, b, kind, id)
  <2>1. b = [c EXCEPT !.view.busy = @ \cup {"save"}]
    BY <1>2, <1>3, <1>5 DEF Shape
  <2>2. b = [tabs[op] EXCEPT !.view.busy = @ \cup {"save"}]
    BY <1>1, <2>1
  <2> QED BY <2>2, SaveIs
<1>24. /\ kind \in {"save", "create"}
       /\ kind = "save" => c.route = "product" /\ id = c.subject
       /\ kind = "create" => c.route = "new" /\ id \in ProductIds
       /\ Click(op, Ask(b, kind, [id |-> id, product |-> body]))
  BY <1>1, <1>7, <1>9 DEF Saves
<1>10. PICK arg : arg = [id |-> id, product |-> body]
  OBVIOUS
<1>11. PICK d : d = Ask(b, kind, arg)
  OBVIOUS
<1>12. tabs' = [tabs EXCEPT ![op] = d] /\ UNCHANGED <<book, shelf, now, desk, put, seen>>
  BY <1>24, <1>10, <1>11 DEF Click, server, history
<1>13. PICK f : f = Asked(kind, arg)
  OBVIOUS
<1>14. f.kind = kind /\ f.arg = arg /\ f.live /\ f.status = None
  BY <1>13, AskedIs
<1>15. OfThePage(b, f) /\ arg \in Args(kind, Known, Stocked) /\ kind \in CallKind
  <2>1. kind = "save" => c.subject \in Stocked
    BY <1>2, <1>24 DEF GoodTab
  <2>2. kind = "save" => arg \in [id : Stocked, product : Form]
    BY <1>8, <1>24, <1>10, <2>1
  <2>3. kind = "create" => arg \in [id : ProductIds, product : Form]
    BY <1>8, <1>24, <1>10
  <2>4. arg \in Args(kind, Known, Stocked)
    BY <1>24, <2>2, <2>3 DEF Args
  <2>5. OfThePage(b, f)
    BY <1>6, <1>24, <1>10, <1>14 DEF OfThePage, SamePage
  <2>6. kind \in CallKind
    BY <1>24 DEF CallKind
  <2> QED BY <2>4, <2>5, <2>6
<1>16. GoodTab(d, Known, Stocked)
  BY <1>6, <1>11, <1>13, <1>15, GoodAsk
<1>17. \A j \in Slots : Live(b, j) <=> Live(c, j)
  BY <1>6 DEF Live
<1>18. \A kinds : LiveCalls(b, kinds) = LiveCalls(c, kinds)
  BY <1>6, <1>17 DEF LiveCalls
<1>19. LiveCalls(c, {"save", "create"}) = {} /\ LiveCalls(c, {"me", "product"}) = {}
  <2>1. LiveCalls(c, {"save", "create"}) = {}
    BY <1>2, <1>8 DEF OneAtATime
  <2>2. LiveCalls(c, {"me", "product"}) = {}
    BY <1>2, <1>7, <1>8, NoGuard
  <2> QED BY <2>1, <2>2
<1>20. OneAtATime(d, seen)
  <2>1. OneAtATime(b, seen)
    BY <1>2, <1>4, <1>6, <1>17, OneFewer DEF SamePage
  <2>2. MayAsk(b, kind, seen)
    BY <1>4, <1>6, <1>7, <1>8, <1>24, <1>18, <1>19 DEF MayAsk, SamePage
  <2> QED BY <1>6, <1>8, <1>11, <2>1, <2>2, OneAsk DEF SamePage
<1>21. FormInv(d, put[op], shelf[d.subject])
  <2>1. /\ SamePage(b, d) /\ d.view = w
        /\ \A j \in Slots : d.calls[j] = IF j = Free(b) THEN f ELSE b.calls[j]
    BY <1>6, <1>11, <1>13, AskIs
  <2>2. d.route = c.route /\ d.subject = c.subject /\ d.view.draft = body
    BY <1>4, <1>6, <1>7, <2>1 DEF SamePage
  <2>3. \A j \in Slots : Live(d, j) => d.calls[j] = f \/ (Live(c, j) /\ d.calls[j] = c.calls[j])
    BY <1>6, <2>1 DEF Live
  <2>4. LiveCalls(c, {"product"}) = {}
    BY <1>19 DEF LiveCalls
  <2>5. LiveCalls(d, {"product"}) = {}
    BY <1>24, <1>14, <2>3, <2>4 DEF LiveCalls
  <2>6. \A j \in LiveCalls(d, {"save", "create"}) : d.calls[j] = f
    BY <1>19, <2>3 DEF LiveCalls
  <2>7. \A j \in LiveCalls(d, {"upload"}) : j \in LiveCalls(c, {"upload"}) /\ d.calls[j] = c.calls[j]
    BY <1>24, <1>14, <2>3 DEF LiveCalls
  <2>8. f.arg.product = body /\ f.status # "ok"
    BY <1>10, <1>14, NoneIsNothing
  <2> QED BY <1>2, <1>7, <2>2, <2>5, <2>6, <2>7, <2>8 DEF FormInv
<1> QED BY <1>12, <1>16, <1>20, <1>21, ClickStep

LEMMA RetireStep ==
  ASSUME PagesInv, NEW op \in Operators, RetireProduct(op)
  PROVE  PagesInv'
<1>1. PICK c : c = tabs[op]
  OBVIOUS
<1>2. /\ GoodTab(c, Known, Stocked) /\ Shape(c) /\ c.view \in Views(Known)
  BY <1>1, PageOf
<1>3. c.ready /\ c.route = "product" /\ c.view.draft # None
  BY <1>1 DEF RetireProduct, FormShown, On, View
<1>4. CASE Click(op, [c EXCEPT !.view.confirm = ~ @])
  <2>1. PICK b \in BOOLEAN : b = ~ c.view.confirm
    OBVIOUS
  <2>2. PICK w : w = [c.view EXCEPT !.confirm = b]
    OBVIOUS
  <2>3. /\ w \in Views(Known) /\ w.draft = c.view.draft /\ w.busy = c.view.busy
        /\ w.loading = c.view.loading
    BY <1>2, <2>2 DEF Views
  <2>4. PICK d : d = [c EXCEPT !.view = w]
    OBVIOUS
  <2>5. [c EXCEPT !.view.confirm = ~ @] = d
    <3>1. [c EXCEPT !.view.confirm = ~ @] = [c EXCEPT !.view.confirm = b]
      BY <2>1
    <3> QED BY <1>2, <2>2, <2>4, <3>1 DEF Shape
  <2>6. tabs' = [tabs EXCEPT ![op] = d] /\ UNCHANGED <<book, shelf, now, desk, put, seen>>
    BY <1>4, <2>5 DEF Click, server, history
  <2>7. /\ GoodTab(d, Known, Stocked) /\ OneAtATime(d, seen)
        /\ FormInv(d, put[op], shelf[d.subject])
    BY <1>1, <2>3, <2>4, ViewStep
  <2> QED BY <2>6, <2>7, ClickStep
<1>5. CASE Resting(op, "retire") /\ Start(op, "retire", c.subject)
  <2>1. PICK f : f = Asked("retire", c.subject)
    OBVIOUS
  <2>2. f.kind = "retire"
    BY <2>1, AskedIs
  <2>3. OfThePage(c, f) /\ c.subject \in Args("retire", Known, Stocked)
    BY <1>2, <1>3, <2>2 DEF OfThePage, Args, GoodTab
  <2> QED BY <1>1, <1>3, <1>5, <2>1, <2>3, StartStep DEF Resting, View
<1> QED BY <1>1, <1>4, <1>5 DEF RetireProduct

LEMMA ClicksStep ==
  ASSUME PagesInv, NEW op \in Operators, Clicks(op)
  PROVE  PagesInv'
BY FollowStep, ChooseStep, ApplyFiltersStep, ButtonsStep, TryAgainStep, EditFormStep, PickImageStep,
   SaveFormStep, RetireStep DEF Clicks

-----------------------------------------------------------------------------
(* Answers.                                                                *)

LEMMA HeardPutIs ==
  ASSUME NEW K, NEW P, NEW c, GoodTab(c, K, P), NEW i, Answered(c, i), NEW mine \in Put
  PROVE  HeardPut(c, i, mine) \in Put
<1>1. mine.moved \in BOOLEAN /\ mine.late \in BOOLEAN
  BY DEF Put
<1>2. [NoPut EXCEPT !.moved = mine.moved] \in Put
  BY <1>1 DEF NoPut, Put
<1>3. CASE c.calls[i].live /\ c.calls[i].status = "ok" /\ c.calls[i].kind = "upload"
  <2>1. c.calls[i].body \in Images
    <3>1. Bodies("upload", K, P) = Images
      BY DEF Bodies
    <3>2. c.calls[i].body \in Bodies(c.calls[i].kind, K, P)
      BY <1>3, AnswerIs DEF Failed
    <3> QED BY <1>3, <3>1, <3>2
  <2>2. PICK late \in BOOLEAN : late = (mine.late \/ "save" \in c.view.busy)
    BY <1>1
  <2>3. HeardPut(c, i, mine) = [mine EXCEPT !.added = mine.added \cup {c.calls[i].body}, !.late = late]
    BY <1>3, <2>2 DEF HeardPut
  <2>4. mine.added \cup {c.calls[i].body} \in SUBSET Images
    BY <2>1 DEF Put
  <2> QED BY <2>3, <2>4 DEF Put
<1> QED BY <1>2, <1>3 DEF HeardPut

LEMMA HearStep ==
  ASSUME PagesInv, NEW op \in Operators, NEW i \in Slots, Hear(op, i)
  PROVE  PagesInv'
<1>1. PICK c : c = tabs[op]
  OBVIOUS
<1>2. /\ GoodTab(c, Known, Stocked) /\ OneAtATime(c, seen) /\ FormInv(c, put[op], shelf[c.subject])
      /\ put[op] \in Put /\ put \in [Operators -> Put]
  BY <1>1, PageOf DEF PagesInv, TypeInv
<1>3. Answered(c, i)
  BY <1>1 DEF Hear, Answered
<1>4. PICK d : d = Heard(c, i)
  OBVIOUS
<1>5. PICK m : m = HeardPut(c, i, put[op])
  OBVIOUS
<1>6. m \in Put
  BY <1>2, <1>3, <1>5, HeardPutIs
<1>7. tabs' = [tabs EXCEPT ![op] = d] /\ UNCHANGED <<book, shelf, now, desk, seen>>
  BY <1>1, <1>4 DEF Hear, server
<1>8. put' = [put EXCEPT ![op] = m]
  <2>1. CASE c.calls[i].live /\ c.calls[i].status = "ok" /\ c.calls[i].kind = "product"
    <3>1. m = [NoPut EXCEPT !.moved = put[op].moved]
      BY <1>5, <2>1 DEF HeardPut
    <3>2. put' = [put EXCEPT ![op] = [NoPut EXCEPT !.moved = put[op].moved]]
      BY <1>1, <2>1 DEF Hear
    <3> QED BY <3>1, <3>2
  <2>2. CASE c.calls[i].live /\ c.calls[i].status = "ok" /\ c.calls[i].kind = "upload"
    <3>1. PICK late : late = (put[op].late \/ "save" \in c.view.busy)
      OBVIOUS
    <3>2. PICK added : added = put[op].added \cup {c.calls[i].body}
      OBVIOUS
    <3>3. m = [put[op] EXCEPT !.added = added, !.late = late]
      BY <1>5, <2>2, <3>1, <3>2 DEF HeardPut
    <3>4. put' = [put EXCEPT ![op].added = added, ![op].late = late]
      BY <1>1, <2>2, <3>1, <3>2 DEF Hear, Saving
    <3>5. [put EXCEPT ![op].added = added, ![op].late = late]
            = [put EXCEPT ![op] = [put[op] EXCEPT !.added = added, !.late = late]]
      BY <1>2
    <3> QED BY <3>3, <3>4, <3>5
  <2>3. CASE ~ (c.calls[i].live /\ c.calls[i].status = "ok" /\ c.calls[i].kind \in {"product", "upload"})
    <3>1. m = put[op] /\ put' = put
      BY <1>1, <1>5, <2>3 DEF HeardPut, Hear
    <3> QED BY <1>2, <3>1
  <2> QED BY <2>1, <2>2, <2>3
<1>9. FreshUpload(c, i)
  BY <1>2, <1>3, UploadIsFresh
<1>10. GoodTab(d, Known, Stocked)
  BY <1>2, <1>3, <1>4, <1>9, GoodHeard
<1>11. OneAtATime(d, seen)
  BY <1>2, <1>3, <1>4, <1>9, OneHeard
<1>12. FormInv(d, m, shelf[d.subject])
  BY <1>2, <1>3, <1>4, <1>5, FormHeard
<1> QED BY <1>6, <1>7, <1>8, <1>10, <1>11, <1>12, PageStep

-----------------------------------------------------------------------------
(* The server.                                                             *)

\* The call f after the server has turned to it.
Turned(f, at, status, body) ==
  [kind |-> f.kind, arg |-> f.arg, live |-> f.live, at |-> at, status |-> status, body |-> body]

WithCall(c, i, g) == [c EXCEPT !.calls = [@ EXCEPT ![i] = g]]

LEMMA WithCallIs ==
  ASSUME NEW c, Shape(c), NEW i \in Slots, NEW g
  PROVE  LET d == WithCall(c, i, g)
         IN /\ Shape(d) /\ SamePage(c, d) /\ d.view = c.view
            /\ \A j \in Slots : d.calls[j] = IF j = i THEN g ELSE c.calls[j]
<1>1. PICK calls : calls = [c.calls EXCEPT ![i] = g]
  OBVIOUS
<1>2. /\ calls = [j \in Slots |-> calls[j]]
      /\ \A j \in Slots : calls[j] = IF j = i THEN g ELSE c.calls[j]
  <2>1. c.calls = [j \in Slots |-> c.calls[j]]
    BY DEF Shape
  <2> QED BY <1>1, <2>1
<1>3. WithCall(c, i, g) = WithCalls(c, c.view, calls)
  BY <1>1 DEF WithCall, WithCalls, Shape
<1> QED BY <1>2, <1>3, WithCallsIs

LEMMA WithCallTwice ==
  ASSUME NEW c, Shape(c), NEW i \in Slots, NEW g, NEW h
  PROVE  WithCall(WithCall(c, i, g), i, h) = WithCall(c, i, h)
<1>1. PICK calls : calls = c.calls
  OBVIOUS
<1>2. calls = [j \in Slots |-> calls[j]]
  BY <1>1 DEF Shape
<1>3. [[calls EXCEPT ![i] = g] EXCEPT ![i] = h] = [calls EXCEPT ![i] = h]
  BY <1>2
<1>4. PICK d : d = WithCall(c, i, g)
  OBVIOUS
<1>5. d = WithCalls(c, c.view, [calls EXCEPT ![i] = g])
  BY <1>1, <1>4 DEF WithCall, WithCalls, Shape
<1>6. WithCall(d, i, h) = WithCalls(c, c.view, [[calls EXCEPT ![i] = g] EXCEPT ![i] = h])
  BY <1>5 DEF WithCall, WithCalls
<1>7. WithCall(c, i, h) = WithCalls(c, c.view, [calls EXCEPT ![i] = h])
  BY <1>1 DEF WithCall, WithCalls, Shape
<1> QED BY <1>3, <1>4, <1>6, <1>7

\* The tabs with another tab, and with one field of a call of a tab set.
WithTab(t, op, d) == [t EXCEPT ![op] = d]
SetAt(t, op, i, v) == [t EXCEPT ![op].calls[i].at = v]
SetStatus(t, op, i, v) == [t EXCEPT ![op].calls[i].status = v]
SetBody(t, op, i, v) == [t EXCEPT ![op].calls[i].body = v]
AtOf(f, v) == [f EXCEPT !.at = v]
StatusOf(f, v) == [f EXCEPT !.status = v]
BodyOf(f, v) == [f EXCEPT !.body = v]
Tabs(t) == t = [x \in Operators |-> t[x]]

LEMMA SetAtIs ==
  ASSUME NEW t, Tabs(t), NEW op \in Operators, NEW i \in Slots, NEW v
  PROVE  SetAt(t, op, i, v) = WithTab(t, op, WithCall(t[op], i, AtOf(t[op].calls[i], v)))
BY DEF SetAt, WithTab, WithCall, AtOf, Tabs

LEMMA SetStatusIs ==
  ASSUME NEW t, Tabs(t), NEW op \in Operators, NEW i \in Slots, NEW v
  PROVE  SetStatus(t, op, i, v) = WithTab(t, op, WithCall(t[op], i, StatusOf(t[op].calls[i], v)))
BY DEF SetStatus, WithTab, WithCall, StatusOf, Tabs

LEMMA SetBodyIs ==
  ASSUME NEW t, Tabs(t), NEW op \in Operators, NEW i \in Slots, NEW v
  PROVE  SetBody(t, op, i, v) = WithTab(t, op, WithCall(t[op], i, BodyOf(t[op].calls[i], v)))
BY DEF SetBody, WithTab, WithCall, BodyOf, Tabs

LEMMA TurnsTwice ==
  ASSUME NEW t, Tabs(t), NEW op \in Operators, NEW i \in Slots, NEW c, Shape(c), NEW g, NEW h,
         NEW u, u = WithTab(t, op, WithCall(c, i, g))
  PROVE  /\ Tabs(u) /\ u[op].calls[i] = g
         /\ WithTab(u, op, WithCall(u[op], i, h)) = WithTab(t, op, WithCall(c, i, h))
<1>1. PICK d : d = WithCall(c, i, g)
  OBVIOUS
<1>2. d.calls[i] = g
  BY <1>1, WithCallIs
<1>3. u[op] = d /\ Tabs(u)
  BY <1>1 DEF WithTab, Tabs
<1>4. WithCall(d, i, h) = WithCall(c, i, h)
  BY <1>1, WithCallTwice
<1>5. PICK e : e = WithCall(c, i, h)
  OBVIOUS
<1>6. WithTab(u, op, e) = WithTab(t, op, e)
  BY <1>1 DEF WithTab, Tabs
<1> QED BY <1>2, <1>3, <1>4, <1>5, <1>6

LEMMA ReplyIs ==
  ASSUME TypeInv, NEW op \in Operators, NEW i \in Slots, tabs[op].calls[i] # None,
         NEW status, NEW body, Reply(op, i, status, body)
  PROVE  tabs' = [tabs EXCEPT ![op] =
                    WithCall(tabs[op], i, Turned(tabs[op].calls[i], "answered", status, body))]
<1>1. PICK t : t = tabs
  OBVIOUS
<1>2. PICK c : c = t[op]
  OBVIOUS
<1>3. PICK f : f = c.calls[i]
  OBVIOUS
<1>4. Tabs(t) /\ Shape(c) /\ GoodCall(f, Known, Stocked)
  BY <1>1, <1>2, <1>3 DEF TypeInv, GoodTab, Tabs
<1>5. PICK f1, f2, f3 : /\ f1 = AtOf(f, "answered") /\ f2 = StatusOf(f1, status)
                        /\ f3 = BodyOf(f2, body)
  OBVIOUS
<1>6. f3 = Turned(f, "answered", status, body)
  BY <1>1, <1>2, <1>3, <1>4, <1>5 DEF GoodCall, Turned, AtOf, StatusOf, BodyOf
<1>7. PICK t1 : t1 = SetAt(t, op, i, "answered")
  OBVIOUS
<1>8. PICK t2 : t2 = SetStatus(t1, op, i, status)
  OBVIOUS
<1>9. PICK t3 : t3 = SetBody(t2, op, i, body)
  OBVIOUS
<1>10. tabs' = t3
  BY <1>1, <1>7, <1>8, <1>9 DEF Reply, SetAt, SetStatus, SetBody
<1>11. t1 = WithTab(t, op, WithCall(c, i, f1))
  BY <1>2, <1>3, <1>4, <1>5, <1>7, SetAtIs
<1>12. /\ Tabs(t1) /\ t1[op].calls[i] = f1
       /\ WithTab(t1, op, WithCall(t1[op], i, f2)) = WithTab(t, op, WithCall(c, i, f2))
  BY <1>4, <1>11, TurnsTwice
<1>13. t2 = WithTab(t1, op, WithCall(t1[op], i, f2))
  BY <1>5, <1>8, <1>12, SetStatusIs
<1>14. t2 = WithTab(t, op, WithCall(c, i, f2))
  BY <1>12, <1>13
<1>15. /\ Tabs(t2) /\ t2[op].calls[i] = f2
       /\ WithTab(t2, op, WithCall(t2[op], i, f3)) = WithTab(t, op, WithCall(c, i, f3))
  BY <1>4, <1>14, TurnsTwice
<1>16. t3 = WithTab(t2, op, WithCall(t2[op], i, f3))
  BY <1>5, <1>9, <1>15, SetBodyIs
<1>17. tabs' = WithTab(t, op, WithCall(c, i, f3))
  BY <1>10, <1>15, <1>16
<1> QED BY <1>1, <1>2, <1>3, <1>6, <1>17 DEF WithTab

LEMMA TurnedTab ==
  ASSUME NEW K, NEW P, NEW c, GoodTab(c, K, P), NEW s, OneAtATime(c, s), NEW i \in Slots,
         c.calls[i] # None, NEW at, NEW status, NEW body,
         GoodCall(Turned(c.calls[i], at, status, body), K, P)
  PROVE  LET d == WithCall(c, i, Turned(c.calls[i], at, status, body))
         IN GoodTab(d, K, P) /\ OneAtATime(d, s) /\ SamePage(c, d) /\ d.view = c.view
<1>1. PICK f : f = c.calls[i]
  OBVIOUS
<1>2. PICK g : g = Turned(f, at, status, body)
  OBVIOUS
<1>3. g.kind = f.kind /\ g.arg = f.arg /\ g.live = f.live
  BY <1>2 DEF Turned
<1>4. Shape(c) /\ c.view \in Views(K) /\ c.token \in BOOLEAN /\ c.ready \in BOOLEAN
  BY DEF GoodTab
<1>5. PICK d : d = WithCall(c, i, g)
  OBVIOUS
<1>6. /\ Shape(d) /\ SamePage(c, d) /\ d.view = c.view
      /\ \A j \in Slots : d.calls[j] = IF j = i THEN g ELSE c.calls[j]
  BY <1>4, <1>5, WithCallIs
<1>7. GoodCall(g, K, P) /\ OfThePage(c, g)
  <2>1. OfThePage(c, f)
    BY <1>1 DEF GoodTab
  <2> QED BY <1>1, <1>2, <1>3, <2>1 DEF OfThePage
<1>8. GoodTab(d, K, P)
  BY <1>4, <1>6, <1>7, GoodFrom DEF SamePage
<1>9. \A j \in Slots : Live(d, j) => Live(c, j) /\ d.calls[j].kind = c.calls[j].kind
  BY <1>1, <1>3, <1>6 DEF Live
<1>10. OneAtATime(d, s)
  BY <1>6, <1>9, OneFewer DEF SamePage
<1> QED BY <1>1, <1>2, <1>5, <1>6, <1>8, <1>10

LEMMA FormTurned ==
  ASSUME NEW K, NEW P, NEW c, GoodTab(c, K, P), NEW i \in Slots, c.calls[i] # None,
         NEW at, NEW status, NEW body, NEW mine, NEW product, FormInv(c, mine, product),
         c.calls[i].live /\ status = "ok" =>
           /\ c.calls[i].kind = "product" /\ ~ mine.moved => body.stock = product.stock
           /\ c.calls[i].kind = "save" => body = c.calls[i].arg.product
           /\ c.calls[i].kind = "upload" => body \notin Range(c.view.draft.images) \cup mine.removed
  PROVE  FormInv(WithCall(c, i, Turned(c.calls[i], at, status, body)), mine, product)
<1>1. PICK f : f = c.calls[i]
  OBVIOUS
<1>2. PICK g : g = Turned(f, at, status, body)
  OBVIOUS
<1>3. g.kind = f.kind /\ g.arg = f.arg /\ g.live = f.live /\ g.status = status /\ g.body = body
  BY <1>2 DEF Turned
<1>4. Shape(c)
  BY DEF GoodTab
<1>5. PICK d : d = WithCall(c, i, g)
  OBVIOUS
<1>6. /\ d.route = c.route /\ d.view = c.view
      /\ \A j \in Slots : d.calls[j] = IF j = i THEN g ELSE c.calls[j]
  BY <1>4, <1>5, WithCallIs DEF SamePage
<1>7. /\ \A j \in Slots : Live(d, j) => Live(c, j)
      /\ \A j \in Slots : Live(d, j) => /\ d.calls[j].kind = c.calls[j].kind
                                        /\ d.calls[j].arg = c.calls[j].arg
  BY <1>1, <1>3, <1>6 DEF Live
<1>8. \A kinds : LiveCalls(d, kinds) \subseteq LiveCalls(c, kinds)
  BY <1>7 DEF LiveCalls
<1>9. \A j \in LiveCalls(d, {"product"}) :
        d.calls[j].status = "ok" /\ ~ mine.moved => d.calls[j].body.stock = product.stock
  BY <1>1, <1>3, <1>6, <1>8 DEF FormInv, LiveCalls, Live
<1>10. ASSUME NEW j \in LiveCalls(d, {"save", "create"})
       PROVE  LET sent == d.calls[j].arg.product
              IN /\ Range(sent.images) \subseteq Range(d.view.draft.images) \cup mine.removed
                 /\ mine.stock = None => sent.stock = d.view.draft.stock
                 /\ ~ mine.late => sent = d.view.draft
                 /\ d.calls[j].kind = "save" /\ d.calls[j].status = "ok" => d.calls[j].body = sent
  <2>1. j \in Slots /\ Live(d, j) /\ j \in LiveCalls(c, {"save", "create"})
    BY <1>8, <1>10 DEF LiveCalls
  <2>2. d.calls[j].arg = c.calls[j].arg /\ d.calls[j].kind = c.calls[j].kind
    BY <1>7, <2>1
  <2>3. d.calls[j].kind = "save" /\ d.calls[j].status = "ok" => d.calls[j].body = c.calls[j].arg.product
    BY <1>1, <1>3, <1>6, <2>1 DEF FormInv, Live
  <2> QED BY <1>6, <2>1, <2>2, <2>3 DEF FormInv
<1>11. \A j \in LiveCalls(d, {"upload"}) :
         d.calls[j].status = "ok" => d.calls[j].body \notin Range(d.view.draft.images) \cup mine.removed
  BY <1>1, <1>3, <1>6, <1>8 DEF FormInv, LiveCalls, Live
<1>12. FormInv(d, mine, product)
  BY <1>6, <1>9, <1>10, <1>11 DEF FormInv
<1> QED BY <1>1, <1>2, <1>5, <1>12

\* The server turns to a call and changes neither the book nor the shelf.
LEMMA ServedStep ==
  ASSUME PagesInv, NEW op \in Operators, NEW i \in Slots, tabs[op].calls[i] # None,
         NEW at, NEW status, NEW body,
         tabs' = [tabs EXCEPT ![op] = WithCall(tabs[op], i, Turned(tabs[op].calls[i], at, status, body))],
         UNCHANGED <<book, shelf, now, desk, put, seen>>,
         GoodCall(Turned(tabs[op].calls[i], at, status, body), Known, Stocked),
         tabs[op].calls[i].live /\ status = "ok" =>
           /\ tabs[op].calls[i].kind \notin {"product", "save"}
           /\ tabs[op].calls[i].kind = "upload" =>
                body \notin Range(tabs[op].view.draft.images) \cup put[op].removed
  PROVE  PagesInv'
<1>1. PICK c : c = tabs[op]
  OBVIOUS
<1>2. GoodTab(c, Known, Stocked) /\ OneAtATime(c, seen) /\ FormInv(c, put[op], shelf[c.subject])
  BY <1>1, PageOf
<1>3. PICK d : d = WithCall(c, i, Turned(c.calls[i], at, status, body))
  OBVIOUS
<1>4. GoodTab(d, Known, Stocked) /\ OneAtATime(d, seen) /\ SamePage(c, d)
  BY <1>1, <1>2, <1>3, TurnedTab
<1>5. FormInv(d, put[op], shelf[c.subject])
  BY <1>1, <1>2, <1>3, FormTurned
<1>6. FormInv(d, put[op], shelf[d.subject])
  BY <1>4, <1>5 DEF SamePage
<1> QED BY <1>1, <1>3, <1>4, <1>6, ClickStep

\* An answer of the kind is good when its body is.
LEMMA GoodAnswer ==
  ASSUME NEW K, NEW P, NEW f, GoodCall(f, K, P), NEW status \in Answers, NEW body,
         status = "ok" => body \in Bodies(f.kind, K, P)
  PROVE  GoodCall(Turned(f, "answered", status, body), K, P)
BY DEF GoodCall, Turned

LEMMA LoseStep ==
  ASSUME PagesInv, NEW op \in Operators, NEW i \in Slots, Lose(op, i)
  PROVE  PagesInv'
<1>1. tabs[op].calls[i] # None /\ Reply(op, i, "net", None)
      /\ UNCHANGED <<book, shelf, now, desk, put, seen>>
  BY DEF Lose, server, history
<1>2. GoodCall(tabs[op].calls[i], Known, Stocked)
  BY <1>1, PageOf DEF GoodTab
<1>3. "net" \in Answers /\ "net" # "ok"
  BY DEF Answers
<1>4. GoodCall(Turned(tabs[op].calls[i], "answered", "net", None), Known, Stocked)
  BY <1>2, <1>3, GoodAnswer
<1>5. TypeInv
  BY DEF PagesInv
<1> QED BY <1>1, <1>3, <1>4, <1>5, ReplyIs, ServedStep

\* A call the server may turn to, by itself.
LEMMA CallingIs ==
  ASSUME PagesInv, NEW op \in Operators, NEW i \in Slots, tabs[op].calls[i] # None
  PROVE  /\ GoodCall(tabs[op].calls[i], Known, Stocked)
         /\ tabs[op].calls[i].arg \in Args(tabs[op].calls[i].kind, Known, Stocked)
         /\ TypeInv
BY PageOf DEF GoodTab, GoodCall, PagesInv

\* An answer that changes nothing but the call.
LEMMA AnsweredStep ==
  ASSUME PagesInv, NEW op \in Operators, NEW i \in Slots, tabs[op].calls[i] # None,
         NEW status \in Answers, NEW body, Reply(op, i, status, body),
         UNCHANGED <<book, shelf, now, desk, put, seen>>,
         status = "ok" => /\ tabs[op].calls[i].kind \notin {"product", "save"}
                          /\ body \in Bodies(tabs[op].calls[i].kind, Known, Stocked),
         tabs[op].calls[i].kind = "upload" /\ status = "ok" /\ tabs[op].calls[i].live =>
           body \notin Range(tabs[op].view.draft.images) \cup put[op].removed
  PROVE  PagesInv'
<1>1. GoodCall(Turned(tabs[op].calls[i], "answered", status, body), Known, Stocked)
  BY CallingIs, GoodAnswer
<1> QED BY <1>1, CallingIs, ReplyIs, ServedStep

LEMMA ServeReadStep ==
  ASSUME PagesInv, NEW op \in Operators, NEW i \in Slots, ServeRead(op, i), desk' = desk
  PROVE  PagesInv'
<1>1. PICK f : f = tabs[op].calls[i]
  OBVIOUS
<1>2. /\ f # None /\ f.kind \in ReadOnly /\ Reply(op, i, "ok", Answer(f))
      /\ UNCHANGED <<book, shelf, now, put, seen>>
  BY <1>1 DEF ServeRead, Calling, server, history
<1>3. f.arg \in Args(f.kind, Known, Stocked) /\ book \in [OrderIds -> Order \cup {None}]
  BY <1>1, <1>2, CallingIs DEF TypeInv
<1>4. Answer(f) \in Bodies(f.kind, Known, Stocked)
  <2>1. CASE f.kind = "order"
    BY <1>3, <2>1 DEF Answer, Bodies, Args, Known
  <2>2. CASE f.kind = "products"
    BY <2>2 DEF Answer, Bodies
  <2>3. CASE f.kind \in {"me", "label"}
    BY <2>3 DEF Answer, Bodies
  <2> QED BY <1>2, <2>1, <2>2, <2>3 DEF ReadOnly
<1>5. "ok" \in Answers /\ f.kind \notin {"product", "save", "upload"}
  BY <1>2 DEF Answers, ReadOnly
<1> QED BY <1>1, <1>2, <1>4, <1>5, AnsweredStep

LEMMA LeastIs ==
  ASSUME NEW S \in SUBSET Nat, IsFiniteSet(S), S # {}
  PROVE  \E t \in S : \A n \in S : t <= n
<1> DEFINE Below(t) == {n \in S : n <= t}
           T == {Below(t) : t \in S}
<1>1. \A t \in S : Below(t) \in SUBSET S /\ IsFiniteSet(Below(t))
  BY FS_Subset
<1>2. T \subseteq FiniteSubsetsOf(S) /\ T # {}
  BY <1>1 DEF FiniteSubsetsOf
<1>3. PICK x \in T : \A y \in T : ~ (<<y, x>> \in StrictSubsetOrdering(S))
  BY <1>2, FS_StrictSubsetOrderingWellFounded, WFMin
<1>4. PICK t \in S : x = Below(t)
  OBVIOUS
<1>5. ASSUME NEW n \in S, ~ t <= n
      PROVE  FALSE
  <2>1. Below(n) \subseteq Below(t) /\ Below(n) # Below(t)
    <3>1. t \in Below(t) /\ t \notin Below(n)
      BY <1>5
    <3>2. \A m \in Below(n) : m \in Below(t)
      BY <1>5
    <3> QED BY <3>1, <3>2
  <2>2. ~ (<<Below(n), Below(t)>> \in StrictSubsetOrdering(S))
    BY <1>3, <1>4
  <2>3. Below(n) \in SUBSET S /\ Below(t) \in SUBSET S
    OBVIOUS
  <2> QED BY <2>1, <2>2, <2>3 DEF StrictSubsetOrdering
<1> QED BY <1>5

\* A full page has an oldest row.
LEMMA NextBeforeIs ==
  ASSUME book \in [OrderIds -> Order \cup {None}], NEW rows \in SUBSET Known
  PROVE  /\ NextBefore(book, rows) \in Cursor
         /\ \/ Cardinality(rows) < PageSize
            \/ \E o \in rows : NextBefore(book, rows) = book[o].created
<1> DEFINE T == {book[o].created : o \in rows}
<1>1. T \subseteq 0..MaxTime
  <2>1. \A o \in rows : book[o] \in Order
    BY DEF Known
  <2>2. \A order \in Order : order.created \in 0..MaxTime
    BY DEF Order
  <2> QED BY <2>1, <2>2
<1>2. CASE Cardinality(rows) < PageSize
  BY <1>2 DEF NextBefore, Cursor
<1>3. CASE ~ Cardinality(rows) < PageSize
  <2>1. rows # {}
    BY <1>3, AdminAssumption, FS_EmptySet
  <2>2a. T \in SUBSET Nat
    BY <1>1, AdminAssumption
  <2>2b. IsFiniteSet(T) /\ T # {}
    <3>1. IsFiniteSet(0..MaxTime)
      BY AdminAssumption, FS_Interval
    <3>2. T # {}
      BY <2>1
    <3> HIDE DEF T
    <3>3. IsFiniteSet(T)
      BY <1>1, <3>1, FS_Subset
    <3> QED BY <3>2, <3>3
  <2>3. \E t \in T : \A n \in T : t <= n
    <3> HIDE DEF T
    <3> QED BY <2>2a, <2>2b, LeastIs
  <2>4. NextBefore(book, rows) = CHOOSE t \in T : \A o \in rows : t <= book[o].created
    BY <1>3 DEF NextBefore
  <2>5. \E t \in T : \A o \in rows : t <= book[o].created
    BY <2>3
  <2>6. NextBefore(book, rows) \in T
    <3> HIDE DEF T
    <3> QED BY <2>4, <2>5
  <2> QED BY <1>1, <2>6 DEF Cursor
<1> QED BY <1>2, <1>3

LEMMA ServeOrdersStep ==
  ASSUME PagesInv, NEW op \in Operators, NEW i \in Slots, ServeOrders(op, i), desk' = desk
  PROVE  PagesInv'
<1>1. PICK q : q = tabs[op].calls[i].arg
  OBVIOUS
<1>2. /\ tabs[op].calls[i] # None /\ tabs[op].calls[i].kind = "orders"
      /\ UNCHANGED <<book, shelf, now, put, seen>>
      /\ \E rows \in ListAll(book, q.filter, q.before) :
           Reply(op, i, "ok", [rows |-> rows, next |-> NextBefore(book, rows)])
  BY <1>1 DEF ServeOrders, Calling, server
<1>3. PICK rows \in ListAll(book, q.filter, q.before) :
        Reply(op, i, "ok", [rows |-> rows, next |-> NextBefore(book, rows)])
  BY <1>2
<1>4. rows \in SUBSET Known
  BY <1>3 DEF ListAll, Candidates, Known
<1>5. book \in [OrderIds -> Order \cup {None}]
  BY DEF PagesInv, TypeInv
<1>6. NextBefore(book, rows) \in Cursor
  BY <1>4, <1>5, NextBeforeIs
<1>7. PICK body : body = [rows |-> rows, next |-> NextBefore(book, rows)]
  OBVIOUS
<1>8. body \in Bodies("orders", Known, Stocked)
  BY <1>4, <1>6, <1>7 DEF Bodies
<1>9. "ok" \in Answers
  BY DEF Answers
<1> QED BY <1>2, <1>3, <1>7, <1>8, <1>9, AnsweredStep

LEMMA ReadIs ==
  ASSUME TypeInv, NEW op \in Operators, NEW i \in Slots, tabs[op].calls[i] # None,
         tabs[op].calls[i].status = None, NEW body,
         tabs' = SetBody(SetAt(tabs, op, i, "read"), op, i, body)
  PROVE  tabs' = [tabs EXCEPT ![op] =
                    WithCall(tabs[op], i, Turned(tabs[op].calls[i], "read", None, body))]
<1>1. PICK t : t = tabs
  OBVIOUS
<1>2. PICK c : c = t[op]
  OBVIOUS
<1>3. PICK f : f = c.calls[i]
  OBVIOUS
<1>4. Tabs(t) /\ Shape(c) /\ GoodCall(f, Known, Stocked) /\ f.status = None
  BY <1>1, <1>2, <1>3 DEF TypeInv, GoodTab, Tabs
<1>5. PICK f1, f2 : f1 = AtOf(f, "read") /\ f2 = BodyOf(f1, body)
  OBVIOUS
<1>6. f2 = Turned(f, "read", None, body)
  <2>1. f2 = Turned(f, "read", f.status, body)
    BY <1>1, <1>2, <1>3, <1>4, <1>5 DEF GoodCall, Turned, AtOf, BodyOf
  <2> QED BY <1>4, <2>1
<1>7. PICK t1 : t1 = SetAt(t, op, i, "read")
  OBVIOUS
<1>8. PICK t2 : t2 = SetBody(t1, op, i, body)
  OBVIOUS
<1>9. tabs' = t2
  BY <1>1, <1>7, <1>8
<1>10. t1 = WithTab(t, op, WithCall(c, i, f1))
  BY <1>2, <1>3, <1>4, <1>5, <1>7, SetAtIs
<1>11. /\ Tabs(t1) /\ t1[op].calls[i] = f1
       /\ WithTab(t1, op, WithCall(t1[op], i, f2)) = WithTab(t, op, WithCall(c, i, f2))
  BY <1>4, <1>10, TurnsTwice
<1>12. t2 = WithTab(t1, op, WithCall(t1[op], i, f2))
  BY <1>5, <1>8, <1>11, SetBodyIs
<1>13. tabs' = WithTab(t, op, WithCall(c, i, f2))
  BY <1>9, <1>11, <1>12
<1> QED BY <1>1, <1>2, <1>3, <1>6, <1>13 DEF WithTab

LEMMA ReadForAdvanceStep ==
  ASSUME PagesInv, NEW op \in Operators, NEW i \in Slots, ReadForAdvance(op, i), desk' = desk
  PROVE  PagesInv'
<1>1. PICK f : f = tabs[op].calls[i]
  OBVIOUS
<1>2. /\ f # None /\ f.kind = "advance" /\ f.at = "asked"
      /\ UNCHANGED <<book, shelf, now, put, seen>>
  BY <1>1 DEF ReadForAdvance, Calling, server, history
<1>3. /\ GoodCall(f, Known, Stocked) /\ f.arg \in [order : Known, to : Range(Steps)] /\ TypeInv
      /\ book \in [OrderIds -> Order \cup {None}]
  BY <1>1, <1>2, CallingIs DEF Args, TypeInv
<1>4. PICK order : order = book[f.arg.order]
  OBVIOUS
<1>5. order \in Order
  BY <1>3, <1>4 DEF Known
<1>6. CASE order.status = "placed" /\ CanFulfil(order.fulfilment, f.arg.to)
  <2>1. tabs' = [tabs EXCEPT ![op].calls[i].at = "read", ![op].calls[i].body = order]
    BY <1>1, <1>4, <1>6 DEF ReadForAdvance
  <2>2. f.status = None
    BY <1>2, <1>3 DEF GoodCall
  <2>3. GoodCall(Turned(f, "read", None, order), Known, Stocked)
    BY <1>2, <1>3, <1>5, <1>6 DEF GoodCall, Turned
  <2>4. None # "ok"
    BY NoneIsNothing
  <2>5. tabs' = [tabs EXCEPT ![op] = WithCall(tabs[op], i, Turned(tabs[op].calls[i], "read", None, order))]
    <3>1. tabs[op].calls[i] # None /\ tabs[op].calls[i].status = None
      BY <1>1, <1>2, <2>2
    <3>2. tabs' = SetBody(SetAt(tabs, op, i, "read"), op, i, order)
      BY <2>1 DEF SetBody, SetAt
    <3> QED BY <1>1, <1>3, <3>1, <3>2, ReadIs
  <2> QED BY <1>1, <1>2, <2>3, <2>4, <2>5, ServedStep
<1>7. CASE ~ (order.status = "placed" /\ CanFulfil(order.fulfilment, f.arg.to))
  <2>1. Reply(op, i, "409", None)
    BY <1>1, <1>4, <1>7 DEF ReadForAdvance
  <2>2. "409" \in Answers
    BY DEF Answers
  <2> QED BY <1>1, <1>2, <2>1, <2>2, AnsweredStep
<1> QED BY <1>6, <1>7

LEMMA ServeUploadStep ==
  ASSUME PagesInv, NEW op \in Operators, NEW i \in Slots, ServeUpload(op, i), desk' = desk
  PROVE  PagesInv'
<1>1. PICK c : c = tabs[op]
  OBVIOUS
<1>2. /\ c.calls[i] # None /\ c.calls[i].kind = "upload"
      /\ UNCHANGED <<book, shelf, now, put, seen>>
      /\ \E image \in Images \ Used : Reply(op, i, "ok", image)
  BY <1>1 DEF ServeUpload, Calling, server, history
<1>3. PICK image \in Images \ Used : Reply(op, i, "ok", image)
  BY <1>2
<1>4. image \in Bodies("upload", Known, Stocked) /\ "ok" \in Answers
  BY DEF Bodies, Answers
<1>5. ASSUME c.calls[i].live
      PROVE  image \notin Range(c.view.draft.images) \cup put[op].removed
  <2>1. i \in LiveCalls(c, {"upload"})
    BY <1>2, <1>5 DEF LiveCalls, Live
  <2>2. c.view.draft # None
    BY <1>1, <2>1, PageOf DEF OneAtATime
  <2>3. c.view.draft \in Drafts
    BY <1>1, <2>2 DEF Drafts
  <2>4. \A draft \in Drafts : Range(draft.images) \in {Range(e.images) : e \in Drafts}
    OBVIOUS
  <2>5. put[op].added \cup put[op].removed \in {put[x].added \cup put[x].removed : x \in Operators}
    OBVIOUS
  <2> DEFINE A == UNION {Range(e.images) : e \in Drafts}
             B == UNION {put[x].added \cup put[x].removed : x \in Operators}
  <2>6. image \notin A /\ image \notin B
    <3> DEFINE C == UNION {Range(shelf[p].images) : p \in {q \in ProductIds : shelf[q] # None}}
    <3>1. Used = C \cup A \cup B
      BY Zenon DEF Used
    <3> HIDE DEF A, B, C
    <3> QED BY <3>1
  <2>7. image \notin Range(c.view.draft.images)
    BY <2>3, <2>4, <2>6
  <2>8. image \notin put[op].removed
    BY <2>5, <2>6
  <2> QED BY <2>7, <2>8
<1> QED BY <1>1, <1>2, <1>3, <1>4, <1>5, AnsweredStep

LEMMA ServeLoginStep ==
  ASSUME PagesInv, NEW op \in Operators, NEW i \in Slots, ServeLogin(op, i), desk' = desk
  PROVE  PagesInv'
<1>1. /\ tabs[op].calls[i] # None /\ tabs[op].calls[i].kind = "login" /\ Reply(op, i, "ok", None)
      /\ UNCHANGED <<book, shelf, now, put, seen>>
  BY DEF ServeLogin, Calling, history
<1>2. None \in Bodies("login", Known, Stocked) /\ "ok" \in Answers
  BY DEF Bodies, Answers
<1> QED BY <1>1, <1>2, AnsweredStep

LEMMA ServeRefusalStep ==
  ASSUME PagesInv, NEW op \in Operators, NEW i \in Slots, ServeRefusal(op, i), desk' = desk
  PROVE  PagesInv'
<1>1. /\ tabs[op].calls[i] # None /\ (Reply(op, i, "401", None) \/ Reply(op, i, "422", None))
      /\ UNCHANGED <<book, shelf, now, put, seen>>
  BY DEF ServeRefusal, Refuse, Calling, server, history
<1>2. "401" \in Answers /\ "422" \in Answers
  BY DEF Answers
<1> QED BY <1>1, <1>2, AnsweredStep

-----------------------------------------------------------------------------
(* The server changes the shelf.                                           *)

\* A form that does not know of a change of its product.
Overtakes(mine, mine2) ==
  /\ mine2.stock = mine.stock /\ mine2.active = mine.active /\ mine2.added = mine.added
  /\ mine2.removed = mine.removed /\ mine2.late = mine.late

LEMMA FormMoves ==
  ASSUME NEW K, NEW P, NEW c, GoodTab(c, K, P), NEW mine, NEW mine2, Overtakes(mine, mine2),
         NEW product, NEW product2, FormInv(c, mine, product),
         c.route = "product" /\ ~ mine2.moved => ~ mine.moved /\ product2.stock = product.stock
  PROVE  FormInv(c, mine2, product2)
<1>1. ASSUME NEW i \in LiveCalls(c, {"product"})
      PROVE  c.route = "product"
  <2>1. i \in Slots /\ c.calls[i] # None /\ c.calls[i].live /\ c.calls[i].kind = "product"
    BY <1>1 DEF LiveCalls, Live
  <2> QED BY <2>1 DEF GoodTab, OfThePage
<1>2. Keeps(c.view.draft, mine) => Keeps(c.view.draft, mine2)
  BY DEF Keeps, Overtakes
<1> QED BY <1>1, <1>2 DEF FormInv, Overtakes

\* A new product, or one whose stock stays, is no concern of a form.
LEMMA OthersForms ==
  ASSUME PagesInv,
         \A p \in Stocked : shelf'[p].stock = shelf[p].stock, NEW x \in Operators
  PROVE  FormInv(tabs[x], put[x], shelf'[tabs[x].subject])
<1>1. PICK c : c = tabs[x]
  OBVIOUS
<1>2. PICK mine : mine = put[x]
  OBVIOUS
<1>3. PICK product, product2 : product = shelf[c.subject] /\ product2 = shelf'[c.subject]
  OBVIOUS
<1>4. GoodTab(c, Known, Stocked) /\ FormInv(c, mine, product) /\ Overtakes(mine, mine)
  BY <1>1, <1>2, <1>3, PageOf DEF Overtakes
<1>5. c.route = "product" => product2.stock = product.stock
  BY <1>3, <1>4 DEF GoodTab
<1>6. FormInv(c, mine, product2)
  BY <1>4, <1>5, FormMoves
<1> QED BY <1>1, <1>2, <1>3, <1>6

\* The server turns to a call and changes the book or the shelf, but no stock.
LEMMA WrittenStep ==
  ASSUME PagesInv, NEW op \in Operators, NEW i \in Slots, tabs[op].calls[i] # None,
         NEW at, NEW status, NEW body,
         tabs' = [tabs EXCEPT ![op] = WithCall(tabs[op], i, Turned(tabs[op].calls[i], at, status, body))],
         (book \in [OrderIds -> Order \cup {None}])', (shelf \in [ProductIds -> Product \cup {None}])',
         UNCHANGED <<now, desk, put, seen>>, Known \subseteq Known', Stocked \subseteq Stocked',
         \A p \in Stocked : shelf'[p].stock = shelf[p].stock,
         GoodCall(Turned(tabs[op].calls[i], at, status, body), Known', Stocked'),
         tabs[op].calls[i].live /\ status = "ok" =>
           tabs[op].calls[i].kind \notin {"product", "save", "upload"}
  PROVE  PagesInv'
<1>1. PICK c : c = tabs[op]
  OBVIOUS
<1>2. /\ GoodTab(c, Known, Stocked) /\ OneAtATime(c, seen)
      /\ now \in 0..MaxTime /\ put \in [Operators -> Put]
  BY <1>1, PageOf DEF PagesInv, TypeInv
<1>3. PICK d : d = WithCall(c, i, Turned(c.calls[i], at, status, body))
  OBVIOUS
<1>4. PICK K, P : K = Known' /\ P = Stocked'
  OBVIOUS
<1>5. GoodTab(c, K, P)
  BY <1>2, <1>4, GoodMore
<1>6. GoodTab(d, K, P) /\ OneAtATime(d, seen) /\ SamePage(c, d)
  BY <1>1, <1>2, <1>3, <1>4, <1>5, TurnedTab
<1>7. \A x \in Operators : FormInv(tabs[x], put[x], shelf'[tabs[x].subject])
  BY OthersForms
<1>8. FormInv(d, put[op], shelf'[c.subject])
  <2>1. PICK product : product = shelf'[c.subject]
    OBVIOUS
  <2>2. FormInv(c, put[op], product)
    BY <1>1, <1>7, <2>1
  <2>3. PICK mine : mine = put[op]
    OBVIOUS
  <2>4. FormInv(d, mine, product)
    BY <1>1, <1>2, <1>3, <2>2, <2>3, FormTurned
  <2> QED BY <2>1, <2>3, <2>4
<1>9. FormInv(d, put'[op], shelf'[d.subject])
  BY <1>6, <1>8 DEF SamePage
<1>10. \A x \in Operators \ {op} : FormInv(tabs[x], put'[x], shelf'[tabs[x].subject])
  BY <1>7
<1>11. /\ tabs' = [tabs EXCEPT ![op] = d] /\ OneAtATime(d, seen') /\ seen \subseteq seen'
       /\ GoodTab(d, Known', Stocked') /\ (now \in 0..MaxTime)' /\ (put \in [Operators -> Put])'
  BY <1>1, <1>2, <1>3, <1>4, <1>6
<1> QED BY <1>9, <1>10, <1>11, TabStep

LEMMA ShelfIs ==
  ASSUME TypeInv
  PROVE  /\ book \in [OrderIds -> Order \cup {None}] /\ shelf \in [ProductIds -> Product \cup {None}]
         /\ \A p \in Stocked : shelf[p] \in Product
         /\ None \notin Product /\ None \notin Order
         /\ \A product \in Product : /\ product \in Form /\ product.stock \in 0..MaxStock
                                     /\ product.active \in BOOLEAN /\ product.images \in Pictures
BY NoneIsNothing DEF TypeInv, Stocked, Product, Form

LEMMA ServeRetireStep ==
  ASSUME PagesInv, NEW op \in Operators, NEW i \in Slots, ServeRetire(op, i), desk' = desk
  PROVE  PagesInv'
<1>1. PICK f : f = tabs[op].calls[i]
  OBVIOUS
<1>2. /\ f # None /\ f.kind = "retire" /\ shelf' = Retire(shelf, f.arg) /\ Reply(op, i, "ok", None)
      /\ UNCHANGED <<book, now, put, seen>>
  BY <1>1 DEF ServeRetire, Calling, history
<1>3. GoodCall(f, Known, Stocked) /\ f.arg \in Stocked /\ TypeInv
  BY <1>1, <1>2, CallingIs DEF Args
<1>4. PICK p : p = f.arg
  OBVIOUS
<1>5. PICK no \in BOOLEAN : no = FALSE
  OBVIOUS
<1>6. PICK product : product = [shelf[p] EXCEPT !.active = no]
  OBVIOUS
<1>7. product \in Product /\ product.stock = shelf[p].stock
  <2>1. shelf[p] \in Product
    BY <1>3, <1>4, ShelfIs
  <2> QED BY <1>6, <2>1 DEF Product, Form, Valid
<1>8. p \in ProductIds /\ shelf' = [shelf EXCEPT ![p] = product]
  BY <1>2, <1>3, <1>4, <1>5, <1>6 DEF Retire, Stocked
<1>9. /\ (shelf \in [ProductIds -> Product \cup {None}])'
      /\ \A q \in Stocked : shelf'[q].stock = shelf[q].stock
  BY <1>3, <1>7, <1>8, ShelfIs DEF Stocked
<1>10. Stocked' = Stocked /\ Known' = Known
  BY <1>2, <1>3, <1>4, <1>7, <1>8, ShelfIs DEF Stocked, Known
<1>11. "ok" \in Answers /\ None \in Bodies("retire", Known, Stocked)
  BY DEF Answers, Bodies
<1>12. GoodCall(Turned(f, "answered", "ok", None), Known, Stocked)
  BY <1>2, <1>3, <1>11, GoodAnswer
<1>13. GoodCall(Turned(f, "answered", "ok", None), Known', Stocked')
  BY <1>10, <1>12
<1>14. (book \in [OrderIds -> Order \cup {None}])'
  BY <1>2, <1>3 DEF TypeInv
<1>15. tabs' = [tabs EXCEPT ![op] =
                  WithCall(tabs[op], i, Turned(tabs[op].calls[i], "answered", "ok", None))]
  BY <1>1, <1>2, <1>3, ReplyIs
<1>16. f.kind \notin {"product", "save", "upload"}
  BY <1>2
<1>17. Known \subseteq Known' /\ Stocked \subseteq Stocked'
  BY <1>10
<1> QED BY <1>1, <1>2, <1>9, <1>13, <1>14, <1>15, <1>16, <1>17, WrittenStep

LEMMA ServeCreateStep ==
  ASSUME PagesInv, NEW op \in Operators, NEW i \in Slots, ServeCreate(op, i), desk' = desk
  PROVE  PagesInv'
<1>1. PICK f : f = tabs[op].calls[i]
  OBVIOUS
<1>2. /\ f # None /\ f.kind = "create" /\ Valid(f.arg.product) /\ UNCHANGED <<book, now, put, seen>>
      /\ IF shelf[f.arg.id] = None
          THEN /\ shelf' = Create(shelf, f.arg.id, f.arg.product)
               /\ Reply(op, i, "ok", f.arg.id)
          ELSE UNCHANGED shelf /\ Reply(op, i, "409", None)
  BY <1>1 DEF ServeCreate, Calling, history
<1>3. /\ GoodCall(f, Known, Stocked) /\ f.arg \in [id : ProductIds, product : Form] /\ TypeInv
  BY <1>1, <1>2, CallingIs DEF Args
<1>4. PICK p : p = f.arg.id
  OBVIOUS
<1>5. "ok" \in Answers /\ "409" \in Answers
  BY DEF Answers
<1>6. CASE shelf[p] = None
  <2>1. f.arg.product \in Product /\ p \in ProductIds
    BY <1>2, <1>3, <1>4 DEF Product
  <2>2. shelf' = [shelf EXCEPT ![p] = f.arg.product] /\ Reply(op, i, "ok", p)
    BY <1>2, <1>4, <1>6 DEF Create
  <2>3. /\ (shelf \in [ProductIds -> Product \cup {None}])'
        /\ \A q \in Stocked : shelf'[q].stock = shelf[q].stock
    BY <1>3, <1>6, <2>1, <2>2, ShelfIs DEF Stocked
  <2>4. Stocked' = Stocked \cup {p} /\ Known' = Known
    BY <1>2, <1>3, <2>1, <2>2, ShelfIs DEF Stocked, Known
  <2>5. PICK K, P : K = Known' /\ P = Stocked'
    OBVIOUS
  <2>6. GoodCall(f, K, P)
    BY <1>2, <1>3, <2>4, <2>5 DEF GoodCall, Args, Bodies
  <2>7. p \in Bodies("create", K, P)
    BY <2>4, <2>5 DEF Bodies
  <2>8. GoodCall(Turned(f, "answered", "ok", p), K, P)
    BY <1>2, <1>5, <2>6, <2>7, GoodAnswer
  <2>9. (book \in [OrderIds -> Order \cup {None}])' /\ Known \subseteq Known' /\ Stocked \subseteq Stocked'
    BY <1>2, <1>3, <2>4 DEF TypeInv
  <2>10. GoodCall(Turned(f, "answered", "ok", p), Known', Stocked')
    BY <2>5, <2>8
  <2>11. tabs' = [tabs EXCEPT ![op] =
                    WithCall(tabs[op], i, Turned(tabs[op].calls[i], "answered", "ok", p))]
    BY <1>1, <1>2, <1>3, <2>2, ReplyIs
  <2>12. f.kind \notin {"product", "save", "upload"}
    BY <1>2
  <2> QED BY <1>1, <1>2, <2>3, <2>9, <2>10, <2>11, <2>12, WrittenStep
<1>7. CASE shelf[p] # None
  BY <1>1, <1>2, <1>4, <1>5, <1>7, AnsweredStep
<1> QED BY <1>6, <1>7

LEMMA ServeProductStep ==
  ASSUME PagesInv, NEW op \in Operators, NEW i \in Slots, ServeProduct(op, i), desk' = desk
  PROVE  PagesInv'
<1>1. PICK c : c = tabs[op]
  OBVIOUS
<1>2. PICK f : f = c.calls[i]
  OBVIOUS
<1>3. /\ f # None /\ f.kind = "product" /\ f.at = "asked"
      /\ UNCHANGED <<book, shelf, now, seen>>
      /\ put' = IF f.live THEN [put EXCEPT ![op].moved = FALSE] ELSE put
      /\ IF shelf[f.arg] = None THEN Reply(op, i, "404", None) ELSE Reply(op, i, "ok", shelf[f.arg])
  BY <1>1, <1>2 DEF ServeProduct, Calling, server
<1>4. /\ GoodCall(f, Known, Stocked) /\ f.arg \in Stocked /\ TypeInv
  BY <1>1, <1>2, <1>3, CallingIs DEF Args
<1>5. PICK body : body = shelf[f.arg]
  OBVIOUS
<1>6. body \in Form /\ Reply(op, i, "ok", body)
  BY <1>3, <1>4, <1>5, ShelfIs DEF Stocked
<1>7. GoodCall(Turned(f, "answered", "ok", body), Known, Stocked)
  <2>1. "ok" \in Answers /\ body \in Bodies("product", Known, Stocked)
    BY <1>6 DEF Answers, Bodies
  <2> QED BY <1>3, <1>4, <2>1, GoodAnswer
<1>8. PICK d : d = WithCall(c, i, Turned(f, "answered", "ok", body))
  OBVIOUS
<1>9. tabs' = [tabs EXCEPT ![op] = d]
  BY <1>1, <1>2, <1>3, <1>4, <1>6, <1>8, ReplyIs
<1>10. /\ GoodTab(c, Known, Stocked) /\ OneAtATime(c, seen) /\ FormInv(c, put[op], shelf[c.subject])
       /\ put[op] \in Put /\ put \in [Operators -> Put]
  BY <1>1, PageOf DEF PagesInv, TypeInv
<1>11. GoodTab(d, Known, Stocked) /\ OneAtATime(d, seen) /\ SamePage(c, d)
  BY <1>2, <1>3, <1>7, <1>8, <1>10, TurnedTab
<1>12. PICK product : product = shelf[c.subject]
  OBVIOUS
<1>13. CASE f.live
  <2>1. PICK no \in BOOLEAN : no = FALSE
    OBVIOUS
  <2>2. PICK mine : mine = [put[op] EXCEPT !.moved = no]
    OBVIOUS
  <2>3. mine \in Put /\ put' = [put EXCEPT ![op] = mine]
    <3>1. put' = [put EXCEPT ![op].moved = no]
      BY <1>3, <1>13, <2>1
    <3>2. [put EXCEPT ![op].moved = no] = [put EXCEPT ![op] = mine]
      BY <1>10, <2>2
    <3> QED BY <1>10, <2>2, <3>1, <3>2 DEF Put
  <2>4. body.stock = product.stock
    <3>1. c.subject = f.arg
      BY <1>2, <1>3, <1>10, <1>13 DEF GoodTab, OfThePage
    <3> QED BY <1>5, <1>12, <3>1
  <2>5. i \in LiveCalls(c, {"product"})
    BY <1>2, <1>3, <1>13 DEF LiveCalls, Live
  <2>6. c.view.draft = None /\ \A j \in LiveCalls(c, CallKind) : j = i
    <3>1. LiveCalls(c, {"product"}) \subseteq LiveCalls(c, {"me", "product"})
      BY DEF LiveCalls
    <3>2. c.view.draft = None
      BY <1>10, <2>5 DEF OneAtATime
    <3>3. \A j \in LiveCalls(c, CallKind) : i = j
      BY <1>10, <2>5, <3>1 DEF OneAtATime
    <3> QED BY <3>2, <3>3
  <2>7. LiveCalls(c, {"save", "create"}) = {} /\ LiveCalls(c, {"upload"}) = {}
    <3>1. LiveCalls(c, {"save", "create"}) # {} => c.view.draft # None
      BY <1>10 DEF OneAtATime
    <3>2. LiveCalls(c, {"upload"}) # {} => c.view.draft # None
      BY <1>10 DEF OneAtATime
    <3> QED BY <2>6, <3>1, <3>2
  <2>8. \A j \in LiveCalls(c, {"product"}) : j = i
    <3>1. LiveCalls(c, {"product"}) \subseteq LiveCalls(c, CallKind)
      BY DEF LiveCalls, CallKind
    <3> QED BY <2>6, <3>1
  <2>9. f.status # "ok"
    BY <1>3, <1>4, NoneIsNothing DEF GoodCall
  <2>10. FormInv(c, mine, product)
    BY <1>2, <2>6, <2>7, <2>8, <2>9 DEF FormInv
  <2>11. FormInv(d, mine, product)
    BY <1>2, <1>3, <1>8, <1>10, <2>4, <2>10, FormTurned
  <2>12. FormInv(d, mine, shelf[d.subject])
    BY <1>11, <1>12, <2>11 DEF SamePage
  <2> QED BY <1>3, <1>9, <1>11, <2>3, <2>12, PageStep
<1>14. CASE ~ f.live
  <2>1. put' = put
    BY <1>3, <1>14
  <2> QED BY <1>1, <1>2, <1>3, <1>7, <1>8, <1>9, <1>14, <2>1, ServedStep
<1> QED BY <1>13, <1>14

LEMMA MovedIs ==
  ASSUME TypeInv, NEW p
  PROVE  /\ Moved(p) = [x \in Operators |-> Moved(p)[x]]
         /\ \A x \in Operators : /\ Moved(p)[x] \in Put /\ Overtakes(put[x], Moved(p)[x])
                                 /\ tabs[x].subject = p => Moved(p)[x].moved
                                 /\ tabs[x].subject # p => Moved(p)[x] = put[x]
<1>1. PICK yes \in BOOLEAN : yes = TRUE
  OBVIOUS
<1>2. PICK m : m = Moved(p)
  OBVIOUS
<1>3. m = [x \in Operators |->
             IF tabs[x].subject = p THEN [put[x] EXCEPT !.moved = yes] ELSE put[x]]
  BY <1>1, <1>2 DEF Moved
<1>4. \A x \in Operators : put[x] \in Put
  BY DEF TypeInv
<1>5. ASSUME NEW mine \in Put, NEW mine2, mine2 = [mine EXCEPT !.moved = yes]
      PROVE  mine2 \in Put /\ Overtakes(mine, mine2) /\ mine2.moved
  BY <1>1, <1>5 DEF Put, Overtakes
<1>6. \A x \in Operators : tabs[x].subject = p =>
        m[x] \in Put /\ Overtakes(put[x], m[x]) /\ m[x].moved
  BY <1>3, <1>4, <1>5
<1>7. \A x \in Operators : tabs[x].subject # p => m[x] = put[x]
  BY <1>3
<1>8. \A x \in Operators : Overtakes(put[x], put[x])
  BY DEF Overtakes
<1> QED BY <1>2, <1>3, <1>4, <1>6, <1>7, <1>8

\* What a form that hears of no change has to fear of one: nothing.
LEMMA MovedForms ==
  ASSUME PagesInv, NEW p, \A q \in Stocked \ {p} : shelf'[q].stock = shelf[q].stock, NEW x \in Operators
  PROVE  FormInv(tabs[x], Moved(p)[x], shelf'[tabs[x].subject])
<1>1. PICK c : c = tabs[x]
  OBVIOUS
<1>2. PICK mine, mine2 : mine = put[x] /\ mine2 = Moved(p)[x]
  OBVIOUS
<1>3. PICK product, product2 : product = shelf[c.subject] /\ product2 = shelf'[c.subject]
  OBVIOUS
<1>4. TypeInv
  BY DEF PagesInv
<1>5. GoodTab(c, Known, Stocked) /\ FormInv(c, mine, product) /\ Overtakes(mine, mine2)
  BY <1>1, <1>2, <1>3, <1>4, PageOf, MovedIs
<1>6. c.route = "product" /\ ~ mine2.moved => ~ mine.moved /\ product2.stock = product.stock
  <2>1. ~ mine2.moved => c.subject # p /\ mine2 = mine
    BY <1>1, <1>2, <1>4, MovedIs
  <2>2. c.route = "product" => c.subject \in Stocked
    BY <1>5 DEF GoodTab
  <2> QED BY <1>3, <2>1, <2>2
<1>7. FormInv(c, mine2, product2)
  BY <1>5, <1>6, FormMoves
<1> QED BY <1>1, <1>2, <1>3, <1>7

LEMMA ServeSaveStep ==
  ASSUME PagesInv, NEW op \in Operators, NEW i \in Slots, ServeSave(op, i), desk' = desk
  PROVE  PagesInv'
<1>1. PICK c : c = tabs[op]
  OBVIOUS
<1>2. PICK f : f = c.calls[i]
  OBVIOUS
<1>3. PICK p, sent : p = f.arg.id /\ sent = f.arg.product
  OBVIOUS
<1>4. /\ f # None /\ f.kind = "save" /\ f.at = "asked" /\ Valid(sent) /\ Reply(op, i, "ok", sent)
      /\ shelf' = [shelf EXCEPT ![p] = sent] /\ UNCHANGED <<book, now, seen>>
      /\ put' = [Moved(p) EXCEPT ![op].moved = @ /\ ~ f.live]
  BY <1>1, <1>2, <1>3 DEF ServeSave, Calling, Update
<1>5. /\ GoodCall(f, Known, Stocked) /\ f.arg \in [id : Stocked, product : Form] /\ TypeInv
  BY <1>1, <1>2, <1>4, CallingIs DEF Args
<1>6. p \in Stocked /\ p \in ProductIds /\ sent \in Product /\ sent \in Form
  BY <1>3, <1>4, <1>5 DEF Product, Stocked
<1>7. /\ (shelf \in [ProductIds -> Product \cup {None}])' /\ Stocked' = Stocked /\ Known' = Known
      /\ \A q \in Stocked \ {p} : shelf'[q].stock = shelf[q].stock
      /\ shelf'[p] = sent
  BY <1>4, <1>5, <1>6, ShelfIs DEF Stocked, Known
<1>8. GoodCall(Turned(f, "answered", "ok", sent), Known, Stocked)
  <2>1. "ok" \in Answers /\ sent \in Bodies("save", Known, Stocked)
    BY <1>6 DEF Answers, Bodies
  <2> QED BY <1>4, <1>5, <2>1, GoodAnswer
<1>9. PICK d : d = WithCall(c, i, Turned(f, "answered", "ok", sent))
  OBVIOUS
<1>10. tabs' = [tabs EXCEPT ![op] = d]
  BY <1>1, <1>2, <1>4, <1>5, <1>9, ReplyIs
<1>11. GoodTab(c, Known, Stocked) /\ OneAtATime(c, seen) /\ FormInv(c, put[op], shelf[c.subject])
  BY <1>1, PageOf
<1>12. GoodTab(d, Known, Stocked) /\ OneAtATime(d, seen) /\ SamePage(c, d)
  BY <1>2, <1>4, <1>8, <1>9, <1>11, TurnedTab
<1>13. PICK m : m = Moved(p)
  OBVIOUS
<1>14. /\ m = [x \in Operators |-> m[x]]
       /\ \A x \in Operators : m[x] \in Put /\ FormInv(tabs[x], m[x], shelf'[tabs[x].subject])
       /\ Overtakes(put[op], m[op])
  BY <1>5, <1>7, <1>13, MovedIs, MovedForms
<1>15. PICK moved \in BOOLEAN : moved = (m[op].moved /\ ~ f.live)
  OBVIOUS
<1>16. PICK mine : mine = [m[op] EXCEPT !.moved = moved]
  OBVIOUS
<1>17. /\ put' = [m EXCEPT ![op] = mine] /\ mine \in Put /\ Overtakes(put[op], mine)
       /\ mine.moved = moved
  <2>1. put' = [m EXCEPT ![op].moved = moved]
    BY <1>4, <1>13, <1>15
  <2>2. [m EXCEPT ![op].moved = moved] = [m EXCEPT ![op] = mine]
    BY <1>14, <1>16
  <2>3. mine \in Put /\ Overtakes(m[op], mine) /\ mine.moved = moved
    BY <1>14, <1>16 DEF Put, Overtakes
  <2> QED BY <1>14, <2>1, <2>2, <2>3 DEF Overtakes
<1>18. PICK product : product = shelf'[c.subject]
  OBVIOUS
<1>19. FormInv(c, mine, product)
  <2>1. CASE f.live
    <3>1. c.subject = p /\ product = sent /\ i \in LiveCalls(c, {"save", "create"})
      BY <1>2, <1>3, <1>4, <1>7, <1>11, <1>18, <2>1 DEF GoodTab, OfThePage, LiveCalls, Live
    <3>2. PICK old : old = shelf[c.subject]
      OBVIOUS
    <3>3. FormInv(c, put[op], old) /\ Overtakes(put[op], mine)
      BY <1>11, <1>17, <3>2
    <3>4. c.view.draft # None /\ LiveCalls(c, {"product"}) = {}
      BY <1>11, <3>1 DEF OneAtATime
    <3>5. mine.stock = None => c.view.draft.stock = product.stock
      BY <1>2, <1>3, <3>1, <3>3 DEF FormInv, Overtakes
    <3>6. Keeps(c.view.draft, put[op]) => Keeps(c.view.draft, mine)
      BY <3>3 DEF Keeps, Overtakes
    <3> QED BY <3>3, <3>4, <3>5, <3>6 DEF FormInv, Overtakes
  <2>2. CASE ~ f.live
    <3>1. mine.moved = m[op].moved /\ Overtakes(m[op], mine)
      BY <1>14, <1>15, <1>16, <1>17, <2>2 DEF Put, Overtakes
    <3>2. PICK mine1 : mine1 = m[op]
      OBVIOUS
    <3>3. FormInv(c, mine1, product)
      BY <1>1, <1>14, <1>18, <3>2
    <3> QED BY <1>11, <3>1, <3>2, <3>3, FormMoves
  <2> QED BY <2>1, <2>2
<1>20. FormInv(d, mine, shelf'[d.subject])
  <2>1. FormInv(d, mine, product)
    BY <1>2, <1>3, <1>4, <1>9, <1>11, <1>19, FormTurned
  <2> QED BY <1>12, <1>18, <2>1 DEF SamePage
<1>21. /\ put'[op] = mine /\ (put \in [Operators -> Put])'
       /\ \A x \in Operators \ {op} : put'[x] = m[x]
  BY <1>14, <1>17
<1>22. \A x \in Operators \ {op} : FormInv(tabs[x], put'[x], shelf'[tabs[x].subject])
  BY <1>14, <1>21
<1>23. /\ (book \in [OrderIds -> Order \cup {None}])' /\ (now \in 0..MaxTime)'
       /\ seen \subseteq seen' /\ OneAtATime(d, seen') /\ GoodTab(d, Known', Stocked')
  BY <1>4, <1>5, <1>7, <1>12 DEF TypeInv
<1> QED BY <1>7, <1>10, <1>20, <1>21, <1>22, <1>23, TabStep

-----------------------------------------------------------------------------
(* The server writes a step.                                               *)

\* The write takes place exactly when the order is where it was read to be.
LEMMA WriteIs ==
  ASSUME PagesInv, NEW op \in Operators, NEW i \in Slots, WriteAdvance(op, i)
  PROVE  LET f == tabs[op].calls[i]
             o == f.arg.order
             write == book[o].status = "placed" /\ book[o].fulfilment = f.body.fulfilment
         IN /\ f # None /\ f.kind = "advance" /\ f.at = "read" /\ GoodCall(f, Known, Stocked)
            /\ o \in Known /\ f.arg.to \in Range(Steps) /\ f.body \in Order
            /\ CanFulfil(f.body.fulfilment, f.arg.to) /\ book[o] \in Order
            /\ write => /\ book' = [book EXCEPT ![o] = [book[o] EXCEPT !.fulfilment = f.arg.to]]
                        /\ Reply(op, i, "ok", [f.body EXCEPT !.fulfilment = f.arg.to])
                        /\ done' = [done EXCEPT ![o] = Append(done[o], f.arg.to)]
            /\ ~ write => book' = book /\ done' = done /\ Reply(op, i, "409", None)
<1>1. PICK f : f = tabs[op].calls[i]
  OBVIOUS
<1>2. PICK o : o = f.arg.order
  OBVIOUS
<1>3. PICK to : to = f.arg.to
  OBVIOUS
<1>4. /\ f # None /\ f.at = "read" /\ book' = SetFulfilment(book, o, f.body.fulfilment, to)
      /\ IF book' # book THEN Reply(op, i, "ok", [f.body EXCEPT !.fulfilment = to])
                         ELSE Reply(op, i, "409", None)
      /\ done' = IF book' # book THEN [done EXCEPT ![o] = Append(done[o], to)] ELSE done
  BY <1>1, <1>2, <1>3 DEF WriteAdvance
<1>5. GoodCall(f, Known, Stocked) /\ book \in [OrderIds -> Order \cup {None}]
  BY <1>1, <1>4, CallingIs DEF TypeInv
<1>6. f.kind = "advance" /\ f.body \in Order /\ CanFulfil(f.body.fulfilment, to)
  BY <1>3, <1>4, <1>5 DEF GoodCall
<1>7. o \in Known /\ to \in Range(Steps) /\ book[o] \in Order
  <2>1. f.arg \in [order : Known, to : Range(Steps)]
    BY <1>5, <1>6 DEF GoodCall, Args
  <2> QED BY <1>2, <1>3, <1>5, <2>1 DEF Known
<1>8. f.body.fulfilment # to
  BY <1>6, <1>7, RankIs DEF CanFulfil
<1>9. CASE book[o].status = "placed" /\ book[o].fulfilment = f.body.fulfilment
  <2>1. book' = [book EXCEPT ![o] = [book[o] EXCEPT !.fulfilment = to]]
    BY <1>4, <1>9 DEF SetFulfilment
  <2>2. book'[o].fulfilment = to
    BY <1>5, <1>7, <2>1 DEF Known, Order
  <2>3. book' # book
    BY <1>8, <1>9, <2>2
  <2> QED BY <1>1, <1>2, <1>3, <1>4, <1>5, <1>6, <1>7, <1>9, <2>1, <2>3
<1>10. CASE ~ (book[o].status = "placed" /\ book[o].fulfilment = f.body.fulfilment)
  <2>1. book' = book
    BY <1>4, <1>10 DEF SetFulfilment
  <2> QED BY <1>1, <1>2, <1>3, <1>4, <1>5, <1>6, <1>7, <1>10, <2>1
<1> QED BY <1>9, <1>10

LEMMA WriteAdvanceStep ==
  ASSUME PagesInv, NEW op \in Operators, NEW i \in Slots, WriteAdvance(op, i), desk' = desk
  PROVE  PagesInv'
<1>1. PICK f : f = tabs[op].calls[i]
  OBVIOUS
<1>2. PICK o : o = f.arg.order
  OBVIOUS
<1>3. /\ f # None /\ f.kind = "advance" /\ GoodCall(f, Known, Stocked)
      /\ o \in Known /\ f.arg.to \in Range(Steps) /\ f.body \in Order /\ book[o] \in Order
      /\ UNCHANGED <<shelf, now, put, seen>>
  BY <1>1, <1>2, WriteIs DEF WriteAdvance
<1>4. CASE book[o].status = "placed" /\ book[o].fulfilment = f.body.fulfilment
  <2>1. PICK order, body : /\ order = [book[o] EXCEPT !.fulfilment = f.arg.to]
                           /\ body = [f.body EXCEPT !.fulfilment = f.arg.to]
    OBVIOUS
  <2>2. order \in Order /\ body \in Order
    BY <1>3, <2>1 DEF Order, Fulfilment
  <2>3. book' = [book EXCEPT ![o] = order] /\ Reply(op, i, "ok", body)
    BY <1>1, <1>2, <1>4, <2>1, WriteIs
  <2>4. TypeInv
    BY DEF PagesInv
  <2>5. (book \in [OrderIds -> Order \cup {None}])' /\ Known' = Known /\ Stocked' = Stocked
    BY <1>3, <2>2, <2>3, <2>4, ShelfIs DEF Known, Stocked
  <2>6. GoodCall(Turned(f, "answered", "ok", body), Known, Stocked)
    <3>1. "ok" \in Answers /\ body \in Bodies("advance", Known, Stocked)
      BY <2>2 DEF Answers, Bodies
    <3> QED BY <1>3, <3>1, GoodAnswer
  <2>7. (shelf \in [ProductIds -> Product \cup {None}])'
    BY <1>3, <2>4 DEF TypeInv
  <2>8. GoodCall(Turned(f, "answered", "ok", body), Known', Stocked')
    BY <2>5, <2>6
  <2>9. tabs' = [tabs EXCEPT ![op] = WithCall(tabs[op], i, Turned(f, "answered", "ok", body))]
    BY <1>1, <1>3, <2>3, <2>4, ReplyIs
  <2> QED BY <1>1, <1>3, <2>5, <2>7, <2>8, <2>9, WrittenStep
<1>5. CASE ~ (book[o].status = "placed" /\ book[o].fulfilment = f.body.fulfilment)
  <2>1. book' = book /\ Reply(op, i, "409", None)
    BY <1>1, <1>2, <1>5, WriteIs
  <2>2. "409" \in Answers
    BY DEF Answers
  <2> QED BY <1>1, <1>3, <2>1, <2>2, AnsweredStep
<1> QED BY <1>4, <1>5

LEMMA ServeStep ==
  ASSUME PagesInv, NEW op \in Operators, NEW i \in Slots, Serve(op, i)
  PROVE  PagesInv'
BY ServeReadStep, ServeProductStep, ServeOrdersStep, ReadForAdvanceStep, WriteAdvanceStep,
   ServeSaveStep, ServeCreateStep, ServeRetireStep, ServeUploadStep, ServeLoginStep,
   ServeRefusalStep DEF Serve

-----------------------------------------------------------------------------
(* Orders, units and sessions meanwhile.                                   *)

LEMMA TabsStay ==
  ASSUME PagesInv, UNCHANGED <<tabs, desk, seen>>, Known \subseteq Known', Stocked \subseteq Stocked',
         (book \in [OrderIds -> Order \cup {None}])', (shelf \in [ProductIds -> Product \cup {None}])',
         (now \in 0..MaxTime)', (put \in [Operators -> Put])',
         \A x \in Operators : FormInv(tabs[x], put'[x], shelf'[tabs[x].subject])
  PROVE  PagesInv'
<1>1. \A x \in Operators : GoodTab(tabs[x], Known', Stocked')
  BY GoodMore DEF PagesInv, TypeInv
<1>2. TypeInv'
  BY <1>1 DEF PagesInv, TypeInv
<1>3. OneInv' /\ FormsInv'
  BY DEF PagesInv, OneInv, FormsInv
<1> QED BY <1>2, <1>3 DEF PagesInv

LEMMA WorldStep ==
  ASSUME PagesInv, World
  PROVE  PagesInv'
<1>1. TypeInv /\ now \in 0..MaxTime /\ put \in [Operators -> Put]
  BY DEF PagesInv, TypeInv
<1>2. ASSUME NEW o \in OrderIds, NEW order \in Order, book' = [book EXCEPT ![o] = order],
             UNCHANGED <<tabs, desk, seen, shelf, now, put>>
      PROVE  PagesInv'
  <2>1. (book \in [OrderIds -> Order \cup {None}])' /\ Known \subseteq Known' /\ Stocked' = Stocked
    BY <1>1, <1>2, ShelfIs DEF Known, Stocked
  <2>2. \A x \in Operators : FormInv(tabs[x], put'[x], shelf'[tabs[x].subject])
    BY <1>2, OthersForms
  <2>3. /\ (shelf \in [ProductIds -> Product \cup {None}])'
        /\ (now \in 0..MaxTime)' /\ (put \in [Operators -> Put])'
    BY <1>1, <1>2 DEF TypeInv
  <2> QED BY <1>2, <2>1, <2>2, <2>3, TabsStay
<1>3. ASSUME UNCHANGED <<tabs, desk, seen, book, shelf, put>>, (now \in 0..MaxTime)'
      PROVE  PagesInv'
  BY <1>3 DEF PagesInv, TypeInv, OneInv, FormsInv, Known, Stocked
<1>4. ASSUME Tick
      PROVE  PagesInv'
  <2>1. (now \in 0..MaxTime)'
    BY <1>1, <1>4, AdminAssumption DEF Tick
  <2> QED BY <1>3, <1>4, <2>1 DEF Tick, Meanwhile, history
<1>5. ASSUME NEW o \in OrderIds, OrderComes(o)
      PROVE  PagesInv'
  <2>1. PICK order : order = [created |-> now, status |-> "pending", fulfilment |-> FulfilmentNone]
    OBVIOUS
  <2>2. order \in Order
    BY <1>1, <2>1 DEF Order, Status, Fulfilment
  <2> QED BY <1>2, <1>5, <2>1, <2>2 DEF OrderComes, Meanwhile, history
<1>6. ASSUME NEW o \in OrderIds, OrderSettles(o)
      PROVE  PagesInv'
  <2>1. PICK s \in {"placed", "expired"} : book' = [book EXCEPT ![o].status = s]
    BY <1>6 DEF OrderSettles
  <2>2. PICK order : order = [book[o] EXCEPT !.status = s]
    OBVIOUS
  <2>3. book[o] \in Order
    BY <1>1, <1>6, ShelfIs DEF OrderSettles
  <2>4. order \in Order /\ book' = [book EXCEPT ![o] = order]
    BY <2>1, <2>2, <2>3 DEF Order, Status
  <2> QED BY <1>2, <1>6, <2>4 DEF OrderSettles, Meanwhile
<1>7. ASSUME NEW p \in ProductIds, StockMoves(p)
      PROVE  PagesInv'
  <2>1. PICK n \in 0..MaxStock : shelf' = [shelf EXCEPT ![p].stock = n]
    BY <1>7 DEF StockMoves
  <2>2. PICK product : product = [shelf[p] EXCEPT !.stock = n]
    OBVIOUS
  <2>3. shelf[p] \in Product /\ p \in Stocked
    BY <1>1, <1>7, ShelfIs DEF StockMoves, Stocked
  <2>4. product \in Product /\ shelf' = [shelf EXCEPT ![p] = product]
    BY <2>1, <2>2, <2>3 DEF Product, Form, Valid
  <2>5. /\ (shelf \in [ProductIds -> Product \cup {None}])' /\ Stocked' = Stocked
        /\ \A q \in Stocked \ {p} : shelf'[q].stock = shelf[q].stock
    BY <1>1, <2>3, <2>4, ShelfIs DEF Stocked
  <2>6. put' = Moved(p) /\ UNCHANGED <<tabs, desk, seen, book, now>>
    BY <1>7 DEF StockMoves, Meanwhile
  <2>7. \A x \in Operators : FormInv(tabs[x], put'[x], shelf'[tabs[x].subject])
    BY <2>5, <2>6, MovedForms
  <2>8. (put \in [Operators -> Put])'
    BY <1>1, <2>6, MovedIs
  <2>9. Known' = Known /\ (book \in [OrderIds -> Order \cup {None}])' /\ (now \in 0..MaxTime)'
    BY <1>1, <2>6 DEF Known, TypeInv
  <2> QED BY <2>5, <2>6, <2>7, <2>8, <2>9, TabsStay
<1>8. ASSUME NEW op \in Operators, SessionLapses(op)
      PROVE  PagesInv'
  BY <1>1, <1>3, <1>8 DEF SessionLapses, Meanwhile, history
<1> QED BY <1>4, <1>5, <1>6, <1>7, <1>8 DEF World

-----------------------------------------------------------------------------
(* Every behaviour.                                                        *)

LEMMA PagesNext ==
  ASSUME PagesInv, [Next]_vars
  PROVE  PagesInv'
<1>1. desk.crew \subseteq Operators
  BY DesksAssumption DEF PagesInv, TypeInv
<1>2. CASE UNCHANGED vars
  BY <1>2 DEF vars, server, history, PagesInv, TypeInv, OneInv, FormsInv, Known, Stocked
<1>3. CASE \E op \in desk.crew : Clicks(op)
  BY <1>1, <1>3, ClicksStep
<1>4. CASE World
  BY <1>4, WorldStep
<1>5. CASE \E op \in Operators, i \in Slots : Serve(op, i) \/ Lose(op, i) \/ Hear(op, i)
  BY <1>5, ServeStep, LoseStep, HearStep
<1> QED BY <1>2, <1>3, <1>4, <1>5 DEF Next

\* The tab an operator comes with, before it opens the page of the desk.
Empty(token) ==
  [route |-> "login", ready |-> FALSE, token |-> token, subject |-> None, view |-> Blank,
   calls |-> [i \in Slots |-> None]]

LEMMA EmptyTab ==
  ASSUME NEW K, NEW P, NEW token \in BOOLEAN
  PROVE  GoodTab(Empty(token), K, P) /\ Empty(token).token = token
<1>1. PICK no \in BOOLEAN : no = FALSE
  OBVIOUS
<1>2. PICK c : c = Empty(token)
  OBVIOUS
<1>3. PICK none : none = [i \in Slots |-> None]
  OBVIOUS
<1>4. c = [route |-> "login", ready |-> no, token |-> token, subject |-> None, view |-> Blank,
           calls |-> none]
  BY <1>1, <1>2, <1>3 DEF Empty
<1>5. Shape(c) /\ c.route = "login" /\ c.ready = no /\ c.token = token /\ c.view = Blank
      /\ \A i \in Slots : c.calls[i] = None
  BY <1>3, <1>4 DEF Shape
<1>6. c.view \in Views(K) /\ "login" \in Route
  BY <1>5, BlankView DEF Route
<1> QED BY <1>2, <1>5, <1>6 DEF GoodTab

LEMMA PagesInit ==
  ASSUME Init
  PROVE  PagesInv
<1>1. PICK K, P : K = Known /\ P = Stocked
  OBVIOUS
<1>2. /\ desk \in Desks /\ book = desk.book /\ shelf = desk.shelf /\ now = desk.now
      /\ put = [op \in Operators |-> NoPut]
      /\ tabs = [op \in Operators |-> Mount(Empty(op \in desk.crew), desk.route, desk.subject)]
  BY DEF Init, Empty
<1>3. /\ book \in [OrderIds -> Order \cup {None}] /\ shelf \in [ProductIds -> Product \cup {None}]
      /\ now \in 0..MaxTime
      /\ Target(desk.route, desk.subject, K, P)
  <2>1. /\ desk.book \in [OrderIds -> Order \cup {None}]
        /\ desk.shelf \in [ProductIds -> Product \cup {None}] /\ desk.now \in 0..MaxTime
    BY <1>2, DesksAssumption
  <2>2. \/ desk.route \in {"login", "orders", "products", "new"}
        \/ desk.route = "order" /\ desk.subject \in K
        \/ desk.route = "product" /\ desk.subject \in P
    BY <1>1, <1>2, DesksAssumption DEF Known, Stocked
  <2> QED BY <1>2, <2>1, <2>2 DEF Target, Route
<1>4. ASSUME NEW op \in Operators
      PROVE  GoodTab(tabs[op], K, P) /\ OneAtATime(tabs[op], seen) /\ FormInv(tabs[op], put[op], shelf[tabs[op].subject])
  <2>1. PICK token : token = (op \in desk.crew)
    OBVIOUS
  <2>7. token \in BOOLEAN
    BY <2>1
  <2>2. PICK c : c = Empty(token)
    OBVIOUS
  <2>3. GoodTab(c, K, P)
    BY <2>2, <2>7, EmptyTab
  <2>4. tabs[op] = Mount(c, desk.route, desk.subject)
    BY <1>2, <2>1, <2>2
  <2>5. PICK d : d = Mount(c, desk.route, desk.subject)
    OBVIOUS
  <2>6. GoodTab(d, K, P) /\ OneAtATime(d, seen) /\ Fresh(d)
    BY <1>3, <2>3, <2>5, GoodMount, OneMount, FreshMount
  <2> QED BY <2>4, <2>5, <2>6, FormFresh
<1>5. tabs = [op \in Operators |-> tabs[op]]
  BY <1>2
<1>6. put \in [Operators -> Put]
  <2>1. NoPut \in Put
    <3>1. PICK no \in BOOLEAN : no = FALSE
      OBVIOUS
    <3>2. NoPut = [stock |-> None, active |-> None, added |-> {}, removed |-> {}, moved |-> no,
                   late |-> no]
      BY <3>1 DEF NoPut
    <3> QED BY <3>2 DEF Put
  <2> QED BY <1>2, <2>1
<1> QED BY <1>1, <1>2, <1>3, <1>4, <1>5, <1>6 DEF PagesInv, TypeInv, OneInv, FormsInv

(* On every page of every operator the state has its type, the calls under   *)
(* way are those the page waits for, one of a kind at a time, and the form   *)
(* has what its operator did to it and else what the product has.            *)
THEOREM PagesStayGood == Spec => []PagesInv
<1>1. Init => PagesInv
  BY PagesInit
<1>2. PagesInv /\ [Next]_vars => PagesInv'
  BY PagesNext
<1> QED BY <1>1, <1>2, PTL DEF Spec

=============================================================================
