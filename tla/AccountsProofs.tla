--------------------------- MODULE AccountsProofs ---------------------------
(***************************************************************************)
(* The accounts, for every value of the constants: whatever requests       *)
(* overlap or fail, a number keeps its account, a code opens one session,  *)
(* the guesses stay bounded and every address book has one default.        *)
(***************************************************************************)
EXTENDS Accounts, FiniteSetTheorems, TLAPS

\* No id twice, and only ids handed out so far.
DistinctIds(book, ids) ==
  /\ \A i, j \in DOMAIN book : book[i].id = book[j].id => i = j
  /\ \A i \in DOMAIN book : book[i].id \in ids

\* A book an edit may write.
ValidBook(book, ids) == OneDefault(book) /\ DistinctIds(book, ids)

\* What a request knows at each of its steps.
Upserting == {"touch", "migrate", "reread", "insert"}

GoodRequest ==
  {req \in Request :
     /\ req.at \notin {"idle", "write"} => req.phone \in Phones
     /\ req.at \in {"migrate", "reread"} => req.phone \in Numbers /\ Legacy[req.phone] # NoPhone
     /\ req.at \in {"send", "miss", "consume"} => req.code \in Codes
     /\ req.at = "write" => req.user \in Users}

TypeInv == TypeOK /\ call \in [Calls -> GoodRequest]

\* A list in flight is as good as the ones in the store.
BooksInv ==
  /\ \A u \in Users : ValidBook(users[u].addresses, made)
  /\ \A p \in Calls : call[p].at = "write" => ValidBook(call[p].next, made)

\* One document per phone; an old account is where the old form or the new one
\* leads; a request that is about to insert has seen that no old form is left.
AccountsInv ==
  /\ \A u, v \in Users : Exists(u) /\ users[u].phone = users[v].phone => u = v
  /\ \A n \in Numbers : OldAccount[n] # NoUser =>
       /\ users[OldAccount[n]].phone \in {Legacy[n], n}
       /\ \A u \in Users : users[u].phone = n => u = OldAccount[n]
  /\ \A s \in signedIn : s.number \in Numbers =>
       /\ users[s.user].phone = s.number
       /\ OldAccount[s.number] \in {s.user, NoUser}
  /\ \A p \in Calls :
       call[p].at = "insert" /\ call[p].phone \in Numbers
            /\ OldAccount[call[p].phone] # NoUser =>
         users[OldAccount[call[p].phone]].phone = call[p].phone

\* p has spent code c and its session is not issued yet.
Redeeming(p, c) == call[p].at \in Upserting /\ call[p].code = c

CodesInv ==
  \A c \in Codes :
    /\ opened[c] <= 1
    /\ opened[c] = 1 => codes[c].consumed
    /\ \A p \in Calls : Redeeming(p, c) => codes[c].consumed /\ opened[c] = 0
    /\ \A p, q \in Calls : Redeeming(p, c) /\ Redeeming(q, c) => p = q

Missing(c) == {p \in Calls : call[p].at = "miss" /\ call[p].code = c}

GuessesInv ==
  \A c \in Codes :
    codes[c].attempts + Cardinality(Missing(c)) < MaxAttempts + Cardinality(Calls)

-----------------------------------------------------------------------------
(* What the edits of a book return.                                        *)

LEMMA FlaggedIsBook ==
  ASSUME NEW book \in Book, NEW at
  PROVE  /\ Flagged(book, at) \in Book
         /\ DOMAIN Flagged(book, at) = DOMAIN book
         /\ \A i \in DOMAIN book : /\ Flagged(book, at)[i].id = book[i].id
                                   /\ Flagged(book, at)[i].isDefault <=> i \in at
<1> DEFINE f == [i \in DOMAIN book |-> [id |-> book[i].id, isDefault |-> i \in at]]
<1>1. DOMAIN book = 1..Len(book) /\ Len(book) \in Nat
  BY DEF Book
<1> HIDE DEF f
<1>2. \A i \in 1..Len(book) : book[i].id \in Addresses
  <2>1. \A i \in 1..Len(book) : book[i] \in Entry
    BY DEF Book
  <2> QED BY <2>1 DEF Entry
<1> USE DEF f
<1>3. \A i \in 1..Len(book) : [id |-> book[i].id, isDefault |-> i \in at] \in Entry
  BY <1>2 DEF Entry
<1>4. f \in [1..Len(book) -> Entry]
  BY <1>1, <1>3
<1>5. f \in Seq(Entry)
  BY <1>1, <1>4
<1>6. \A i \in DOMAIN book : f[i].id = book[i].id /\ (f[i].isDefault <=> i \in at)
  OBVIOUS
<1> QED BY <1>5, <1>6 DEF Flagged, Book

LEMMA ApplyDefaultIsBook ==
  ASSUME NEW book \in Book, NEW id, NEW makeDefault \in BOOLEAN
  PROVE  ApplyDefault(book, id, makeDefault) \in Book
BY FlaggedIsBook DEF ApplyDefault, PromoteFirst

LEMMA AddedIsBook ==
  ASSUME NEW book \in Book, NEW a \in Addresses, NEW isDefault \in BOOLEAN
  PROVE  Added(book, a, isDefault) \in Book
<1> DEFINE default == isDefault \/ Len(book) = 0
<1>1. [id |-> a, isDefault |-> default] \in Entry
  BY DEF Entry
<1>2. Append(book, [id |-> a, isDefault |-> default]) \in Book
  BY <1>1 DEF Book
<1> QED BY <1>2, ApplyDefaultIsBook DEF Added

LEMMA UpdatedIsBook ==
  ASSUME NEW book \in Book, NEW i \in DOMAIN book, NEW isDefault \in BOOLEAN
  PROVE  Updated(book, i, isDefault) \in Book
<1>1. book[i].isDefault \in BOOLEAN
  <2>1. book[i] \in Entry
    BY DEF Book
  <2> QED BY <2>1 DEF Entry
<1> QED BY <1>1, FlaggedIsBook, ApplyDefaultIsBook DEF Updated

\* RemoveAt, as a function.
LEMMA RemoveAtDef ==
  ASSUME NEW book \in Book, NEW i \in DOMAIN book
  PROVE  /\ RemoveAt(book, i) \in Book
         /\ Len(RemoveAt(book, i)) = Len(book) - 1
         /\ \A j \in 1..(Len(book) - 1) :
              RemoveAt(book, i)[j] = IF j < i THEN book[j] ELSE book[j + 1]
<1> DEFINE left == SubSeq(book, 1, i - 1)
           right == SubSeq(book, i + 1, Len(book))
<1>0. i \in 1..Len(book) /\ Len(book) \in Nat
  BY DEF Book
<1>1. /\ left \in Seq(Entry) /\ Len(left) = i - 1
      /\ \A j \in 1..(i - 1) : left[j] = book[j]
  BY <1>0 DEF Book
<1>2. /\ right \in Seq(Entry) /\ Len(right) = Len(book) - i
      /\ \A j \in 1..(Len(book) - i) : right[j] = book[i + j]
  BY <1>0 DEF Book
<1>3. RemoveAt(book, i) = left \o right
  BY DEF RemoveAt
<1> HIDE DEF left, right
<1>4. left \o right \in Seq(Entry) /\ Len(left \o right) = Len(book) - 1
  BY <1>0, <1>1, <1>2
<1>5. \A j \in 1..(Len(book) - 1) :
        (left \o right)[j] = IF j < i THEN left[j] ELSE right[j - (i - 1)]
  BY <1>0, <1>1, <1>2
<1>6. \A j \in 1..(Len(book) - 1) : j >= i => j - (i - 1) \in 1..(Len(book) - i)
  BY <1>0
<1>7. \A j \in 1..(Len(book) - 1) : j >= i => right[j - (i - 1)] = book[j + 1]
  <2> SUFFICES ASSUME NEW j \in 1..(Len(book) - 1), j >= i
               PROVE  right[j - (i - 1)] = book[j + 1]
    OBVIOUS
  <2>1. right[j - (i - 1)] = book[i + (j - (i - 1))]
    BY <1>2, <1>6
  <2>2. i + (j - (i - 1)) = j + 1
    BY <1>0
  <2> QED BY <2>1, <2>2
<1>8. \A j \in 1..(Len(book) - 1) : j < i => j \in 1..(i - 1)
  BY <1>0
<1>9. \A j \in 1..(Len(book) - 1) :
        (left \o right)[j] = IF j < i THEN book[j] ELSE book[j + 1]
  <2> SUFFICES ASSUME NEW j \in 1..(Len(book) - 1)
               PROVE  (left \o right)[j] = IF j < i THEN book[j] ELSE book[j + 1]
    OBVIOUS
  <2>1. CASE j < i
    BY <2>1, <1>1, <1>5, <1>8
  <2>2. CASE ~(j < i)
    <3>1. j >= i
      BY <1>0, <2>2
    <3> QED BY <2>2, <3>1, <1>5, <1>7
  <2> QED BY <2>1, <2>2
<1> QED BY <1>3, <1>4, <1>9 DEF Book

LEMMA DeletedIsBook ==
  ASSUME NEW book \in Book, NEW i \in DOMAIN book
  PROVE  Deleted(book, i) \in Book
BY RemoveAtDef, FlaggedIsBook DEF Deleted, PromoteFirst

\* Each list an edit computes from a valid one is valid.
LEMMA FlaggedIsValid ==
  ASSUME NEW book \in Book, NEW ids, DistinctIds(book, ids), NEW at
  PROVE  /\ DistinctIds(Flagged(book, at), ids)
         /\ \A k \in DOMAIN book : (\A i \in DOMAIN book : i \in at <=> i = k)
              => OneDefault(Flagged(book, at))
<1> DEFINE f == Flagged(book, at)
<1>1. DOMAIN f = DOMAIN book
  BY FlaggedIsBook
<1>2. \A i \in DOMAIN book : f[i].id = book[i].id /\ (f[i].isDefault <=> i \in at)
  BY FlaggedIsBook
<1> HIDE DEF f
<1>3. DistinctIds(f, ids)
  BY <1>1, <1>2 DEF DistinctIds
<1>4. ASSUME NEW k \in DOMAIN book, \A i \in DOMAIN book : i \in at <=> i = k
      PROVE  OneDefault(f)
  BY <1>1, <1>2, <1>4 DEF OneDefault
<1> QED BY <1>3, <1>4 DEF f

LEMMA ApplyDefaultIsValid ==
  ASSUME NEW book \in Book, NEW ids, DistinctIds(book, ids), NEW id, NEW makeDefault \in BOOLEAN,
         makeDefault => \E k \in DOMAIN book : book[k].id = id,
         ~makeDefault => Defaults(book) = {} \/ OneDefault(book)
  PROVE  ValidBook(ApplyDefault(book, id, makeDefault), ids)
<1>1. CASE makeDefault
  <2>1. PICK k \in DOMAIN book : book[k].id = id
    BY <1>1
  <2> DEFINE at == {i \in DOMAIN book : book[i].id = id}
  <2>2. \A i \in DOMAIN book : i \in at <=> i = k
    BY <2>1 DEF DistinctIds
  <2>3. ApplyDefault(book, id, makeDefault) = Flagged(book, at)
    BY <1>1 DEF ApplyDefault
  <2> HIDE DEF at
  <2> QED BY <2>2, <2>3, FlaggedIsValid DEF ValidBook
<1>2. CASE ~makeDefault /\ Defaults(book) # {}
  BY <1>2 DEF ApplyDefault, PromoteFirst, ValidBook
<1>3. CASE ~makeDefault /\ Defaults(book) = {}
  <2>1. ApplyDefault(book, id, makeDefault) = Flagged(book, {1})
    BY <1>3 DEF ApplyDefault, PromoteFirst
  <2>2. DOMAIN book = 1..Len(book) /\ Len(book) \in Nat
    BY DEF Book
  <2>3. CASE Len(book) = 0
    <3>1. DOMAIN Flagged(book, {1}) = {}
      BY <2>2, <2>3, FlaggedIsBook
    <3> QED BY <2>1, <3>1, FlaggedIsValid DEF ValidBook, OneDefault
  <2>4. CASE Len(book) # 0
    <3>1. 1 \in DOMAIN book /\ \A i \in DOMAIN book : i \in {1} <=> i = 1
      BY <2>2, <2>4
    <3> QED BY <2>1, <3>1, FlaggedIsValid DEF ValidBook
  <2> QED BY <2>3, <2>4
<1> QED BY <1>1, <1>2, <1>3

LEMMA AddedIsValid ==
  ASSUME NEW book \in Book, NEW ids, ValidBook(book, ids),
         NEW a \in Addresses, a \notin ids, NEW isDefault \in BOOLEAN
  PROVE  ValidBook(Added(book, a, isDefault), ids \cup {a})
<1> DEFINE default == isDefault \/ Len(book) = 0
           e == [id |-> a, isDefault |-> default]
           longer == Append(book, e)
<1>1. e \in Entry /\ e.id = a /\ (e.isDefault <=> default)
  BY DEF Entry
<1>2. /\ longer \in Book /\ DOMAIN longer = 1..(Len(book) + 1)
      /\ DOMAIN book = 1..Len(book) /\ Len(book) \in Nat
      /\ longer[Len(book) + 1] = e
      /\ \A i \in 1..Len(book) : longer[i] = book[i]
  BY <1>1 DEF Book
<1> HIDE DEF e, longer
<1>3. DistinctIds(longer, ids \cup {a})
  <2>1. \A i \in 1..Len(book) : book[i].id \in ids
    BY <1>2 DEF ValidBook, DistinctIds
  <2>2. \A i \in DOMAIN longer : i \in 1..Len(book) \/ i = Len(book) + 1
    BY <1>2
  <2> QED BY <1>1, <1>2, <2>1, <2>2 DEF ValidBook, DistinctIds
<1>4. default => \E k \in DOMAIN longer : longer[k].id = a
  BY <1>1, <1>2
<1>5. ~default => OneDefault(longer)
  <2>1. SUFFICES ASSUME ~default PROVE OneDefault(longer)
    OBVIOUS
  <2>2. PICK i \in DOMAIN book : \A j \in DOMAIN book : book[j].isDefault <=> j = i
    <3>1. DOMAIN book # {}
      BY <1>2, <2>1
    <3> QED BY <3>1 DEF ValidBook, OneDefault
  <2>3. \A j \in DOMAIN longer : longer[j].isDefault <=> j = i
    <3>1. \A j \in DOMAIN longer : j \in DOMAIN book \/ j = Len(book) + 1
      BY <1>2
    <3> QED BY <1>1, <1>2, <2>1, <2>2, <3>1
  <2> QED BY <1>2, <2>2, <2>3 DEF OneDefault
<1>6. Added(book, a, isDefault) = ApplyDefault(longer, a, default)
  BY DEF Added, longer, e
<1> HIDE DEF default
<1>7. default \in BOOLEAN
  BY DEF default
<1> QED BY <1>2, <1>3, <1>4, <1>5, <1>6, <1>7, ApplyDefaultIsValid

LEMMA UpdatedIsValid ==
  ASSUME NEW book \in Book, NEW ids, ValidBook(book, ids),
         NEW k \in DOMAIN book, NEW isDefault \in BOOLEAN
  PROVE  ValidBook(Updated(book, k, isDefault), ids)
<1> DEFINE keeps == Defaults(book) \ {k}
           at == IF isDefault THEN keeps \cup {k} ELSE keeps
           new == Flagged(book, at)
           default == isDefault \/ book[k].isDefault
<1>1. Updated(book, k, isDefault) = ApplyDefault(new, book[k].id, default)
  BY DEF Updated
<1>2. /\ new \in Book /\ DOMAIN new = DOMAIN book
      /\ \A i \in DOMAIN book : new[i].id = book[i].id
  <2> HIDE DEF at
  <2> QED BY FlaggedIsBook
<1>3. DistinctIds(new, ids)
  <2> HIDE DEF at
  <2> QED BY FlaggedIsValid DEF ValidBook
<1>4. ~default => OneDefault(new)
  <2>1. SUFFICES ASSUME ~default PROVE OneDefault(new)
    OBVIOUS
  <2>2. PICK i \in DOMAIN book : \A j \in DOMAIN book : book[j].isDefault <=> j = i
    BY DEF ValidBook, OneDefault
  <2>3. \A j \in DOMAIN book : j \in at <=> j = i
    BY <2>1, <2>2 DEF Defaults
  <2> HIDE DEF at
  <2> QED BY <2>2, <2>3, FlaggedIsValid DEF ValidBook
<1>5. default \in BOOLEAN
  <2>1. book[k] \in Entry
    BY DEF Book
  <2> QED BY <2>1 DEF Entry
<1> HIDE DEF new, default
<1> QED BY <1>1, <1>2, <1>3, <1>4, <1>5, ApplyDefaultIsValid

LEMMA DeletedIsValid ==
  ASSUME NEW book \in Book, NEW ids, ValidBook(book, ids), NEW k \in DOMAIN book
  PROVE  ValidBook(Deleted(book, k), ids)
<1> DEFINE rest == RemoveAt(book, k)
<1>1. DOMAIN book = 1..Len(book) /\ Len(book) \in Nat /\ k \in 1..Len(book)
  BY DEF Book
<1>2. rest \in Book /\ DOMAIN rest = 1..(Len(book) - 1)
  BY <1>1, RemoveAtDef DEF Book
<1>3. \A j \in DOMAIN rest : rest[j] = book[IF j < k THEN j ELSE j + 1]
  BY <1>1, <1>2, RemoveAtDef
<1> HIDE DEF rest
<1>4. \A j \in DOMAIN rest : (IF j < k THEN j ELSE j + 1) \in DOMAIN book
  BY <1>1, <1>2
<1>5. DistinctIds(rest, ids)
  <2>1. \A i, j \in DOMAIN rest :
          (IF i < k THEN i ELSE i + 1) = (IF j < k THEN j ELSE j + 1) => i = j
    BY <1>1, <1>2
  <2> QED BY <1>3, <1>4, <2>1 DEF ValidBook, DistinctIds
<1>6. Defaults(rest) = {} \/ OneDefault(rest)
  <2>1. SUFFICES ASSUME NEW i \in DOMAIN rest, rest[i].isDefault
                 PROVE  OneDefault(rest)
    BY DEF Defaults
  <2>2. \A j \in DOMAIN rest : rest[j].isDefault <=> j = i
    <3>1. PICK d \in DOMAIN book : \A j \in DOMAIN book : book[j].isDefault <=> j = d
      BY <1>1 DEF ValidBook, OneDefault
    <3>2. \A j \in DOMAIN rest : rest[j].isDefault <=> (IF j < k THEN j ELSE j + 1) = d
      BY <1>3, <1>4, <3>1
    <3> QED BY <1>1, <1>2, <2>1, <3>2
  <2> QED BY <2>1, <2>2 DEF OneDefault
<1>7. Deleted(book, k) = ApplyDefault(rest, 0, FALSE)
  BY DEF Deleted, ApplyDefault, rest
<1> QED BY <1>2, <1>5, <1>6, <1>7, ApplyDefaultIsValid

-----------------------------------------------------------------------------
(* Types.                                                                  *)

LEMMA EmptyBook == << >> \in Book /\ ValidBook(<< >>, made)
<1>1. << >> \in Book /\ DOMAIN << >> = {}
  BY DEF Book
<1> QED BY <1>1 DEF ValidBook, OneDefault, DistinctIds

LEMMA RequestTypes ==
  /\ NoRequest \in GoodRequest
  /\ \A phone \in Phones, t \in Nat :
       [NoRequest EXCEPT !.at = "latest", !.phone = phone, !.now = t] \in GoodRequest
  /\ \A at \in {"consume", "miss"}, phone \in Phones, c \in Codes :
       [NoRequest EXCEPT !.at = at, !.phone = phone, !.code = c] \in GoodRequest
  /\ \A phone \in Phones : [NoRequest EXCEPT !.at = "touch", !.phone = phone] \in GoodRequest
  /\ \A u \in Users, book \in Book :
       [NoRequest EXCEPT !.at = "write", !.user = u, !.next = book] \in GoodRequest
<1>1. NoRequest \in GoodRequest
  BY EmptyBook DEF NoRequest, GoodRequest, Request, Step, Upserting
<1>2. ASSUME NEW phone \in Phones, NEW t \in Nat
      PROVE  [NoRequest EXCEPT !.at = "latest", !.phone = phone, !.now = t] \in GoodRequest
  BY <1>1 DEF NoRequest, GoodRequest, Request, Step, Upserting
<1>3. ASSUME NEW at \in {"consume", "miss"}, NEW phone \in Phones, NEW c \in Codes
      PROVE  [NoRequest EXCEPT !.at = at, !.phone = phone, !.code = c] \in GoodRequest
  BY <1>1 DEF NoRequest, GoodRequest, Request, Step, Upserting
<1>4. ASSUME NEW phone \in Phones
      PROVE  [NoRequest EXCEPT !.at = "touch", !.phone = phone] \in GoodRequest
  BY <1>1 DEF NoRequest, GoodRequest, Request, Step, Upserting
<1>5. ASSUME NEW u \in Users, NEW book \in Book
      PROVE  [NoRequest EXCEPT !.at = "write", !.user = u, !.next = book] \in GoodRequest
  BY <1>1 DEF NoRequest, GoodRequest, Request, Step, Upserting
<1> QED BY <1>1, <1>2, <1>3, <1>4, <1>5

LEMMA CallTypes ==
  ASSUME call \in [Calls -> GoodRequest], NEW p \in Calls
  PROVE  /\ End(p) => call' \in [Calls -> GoodRequest]
         /\ \A req \in GoodRequest : Begin(p, req) => call' \in [Calls -> GoodRequest]
         /\ \A at \in Step : [call[p] EXCEPT !.at = at] \in GoodRequest /\ Goto(p, at)
              => call' \in [Calls -> GoodRequest]
BY RequestTypes DEF End, Goto, Begin

LEMMA InitTypes == Init => TypeInv
<1> SUFFICES ASSUME Init PROVE TypeInv
  OBVIOUS
<1> USE DEF Init, StoreInit
<1>1. users \in [Users -> User]
  <2>2. NoDocument \in User
    BY EmptyBook DEF NoDocument, User
  <2>3. \A n \in Numbers : [phone |-> Legacy[n], addresses |-> << >>] \in User
    BY EmptyBook, UserStoreAssumption DEF User, Phones
  <2> QED BY <2>2, <2>3
<1>2. UnusedCode \in OTPCode
  BY DEF UnusedCode, OTPCode
<1>3. NoRequest \in GoodRequest /\ GoodRequest \subseteq Request
  BY RequestTypes DEF GoodRequest
<1> QED BY <1>1, <1>2, <1>3 DEF TypeOK, TypeInv

LEMMA IssueTypes ==
  ASSUME TypeInv, NEW p \in Calls, call[p].phone \in Phones, NEW u \in Users, Issue(p, u)
  PROVE  /\ call' \in [Calls -> GoodRequest]
         /\ signedIn' \subseteq [number : Phones, user : Users]
         /\ opened' \in [Codes -> Nat]
<1>1. call[p] \in Request
  BY DEF TypeOK, TypeInv
<1>2. call[p].code \in Codes \cup {NoCode}
  BY <1>1 DEF Request
<1>3. opened' \in [Codes -> Nat]
  <2>1. CASE call[p].code = NoCode
    BY <2>1 DEF TypeOK, TypeInv, Issue
  <2>2. CASE call[p].code \in Codes
    BY <2>2, UserStoreAssumption DEF TypeOK, TypeInv, Issue
  <2> QED BY <1>2, <2>1, <2>2
<1>4. call' \in [Calls -> GoodRequest]
  BY CallTypes DEF TypeInv, Issue
<1>5. signedIn' \subseteq [number : Phones, user : Users]
  BY DEF TypeOK, TypeInv, Issue
<1> QED BY <1>3, <1>4, <1>5

LEMMA SigningInTypes ==
  ASSUME TypeInv, NEW p \in Calls, SigningIn(p)
  PROVE  TypeInv'
<1> USE DEF store, history
<1>0. /\ users \in [Users -> User] /\ codes \in [Codes -> OTPCode]
      /\ call \in [Calls -> GoodRequest] /\ now \in Nat
      /\ signedIn \subseteq [number : Phones, user : Users]
      /\ opened \in [Codes -> Nat] /\ made \subseteq Addresses
      /\ GoodRequest \subseteq Request
      /\ UNCHANGED <<now, made>>
  BY DEF TypeInv, TypeOK, GoodRequest, SigningIn
<1>a. SUFFICES /\ users' \in [Users -> User] /\ codes' \in [Codes -> OTPCode]
               /\ call' \in [Calls -> GoodRequest]
               /\ signedIn' \subseteq [number : Phones, user : Users]
               /\ opened' \in [Codes -> Nat]
  BY <1>0 DEF TypeInv, TypeOK
<1>b. /\ call[p] \in GoodRequest /\ call[p] \in Request
  BY <1>0
<1>c. /\ call[p].at \notin {"idle", "write"} => call[p].phone \in Phones
      /\ call[p].at \in {"send", "miss", "consume"} => call[p].code \in Codes
      /\ call[p].at = "write" => call[p].user \in Users
  BY <1>b DEF GoodRequest
<1>1. CASE AskForCode(p)
  BY <1>0, <1>1, CallTypes, RequestTypes DEF AskForCode, RequestCode
<1>2. CASE ResendAllowed(p)
  <2>1. call[p].at = "latest" /\ Goto(p, "create") /\ UNCHANGED <<store, history>>
    BY <1>2 DEF ResendAllowed
  <2>2. [call[p] EXCEPT !.at = "create"] \in GoodRequest
    BY <1>b, <2>1 DEF GoodRequest, Request, Step, Upserting
  <2> QED BY <1>0, <2>1, <2>2, CallTypes DEF Step
<1>3. CASE CreateCode(p)
  <2>1. PICK c \in Codes :
          /\ codes' = [codes EXCEPT ![c].state = "stored", ![c].phone = call[p].phone,
                                    ![c].createdAt = call[p].now]
          /\ call' = [call EXCEPT ![p].at = "send", ![p].code = c]
    BY <1>3 DEF CreateCode
  <2>2. call[p].at = "create" /\ UNCHANGED <<users, history>>
    BY <1>3 DEF CreateCode
  <2>3. [call[p] EXCEPT !.at = "send", !.code = c] \in GoodRequest
    BY <1>b, <2>2 DEF GoodRequest, Request, Step, Upserting
  <2>4. call' \in [Calls -> GoodRequest]
    BY <1>0, <2>1, <2>3
  <2>5. call[p].phone \in Phones /\ call[p].now \in Nat
    BY <1>b, <1>c, <2>2 DEF Request
  <2>6. codes' \in [Codes -> OTPCode]
    <3>1. [codes[c] EXCEPT !.state = "stored", !.phone = call[p].phone,
                           !.createdAt = call[p].now] \in OTPCode
      BY <1>0, <2>5 DEF OTPCode
    <3> QED BY <1>0, <2>1, <3>1
  <2> QED BY <1>0, <2>2, <2>4, <2>6
<1>4. CASE Send(p)
  <2>1. codes' \in [Codes -> OTPCode]
    BY <1>0, <1>4 DEF Send, OTPCode
  <2> QED BY <1>0, <1>4, <2>1, CallTypes DEF Send
<1>5. CASE TypeCode(p)
  BY <1>0, <1>5, CallTypes, RequestTypes DEF TypeCode, Verify, Latest, Of
<1>6. CASE RecordFailedAttempt(p)
  <2>1. codes' \in [Codes -> OTPCode]
    <3> DEFINE c == call[p].code
    <3>1. c \in Codes
      BY <1>c, <1>6 DEF RecordFailedAttempt
    <3>2. codes' = codes \/ codes' = [codes EXCEPT ![c].attempts = @ + 1]
      BY <1>0, <1>6, <3>1 DEF RecordFailedAttempt, OTPCode
    <3>3. [codes[c] EXCEPT !.attempts = @ + 1] \in OTPCode
      BY <1>0, <3>1 DEF OTPCode
    <3> QED BY <1>0, <3>1, <3>2, <3>3
  <2> QED BY <1>0, <1>6, <2>1, CallTypes DEF RecordFailedAttempt
<1>7. CASE ConsumeCode(p)
  <2>0. call[p].at = "consume" /\ UNCHANGED <<users, history>>
    BY <1>7 DEF ConsumeCode
  <2>1. CASE End(p) /\ UNCHANGED codes
    BY <1>0, <2>0, <2>1, CallTypes
  <2>2. CASE codes' = [codes EXCEPT ![call[p].code].consumed = TRUE] /\ Goto(p, "touch")
    <3>1. codes' \in [Codes -> OTPCode]
      BY <1>0, <2>2 DEF OTPCode
    <3>2. [call[p] EXCEPT !.at = "touch"] \in GoodRequest
      BY <1>b, <2>0 DEF GoodRequest, Request, Step, Upserting
    <3> QED BY <1>0, <2>0, <2>2, <3>1, <3>2, CallTypes DEF Step
  <2> QED BY <1>7, <2>1, <2>2 DEF ConsumeCode
<1>8. CASE ExchangeToken(p)
  BY <1>0, <1>8, CallTypes, RequestTypes DEF ExchangeToken, CreateSession, Phones
<1>9. CASE TouchUser(p)
  <2>0. call[p].at \in {"touch", "reread"} /\ call[p].phone \in Phones /\ UNCHANGED store
    BY <1>9, <1>c DEF TouchUser
  <2>1. CASE \E u \in Users : Issue(p, u)
    BY <1>0, <2>0, <2>1, IssueTypes
  <2>2. CASE End(p) /\ UNCHANGED history
    BY <1>0, <2>0, <2>2, CallTypes
  <2>3. CASE /\ call[p].phone \in Numbers /\ Legacy[call[p].phone] # NoPhone
             /\ Goto(p, "migrate") /\ UNCHANGED history
    <3>1. [call[p] EXCEPT !.at = "migrate"] \in GoodRequest
      BY <1>b, <2>0, <2>3 DEF GoodRequest, Request, Step, Upserting
    <3> QED BY <1>0, <2>0, <2>3, <3>1, CallTypes DEF Step
  <2>4. CASE Goto(p, "insert") /\ UNCHANGED history
    <3>1. [call[p] EXCEPT !.at = "insert"] \in GoodRequest
      BY <1>b, <2>0 DEF GoodRequest, Request, Step, Upserting
    <3> QED BY <1>0, <2>0, <2>4, <3>1, CallTypes DEF Step
  <2> QED BY <1>9, <2>1, <2>2, <2>3, <2>4 DEF TouchUser, Holders
<1>10. CASE MigrateLegacyUser(p)
  <2>0. /\ call[p].at = "migrate" /\ call[p].phone \in Numbers /\ call[p].phone \in Phones
        /\ Legacy[call[p].phone] # NoPhone /\ UNCHANGED codes
    BY <1>10, <1>b, <1>c DEF MigrateLegacyUser, GoodRequest
  <2>1. CASE Goto(p, "insert") /\ UNCHANGED <<users, history>>
    <3>1. [call[p] EXCEPT !.at = "insert"] \in GoodRequest
      BY <1>b, <2>0 DEF GoodRequest, Request, Step, Upserting
    <3> QED BY <1>0, <2>0, <2>1, <3>1, CallTypes DEF Step
  <2>2. CASE Goto(p, "reread") /\ UNCHANGED <<users, history>>
    <3>1. [call[p] EXCEPT !.at = "reread"] \in GoodRequest
      BY <1>b, <2>0 DEF GoodRequest, Request, Step, Upserting
    <3> QED BY <1>0, <2>0, <2>2, <3>1, CallTypes DEF Step
  <2>3. CASE \E u \in Users : users' = [users EXCEPT ![u].phone = call[p].phone] /\ Issue(p, u)
    <3>1. users' \in [Users -> User]
      BY <1>0, <2>0, <2>3 DEF User
    <3> QED BY <1>0, <2>0, <2>3, <3>1, IssueTypes
  <2> QED BY <1>10, <2>1, <2>2, <2>3 DEF MigrateLegacyUser, Holders
<1>11. CASE InsertUser(p)
  <2>0. call[p].at = "insert" /\ call[p].phone \in Phones /\ UNCHANGED codes
    BY <1>11, <1>c DEF InsertUser
  <2>1. PICK u \in Users : /\ Issue(p, u)
                           /\ \/ UNCHANGED users
                              \/ users' = [users EXCEPT ![u].phone = call[p].phone]
    BY <1>11 DEF InsertUser, Holders
  <2>2. users' \in [Users -> User]
    BY <1>0, <2>0, <2>1 DEF User
  <2> QED BY <1>0, <2>0, <2>1, <2>2, IssueTypes
<1>12. CASE Fail(p)
  BY <1>0, <1>12, CallTypes DEF Fail
<1> QED BY <1>1, <1>2, <1>3, <1>4, <1>5, <1>6, <1>7, <1>8, <1>9, <1>10, <1>11, <1>12 DEF SigningIn

\* An edit starts from a book in the store and hands out at most the id it adds.
LEMMA EditStarts ==
  ASSUME TypeInv, NEW p \in Calls, EditBook(p)
  PROVE  /\ call[p].at = "idle" /\ UNCHANGED <<store, history>>
         /\ \E u \in Users, book \in Book :
              /\ call' = [call EXCEPT ![p] =
                            [NoRequest EXCEPT !.at = "write", !.user = u, !.next = book]]
              /\ ValidBook(users[u].addresses, made) => ValidBook(book, made')
         /\ made \subseteq made' /\ made' \subseteq Addresses
<1>1. PICK u \in Users, a \in Addresses :
        \/ \E isDefault \in BOOLEAN : AddAddress(p, u, a, isDefault)
        \/ \E isDefault \in BOOLEAN : UpdateAddress(p, u, a, isDefault)
        \/ DeleteAddress(p, u, a)
  BY DEF EditBook
<1> DEFINE old == users[u].addresses
<1>2. old \in Book /\ made \subseteq Addresses
  BY DEF TypeInv, TypeOK, User
<1>3. ASSUME NEW isDefault \in BOOLEAN, AddAddress(p, u, a, isDefault)
      PROVE  /\ Edit(p, u, Added(old, a, isDefault)) /\ made' = made \cup {a}
             /\ Added(old, a, isDefault) \in Book
             /\ ValidBook(old, made) => ValidBook(Added(old, a, isDefault), made')
  BY <1>2, <1>3, AddedIsBook, AddedIsValid DEF AddAddress
<1>4. ASSUME NEW isDefault \in BOOLEAN, UpdateAddress(p, u, a, isDefault)
      PROVE  \E i \in DOMAIN old :
               /\ Edit(p, u, Updated(old, i, isDefault)) /\ made' = made
               /\ Updated(old, i, isDefault) \in Book
               /\ ValidBook(old, made) => ValidBook(Updated(old, i, isDefault), made')
  BY <1>2, <1>4, UpdatedIsBook, UpdatedIsValid DEF UpdateAddress, At
<1>5. ASSUME DeleteAddress(p, u, a)
      PROVE  \E i \in DOMAIN old :
               /\ Edit(p, u, Deleted(old, i)) /\ made' = made
               /\ Deleted(old, i) \in Book
               /\ ValidBook(old, made) => ValidBook(Deleted(old, i), made')
  BY <1>2, <1>5, DeletedIsBook, DeletedIsValid DEF DeleteAddress, At
<1>6. /\ \E book \in Book :
           Edit(p, u, book) /\ (ValidBook(old, made) => ValidBook(book, made'))
      /\ made \subseteq made' /\ made' \subseteq Addresses
  BY <1>1, <1>2, <1>3, <1>4, <1>5
<1>7. PICK book \in Book : Edit(p, u, book) /\ (ValidBook(old, made) => ValidBook(book, made'))
  BY <1>6
<1>8. /\ call[p].at = "idle" /\ UNCHANGED <<store, history>>
      /\ call' = [call EXCEPT ![p] =
                    [NoRequest EXCEPT !.at = "write", !.user = u, !.next = book]]
  BY <1>7 DEF Edit, Begin
<1> QED BY <1>6, <1>7, <1>8

LEMMA NextTypes == TypeInv /\ [Next]_vars => TypeInv'
<1> SUFFICES ASSUME TypeInv, [Next]_vars PROVE TypeInv'
  OBVIOUS
<1> USE DEF store, history
<1>0. /\ users \in [Users -> User] /\ codes \in [Codes -> OTPCode]
      /\ call \in [Calls -> GoodRequest] /\ GoodRequest \subseteq Request
  BY DEF TypeInv, TypeOK, GoodRequest
<1>1. ASSUME NEW p \in Calls, SigningIn(p) PROVE TypeInv'
  BY <1>1, SigningInTypes
<1>2. ASSUME NEW p \in Calls, EditBook(p), UNCHANGED now PROVE TypeInv'
  <2>1. PICK u \in Users, book \in Book :
          call' = [call EXCEPT ![p] = [NoRequest EXCEPT !.at = "write", !.user = u, !.next = book]]
    BY <1>2, EditStarts
  <2>2. call' \in [Calls -> GoodRequest]
    BY <1>0, <2>1, RequestTypes
  <2> QED BY <1>0, <1>2, <2>2, EditStarts DEF TypeInv, TypeOK
<1>3. ASSUME NEW p \in Calls, SetAddresses(p), UNCHANGED now PROVE TypeInv'
  <2>1. call[p].user \in Users /\ call[p].next \in Book
    BY <1>0, <1>3 DEF SetAddresses, GoodRequest, Request
  <2>2. users' \in [Users -> User]
    BY <1>0, <1>3, <2>1 DEF SetAddresses, User
  <2>3. call' \in [Calls -> GoodRequest]
    BY <1>0, <1>3, CallTypes DEF SetAddresses
  <2> QED BY <1>0, <1>3, <2>2, <2>3 DEF SetAddresses, TypeInv, TypeOK
<1>4. CASE Expiry
  <2>1. codes' \in [Codes -> OTPCode]
    BY <1>0, <1>4 DEF Expiry, ExpireCode, OTPCode
  <2> QED BY <1>0, <1>4, <2>1 DEF Expiry, ExpireCode, TypeInv, TypeOK
<1>5. CASE Tick
  BY <1>5 DEF Tick, TypeInv, TypeOK
<1>6. CASE UNCHANGED vars
  BY <1>6 DEF vars, TypeInv, TypeOK
<1> QED BY <1>1, <1>2, <1>3, <1>4, <1>5, <1>6 DEF Next, Shipping

\* The state keeps its types, and every request knows what its next step uses.
THEOREM AccountsTypeCorrect == Spec => []TypeInv
<1>1. Init => TypeInv
  BY InitTypes
<1>2. TypeInv /\ [Next]_vars => TypeInv'
  BY NextTypes
<1> QED BY <1>1, <1>2, PTL DEF Spec

-----------------------------------------------------------------------------
(* Most steps neither move an account nor spend a code.                    *)

Quiet ==
  /\ \A u \in Users : users'[u].phone = users[u].phone
  /\ \A c \in Codes : codes'[c].consumed = codes[c].consumed
  /\ UNCHANGED history
  /\ \A q \in Calls : call'[q].at \in {"migrate", "reread", "insert"} => call'[q] = call[q]
  /\ \A q \in Calls : call'[q].at = "touch" /\ call'[q].code # NoCode => call'[q] = call[q]

\* p alone moves, to a step after which it is not about to upsert for a code.
LEMMA OneMoves ==
  ASSUME call \in [Calls -> GoodRequest], NEW p \in Calls, NEW req,
         call' = [call EXCEPT ![p] = req],
         req.at \notin {"migrate", "reread", "insert"},
         req.at = "touch" => req.code = NoCode
  PROVE  /\ \A q \in Calls : call'[q].at \in {"migrate", "reread", "insert"} => call'[q] = call[q]
         /\ \A q \in Calls : call'[q].at = "touch" /\ call'[q].code # NoCode => call'[q] = call[q]
OBVIOUS

Upserts(p) == ConsumeCode(p) \/ TouchUser(p) \/ MigrateLegacyUser(p) \/ InsertUser(p)

LEMMA QuietSteps ==
  ASSUME TypeInv, [Next]_vars
  PROVE  Quiet \/ \E p \in Calls : Upserts(p)
<1> USE DEF store, history
<1>0. /\ users \in [Users -> User] /\ codes \in [Codes -> OTPCode]
      /\ call \in [Calls -> GoodRequest] /\ GoodRequest \subseteq Request
  BY DEF TypeInv, TypeOK, GoodRequest
<1> DEFINE CallsQuiet ==
      /\ \A q \in Calls : call'[q].at \in {"migrate", "reread", "insert"} => call'[q] = call[q]
      /\ \A q \in Calls : call'[q].at = "touch" /\ call'[q].code # NoCode => call'[q] = call[q]
<1>e. ASSUME NEW p \in Calls, End(p) PROVE CallsQuiet
  BY <1>0, <1>e, OneMoves DEF End, NoRequest
<1>1. ASSUME NEW p \in Calls, AskForCode(p) PROVE Quiet
  <2>1. PICK phone \in Phones : RequestCode(p, phone)
    BY <1>1 DEF AskForCode
  <2>2. CallsQuiet
    BY <1>0, <2>1, OneMoves DEF RequestCode, Begin, NoRequest
  <2> QED BY <2>1, <2>2 DEF Quiet, RequestCode
<1>2. ASSUME NEW p \in Calls, ResendAllowed(p) PROVE Quiet
  <2>1. CallsQuiet
    BY <1>0, <1>2 DEF ResendAllowed, Goto, GoodRequest, Request
  <2> QED BY <1>2, <2>1 DEF Quiet, ResendAllowed
<1>3. ASSUME NEW p \in Calls, CreateCode(p) PROVE Quiet
  <2>1. CallsQuiet
    BY <1>0, <1>3 DEF CreateCode, GoodRequest, Request
  <2>2. \A c \in Codes : codes'[c].consumed = codes[c].consumed
    BY <1>0, <1>3 DEF CreateCode, OTPCode
  <2> QED BY <1>3, <2>1, <2>2 DEF Quiet, CreateCode
<1>4. ASSUME NEW p \in Calls, Send(p) PROVE Quiet
  <2>2. \A c \in Codes : codes'[c].consumed = codes[c].consumed
    BY <1>0, <1>4 DEF Send, OTPCode
  <2> QED BY <1>4, <1>e, <2>2 DEF Quiet, Send
<1>5. ASSUME NEW p \in Calls, TypeCode(p) PROVE Quiet
  <2>1. PICK phone \in Phones, typed \in Codes \cup {NoCode} : Verify(p, phone, typed)
    BY <1>5 DEF TypeCode
  <2>2. PICK c \in Codes :
          Begin(p, [NoRequest EXCEPT !.at = IF typed = c THEN "consume" ELSE "miss",
                                     !.phone = phone, !.code = c])
    BY <2>1 DEF Verify, Latest, Of
  <2>3. CallsQuiet
    BY <1>0, <2>2, OneMoves DEF Begin, NoRequest
  <2> QED BY <2>1, <2>3 DEF Quiet, Verify
<1>6. ASSUME NEW p \in Calls, RecordFailedAttempt(p) PROVE Quiet
  <2>2. \A c \in Codes : codes'[c].consumed = codes[c].consumed
    BY <1>0, <1>6 DEF RecordFailedAttempt, OTPCode
  <2> QED BY <1>6, <1>e, <2>2 DEF Quiet, RecordFailedAttempt
<1>7. ASSUME NEW p \in Calls, ExchangeToken(p) PROVE Quiet
  <2>1. PICK phone \in Numbers : CreateSession(p, phone)
    BY <1>7 DEF ExchangeToken
  <2>2. CallsQuiet
    BY <1>0, <2>1, OneMoves DEF CreateSession, Begin, NoRequest
  <2> QED BY <2>1, <2>2 DEF Quiet, CreateSession
<1>8. ASSUME NEW p \in Calls, Fail(p) PROVE Quiet
  BY <1>8, <1>e DEF Quiet, Fail
<1>9. ASSUME NEW p \in Calls, EditBook(p) PROVE Quiet
  <2>1. PICK u \in Users, book \in Book :
          call' = [call EXCEPT ![p] = [NoRequest EXCEPT !.at = "write", !.user = u, !.next = book]]
    BY <1>9, EditStarts
  <2>2. CallsQuiet
    BY <1>0, <2>1, OneMoves DEF NoRequest
  <2> QED BY <1>9, <2>2, EditStarts DEF Quiet
<1>10. ASSUME NEW p \in Calls, SetAddresses(p) PROVE Quiet
  <2>1. \A u \in Users : users'[u].phone = users[u].phone
    BY <1>0, <1>10 DEF SetAddresses, User
  <2> QED BY <1>10, <1>e, <2>1 DEF Quiet, SetAddresses
<1>11. CASE Expiry
  BY <1>0, <1>11 DEF Expiry, ExpireCode, OTPCode, Quiet
<1>12. CASE Tick \/ UNCHANGED vars
  BY <1>12 DEF Tick, vars, Quiet
<1> QED
  BY <1>1, <1>2, <1>3, <1>4, <1>5, <1>6, <1>7, <1>8, <1>9, <1>10, <1>11, <1>12
     DEF Next, SigningIn, Shipping, Upserts

LEMMA QuietKeeps ==
  ASSUME TypeInv, TypeInv', AccountsInv, CodesInv, Quiet
  PROVE  AccountsInv' /\ CodesInv'
<1>0. /\ signedIn \subseteq [number : Phones, user : Users]
      /\ \A n \in Numbers : OldAccount[n] # NoUser => OldAccount[n] \in Users
  BY UserStoreAssumption DEF TypeInv, TypeOK
<1>1. AccountsInv'
  BY <1>0 DEF AccountsInv, Quiet, Exists, history
<1>2. \A q \in Calls, c \in Codes : Redeeming(q, c)' => Redeeming(q, c)
  BY UserStoreAssumption DEF Redeeming, Upserting, Quiet
<1>3. CodesInv'
  BY <1>2 DEF CodesInv, Quiet, history
<1> QED BY <1>1, <1>3

-----------------------------------------------------------------------------
(* The steps that do: what they leave of a request, and of the accounts.   *)

LEMMA UpsertMoves ==
  ASSUME TypeInv, NEW p \in Calls, TouchUser(p) \/ MigrateLegacyUser(p) \/ InsertUser(p)
  PROVE  /\ UNCHANGED codes
         /\ call[p].at \in Upserting
         /\ \A q \in Calls : q # p => call'[q] = call[q]
         /\ \/ \E u \in Users : Issue(p, u)
            \/ /\ UNCHANGED history
               /\ call'[p] = NoRequest \/ call'[p].code = call[p].code
<1>0. call \in [Calls -> GoodRequest] /\ GoodRequest \subseteq Request
  BY DEF TypeInv, GoodRequest
<1>1. \A at \in Step : Goto(p, at) => /\ call'[p].code = call[p].code
                                      /\ \A q \in Calls : q # p => call'[q] = call[q]
  BY <1>0 DEF Goto, Request
<1>2. End(p) => call'[p] = NoRequest /\ \A q \in Calls : q # p => call'[q] = call[q]
  BY <1>0 DEF End
<1>3. \A u \in Users : Issue(p, u) => \A q \in Calls : q # p => call'[q] = call[q]
  BY <1>2 DEF Issue
<1>4. CASE TouchUser(p)
  BY <1>1, <1>2, <1>3, <1>4 DEF TouchUser, Holders, Upserting, Step, store
<1>5. CASE MigrateLegacyUser(p)
  BY <1>1, <1>2, <1>3, <1>5 DEF MigrateLegacyUser, Holders, Upserting, Step
<1>6. CASE InsertUser(p)
  BY <1>1, <1>2, <1>3, <1>6 DEF InsertUser, Holders, Upserting, Step
<1> QED BY <1>4, <1>5, <1>6

LEMMA CodesStep == TypeInv /\ TypeInv' /\ AccountsInv /\ CodesInv /\ [Next]_vars => CodesInv'
<1> SUFFICES ASSUME TypeInv, TypeInv', AccountsInv, CodesInv, [Next]_vars PROVE CodesInv'
  OBVIOUS
<1>0. /\ codes \in [Codes -> OTPCode] /\ opened \in [Codes -> Nat]
      /\ call \in [Calls -> GoodRequest] /\ GoodRequest \subseteq Request
  BY DEF TypeInv, TypeOK, GoodRequest
<1>1. CASE Quiet
  BY <1>1, QuietKeeps
<1>2. ASSUME NEW p \in Calls, ConsumeCode(p) PROVE CodesInv'
  <2> DEFINE c == call[p].code
  <2>1. c \in Codes /\ call[p].at = "consume" /\ UNCHANGED history
    BY <1>0, <1>2 DEF ConsumeCode, GoodRequest
  <2>2. CASE End(p) /\ UNCHANGED codes
    <3>1. \A q \in Calls, d \in Codes : Redeeming(q, d)' => Redeeming(q, d)
      BY <1>0, <2>2 DEF End, NoRequest, Redeeming, Upserting
    <3> QED BY <2>1, <2>2, <3>1 DEF CodesInv, history
  <2>3. CASE /\ ~codes[c].consumed
             /\ codes' = [codes EXCEPT ![c].consumed = TRUE] /\ Goto(p, "touch")
    <3>1. \A q \in Calls, d \in Codes : Redeeming(q, d)' => Redeeming(q, d) \/ (q = p /\ d = c)
      BY <1>0, <2>3 DEF Goto, Redeeming, Upserting, Request
    <3>2. \A d \in Codes : codes'[d].consumed <=> codes[d].consumed \/ d = c
      BY <1>0, <2>1, <2>3 DEF OTPCode
    <3>3. \A q \in Calls : ~Redeeming(q, c)
      BY <2>1, <2>3 DEF CodesInv
    <3>4. opened[c] = 0
      BY <1>0, <2>1, <2>3 DEF CodesInv
    <3> HIDE DEF c
    <3> QED BY <2>1, <3>1, <3>2, <3>3, <3>4 DEF CodesInv, history
  <2> QED BY <1>2, <2>2, <2>3 DEF ConsumeCode
<1>3. ASSUME NEW p \in Calls, TouchUser(p) \/ MigrateLegacyUser(p) \/ InsertUser(p)
      PROVE  CodesInv'
  <2>1. /\ UNCHANGED codes
        /\ call[p].at \in Upserting
        /\ \A q \in Calls : q # p => call'[q] = call[q]
    BY <1>3, UpsertMoves
  <2>2. CASE UNCHANGED history /\ (call'[p] = NoRequest \/ call'[p].code = call[p].code)
    <3>1. \A q \in Calls, d \in Codes : Redeeming(q, d)' => Redeeming(q, d)
      BY <2>1, <2>2, UserStoreAssumption DEF NoRequest, Redeeming
    <3> QED BY <2>1, <2>2, <3>1 DEF CodesInv, history
  <2>3. ASSUME NEW u \in Users, Issue(p, u) PROVE CodesInv'
    <3>1. call'[p] = NoRequest
      BY <1>0, <2>3 DEF Issue, End
    <3>2. \A q \in Calls, d \in Codes : Redeeming(q, d)' => Redeeming(q, d) /\ q # p
      BY <2>1, <3>1 DEF NoRequest, Redeeming, Upserting
    <3>3. CASE call[p].code = NoCode
      BY <2>1, <2>3, <3>2, <3>3 DEF CodesInv, Issue
    <3>4. CASE call[p].code # NoCode
      <4> DEFINE c == call[p].code
      <4>1. c \in Codes
        BY <1>0, <3>4 DEF Request
      <4>2. opened' = [opened EXCEPT ![c] = @ + 1]
        BY <2>3, <3>4 DEF Issue
      <4>3. Redeeming(p, c)
        BY <2>1 DEF Redeeming
      <4>4. opened[c] = 0 /\ codes[c].consumed /\ \A q \in Calls : Redeeming(q, c) => q = p
        BY <4>1, <4>3 DEF CodesInv
      <4>5. opened'[c] = 1 /\ \A d \in Codes : d # c => opened'[d] = opened[d]
        BY <1>0, <4>1, <4>2, <4>4
      <4> HIDE DEF c
      <4> QED BY <2>1, <3>2, <4>1, <4>4, <4>5 DEF CodesInv
    <3> QED BY <3>3, <3>4
  <2> QED BY <1>3, <2>2, <2>3, UpsertMoves
<1> QED BY <1>1, <1>2, <1>3, QuietSteps DEF Upserts

LEMMA AccountsStep == TypeInv /\ TypeInv' /\ AccountsInv /\ CodesInv /\ [Next]_vars => AccountsInv'
<1> SUFFICES ASSUME TypeInv, TypeInv', AccountsInv, CodesInv, [Next]_vars PROVE AccountsInv'
  OBVIOUS
<1>0. /\ users \in [Users -> User]
      /\ call \in [Calls -> GoodRequest] /\ GoodRequest \subseteq Request
      /\ signedIn \subseteq [number : Phones, user : Users]
      /\ \A n \in Numbers : OldAccount[n] # NoUser => OldAccount[n] \in Users
  BY UserStoreAssumption DEF TypeInv, TypeOK, GoodRequest
<1>1. CASE Quiet
  BY <1>1, QuietKeeps
<1>2. ASSUME NEW p \in Calls, ConsumeCode(p) PROVE AccountsInv'
  <2>1. /\ UNCHANGED <<users, signedIn>>
        /\ \A q \in Calls : call'[q].at = "insert" => call'[q] = call[q]
    BY <1>0, <1>2 DEF ConsumeCode, history, End, Goto, NoRequest, GoodRequest, Request
  <2> QED BY <1>0, <2>1 DEF AccountsInv, Exists
<1>i. ASSUME NEW p \in Calls, NEW u \in Users, Issue(p, u), call[p].phone \in Phones,
             users'[u].phone = call[p].phone,
             \A v \in Users : v # u => users'[v] = users[v] /\ users[v].phone # call[p].phone,
             users[u].phone \in {NoPhone, call[p].phone} \cup LegacyForms,
             \A n \in Numbers : OldAccount[n] = u => call[p].phone \in {n, users[u].phone},
             call[p].phone \in Numbers => OldAccount[call[p].phone] \in {u, NoUser}
      PROVE  AccountsInv'
  <2> DEFINE n0 == call[p].phone
  <2>0. /\ signedIn' = signedIn \cup {[number |-> n0, user |-> u]}
        /\ \A q \in Calls : call'[q].at = "insert" => call'[q] = call[q]
    BY <1>0, <1>i DEF Issue, End, NoRequest
  <2>1. \A m \in Numbers : users[u].phone = m => n0 = m
    BY <1>i, UserStoreAssumption DEF Phones
  <2>2. \A v, w \in Users : Exists(v)' /\ users'[v].phone = users'[w].phone => v = w
    BY <1>i DEF AccountsInv, Exists
  <2>3. ASSUME NEW n \in Numbers, OldAccount[n] # NoUser
        PROVE  /\ users'[OldAccount[n]].phone \in {Legacy[n], n}
               /\ \A v \in Users : users'[v].phone = n => v = OldAccount[n]
    <3>1. /\ OldAccount[n] \in Users
          /\ users[OldAccount[n]].phone \in {Legacy[n], n}
          /\ \A v \in Users : users[v].phone = n => v = OldAccount[n]
      BY <1>0, <2>3 DEF AccountsInv
    <3>2. users'[OldAccount[n]].phone \in {Legacy[n], n}
      BY <1>i, <3>1
    <3>3. \A v \in Users : users'[v].phone = n => v = OldAccount[n]
      BY <1>i, <2>3, <3>1
    <3> QED BY <3>2, <3>3
  <2>4. ASSUME NEW s \in signedIn', s.number \in Numbers
        PROVE  users'[s.user].phone = s.number /\ OldAccount[s.number] \in {s.user, NoUser}
    <3>1. CASE s = [number |-> n0, user |-> u]
      BY <1>i, <2>4, <3>1
    <3>2. CASE s \in signedIn
      BY <1>0, <1>i, <2>1, <2>4, <3>2 DEF AccountsInv
    <3> QED BY <2>0, <2>4, <3>1, <3>2
  <2>5. ASSUME NEW q \in Calls, call'[q].at = "insert", call'[q].phone \in Numbers,
               OldAccount[call'[q].phone] # NoUser
        PROVE  users'[OldAccount[call'[q].phone]].phone = call'[q].phone
    <3>1. call'[q] = call[q]
      BY <2>0, <2>5
    <3>2. /\ users[OldAccount[call[q].phone]].phone = call[q].phone
          /\ OldAccount[call[q].phone] \in Users
      BY <1>0, <2>5, <3>1 DEF AccountsInv
    <3> QED BY <1>i, <2>1, <2>5, <3>1, <3>2
  <2> QED BY <2>2, <2>3, <2>4, <2>5 DEF AccountsInv
\* Nothing is issued: all that changes is the step of request p.
<1>j. ASSUME NEW p \in Calls, UNCHANGED <<users, signedIn>>,
             \A q \in Calls : q # p => call'[q] = call[q],
             call'[p].at = "insert" =>
               /\ call'[p].phone = call[p].phone
               /\ call[p].phone \in Numbers /\ OldAccount[call[p].phone] # NoUser =>
                    users[OldAccount[call[p].phone]].phone = call[p].phone
      PROVE  AccountsInv'
  BY <1>j DEF AccountsInv, Exists
<1>p. ASSUME NEW p \in Calls, TouchUser(p) \/ MigrateLegacyUser(p) \/ InsertUser(p)
      PROVE  /\ call[p].phone \in Phones
             /\ \A q \in Calls : q # p => call'[q] = call[q]
             /\ call[p].at = "migrate" =>
                  call[p].phone \in Numbers /\ Legacy[call[p].phone] # NoPhone
  BY <1>0, <1>p, UpsertMoves DEF GoodRequest, Upserting
\* The number has a document: the request finds it.
<1>h. ASSUME NEW p \in Calls, call[p].phone \in Phones,
             NEW u \in Holders(call[p].phone), Issue(p, u), UNCHANGED users
      PROVE  AccountsInv'
  <2>1. /\ u \in Users /\ users[u].phone = call[p].phone
        /\ \A v \in Users : v # u => users[v].phone # call[p].phone
    BY <1>h DEF Holders, AccountsInv
  <2>2. call[p].phone \in Numbers => OldAccount[call[p].phone] \in {u, NoUser}
    BY <2>1 DEF AccountsInv
  <2> QED BY <1>h, <1>i, <2>1, <2>2
<1>3. ASSUME NEW p \in Calls, TouchUser(p) PROVE AccountsInv'
  <2>1. CASE \E u \in Holders(call[p].phone) : Issue(p, u) /\ UNCHANGED users
    BY <1>3, <1>p, <1>h, <2>1
  <2>2. CASE End(p) /\ UNCHANGED <<users, signedIn>>
    BY <1>0, <1>3, <1>p, <1>j, <2>2 DEF End, NoRequest
  <2>3. CASE Goto(p, "migrate") /\ UNCHANGED <<users, signedIn>>
    BY <1>0, <1>3, <1>p, <1>j, <2>3 DEF Goto, Request
  <2>4. CASE /\ ~(call[p].phone \in Numbers /\ Legacy[call[p].phone] # NoPhone)
             /\ Goto(p, "insert") /\ UNCHANGED <<users, signedIn>>
    <3>1. call[p].phone \in Numbers => OldAccount[call[p].phone] = NoUser
      BY <2>4, UserStoreAssumption
    <3> QED BY <1>0, <1>3, <1>p, <1>j, <2>4, <3>1 DEF Goto, Request
  <2> QED BY <1>3, <2>1, <2>2, <2>3, <2>4 DEF TouchUser, store, history
<1>4. ASSUME NEW p \in Calls, MigrateLegacyUser(p) PROVE AccountsInv'
  <2> DEFINE n == call[p].phone
  <2>0. n \in Numbers /\ Legacy[n] # NoPhone /\ Legacy[n] \in LegacyForms
    BY <1>4, <1>p, UserStoreAssumption DEF MigrateLegacyUser
  <2>1. CASE Holders(Legacy[n]) = {} /\ Goto(p, "insert") /\ UNCHANGED <<users, history>>
    <3>1. OldAccount[n] # NoUser => users[OldAccount[n]].phone = n
      BY <1>0, <2>0, <2>1 DEF AccountsInv, Holders, Exists
    <3> QED BY <1>0, <1>4, <1>p, <1>j, <2>1, <3>1 DEF Goto, Request, history
  <2>2. CASE Goto(p, "reread") /\ UNCHANGED <<users, history>>
    BY <1>0, <1>4, <1>p, <1>j, <2>2 DEF Goto, Request, history
  <2>3. ASSUME Holders(n) = {}, NEW u \in Holders(Legacy[n]),
               users' = [users EXCEPT ![u].phone = n], Issue(p, u)
        PROVE  AccountsInv'
    <3>1. u \in Users /\ users[u].phone = Legacy[n] /\ Exists(u)
      BY <2>3 DEF Holders
    <3>2. users'[u].phone = n /\ \A v \in Users : v # u => users'[v] = users[v]
      BY <1>0, <2>3, <3>1 DEF User
    <3>3. \A v \in Users : users[v].phone # n
      BY <2>0, <2>3, UserStoreAssumption DEF Holders, Exists, Phones
    <3>4. \A m \in Numbers : OldAccount[m] = u => m = n
      BY <2>0, <3>1, UserStoreAssumption DEF AccountsInv
    <3>5. OldAccount[n] \in {u, NoUser}
      BY <1>0, <2>0, <3>1, <3>3 DEF AccountsInv
    <3> QED BY <1>4, <1>p, <1>i, <2>0, <2>3, <3>1, <3>2, <3>3, <3>4, <3>5
  <2> QED BY <1>4, <2>1, <2>2, <2>3 DEF MigrateLegacyUser
<1>5. ASSUME NEW p \in Calls, InsertUser(p) PROVE AccountsInv'
  <2> DEFINE n == call[p].phone
  <2>1. CASE \E u \in Holders(n) : Issue(p, u) /\ UNCHANGED users
    BY <1>5, <1>p, <1>h, <2>1
  <2>2. ASSUME Holders(n) = {}, NEW u \in Users, ~Exists(u),
               users' = [users EXCEPT ![u].phone = n], Issue(p, u)
        PROVE  AccountsInv'
    <3>0. n \in Phones /\ n # NoPhone
      BY <1>5, <1>p, UserStoreAssumption
    <3>1. users[u].phone = NoPhone
      BY <2>2 DEF Exists
    <3>2. users'[u].phone = n /\ \A v \in Users : v # u => users'[v] = users[v]
      BY <1>0, <2>2 DEF User
    <3>3. \A v \in Users : users[v].phone # n
      BY <2>2, <3>0 DEF Holders, Exists
    <3>4. \A m \in Numbers : OldAccount[m] # u
      BY <3>1, UserStoreAssumption DEF AccountsInv, Phones
    <3>5. n \in Numbers => OldAccount[n] = NoUser
      BY <1>0, <1>5, <3>3 DEF AccountsInv, InsertUser
    <3> QED BY <1>i, <2>2, <3>0, <3>1, <3>2, <3>3, <3>4, <3>5
  <2> QED BY <1>5, <2>1, <2>2 DEF InsertUser
<1> QED BY <1>1, <1>2, <1>3, <1>4, <1>5, QuietSteps DEF Upserts

-----------------------------------------------------------------------------
(* The address books: only SetAddresses changes one, to the list its       *)
(* request carries.                                                        *)

LEMMA SigningInLeavesBooks ==
  ASSUME TypeInv, NEW p \in Calls, SigningIn(p)
  PROVE  /\ \A u \in Users : users'[u].addresses = users[u].addresses
         /\ \A q \in Calls : call'[q].at = "write" => call'[q] = call[q]
         /\ made' = made
<1> USE DEF store, history
<1>0. /\ users \in [Users -> User]
      /\ call \in [Calls -> GoodRequest] /\ GoodRequest \subseteq Request
  BY DEF TypeInv, TypeOK, GoodRequest
<1>1. ASSUME NEW req, call' = [call EXCEPT ![p] = req], req.at # "write"
      PROVE  \A q \in Calls : call'[q].at = "write" => call'[q] = call[q]
  BY <1>0, <1>1
<1>2. End(p) => \A q \in Calls : call'[q].at = "write" => call'[q] = call[q]
  BY <1>1 DEF End, NoRequest
<1>3. \A at \in Step \ {"write"} : Goto(p, at) =>
         \A q \in Calls : call'[q].at = "write" => call'[q] = call[q]
  BY <1>0 DEF Goto, Request
<1> DEFINE Left == /\ \A u \in Users : users'[u].addresses = users[u].addresses
                   /\ \A q \in Calls : call'[q].at = "write" => call'[q] = call[q]
<1>a. CASE AskForCode(p)
  <2>1. PICK phone \in Phones : RequestCode(p, phone)
    BY <1>a DEF AskForCode
  <2> QED BY <1>1, <2>1 DEF RequestCode, Begin, NoRequest, SigningIn
<1>b. CASE TypeCode(p)
  <2>1. PICK phone \in Phones, typed \in Codes \cup {NoCode} : Verify(p, phone, typed)
    BY <1>b DEF TypeCode
  <2>2. PICK c \in Codes :
          Begin(p, [NoRequest EXCEPT !.at = IF typed = c THEN "consume" ELSE "miss",
                                     !.phone = phone, !.code = c])
    BY <2>1 DEF Verify, Latest, Of
  <2> QED BY <1>1, <2>1, <2>2 DEF Verify, Begin, NoRequest, SigningIn
<1>c. CASE ExchangeToken(p)
  <2>1. PICK phone \in Numbers : CreateSession(p, phone)
    BY <1>c DEF ExchangeToken
  <2> QED BY <1>1, <2>1 DEF CreateSession, Begin, NoRequest, SigningIn
<1>5. CASE ResendAllowed(p) \/ ConsumeCode(p) \/ Fail(p) \/ Send(p) \/ RecordFailedAttempt(p)
  BY <1>2, <1>3, <1>5
     DEF ResendAllowed, ConsumeCode, Fail, Send, RecordFailedAttempt, Step, SigningIn
<1>6. CASE CreateCode(p)
  <2>1. Left
    BY <1>0, <1>6 DEF CreateCode, Request
  <2> QED BY <2>1 DEF SigningIn
<1>7. ASSUME NEW u \in Users, Issue(p, u),
             users' = users \/ users' = [users EXCEPT ![u].phone = call[p].phone]
      PROVE  Left
  BY <1>0, <1>2, <1>7 DEF Issue, User
<1>8. CASE TouchUser(p)
  <2>1. Left
    BY <1>2, <1>3, <1>7, <1>8 DEF TouchUser, Holders, Step
  <2> QED BY <2>1 DEF SigningIn
<1>9. CASE MigrateLegacyUser(p)
  <2>1. Left
    BY <1>2, <1>3, <1>7, <1>9 DEF MigrateLegacyUser, Holders, Step
  <2> QED BY <2>1 DEF SigningIn
<1>10. CASE InsertUser(p)
  <2>1. Left
    BY <1>2, <1>3, <1>7, <1>10 DEF InsertUser, Holders, Step
  <2> QED BY <2>1 DEF SigningIn
<1> QED BY <1>a, <1>b, <1>c, <1>5, <1>6, <1>8, <1>9, <1>10 DEF SigningIn

LEMMA BooksStep == TypeInv /\ BooksInv /\ [Next]_vars => BooksInv'
<1> SUFFICES ASSUME TypeInv, BooksInv, [Next]_vars PROVE BooksInv'
  OBVIOUS
<1>0. /\ users \in [Users -> User]
      /\ call \in [Calls -> GoodRequest] /\ GoodRequest \subseteq Request
  BY DEF TypeInv, TypeOK, GoodRequest
<1>1. ASSUME NEW p \in Calls, SigningIn(p) PROVE BooksInv'
  BY <1>1, SigningInLeavesBooks DEF BooksInv
<1>2. ASSUME NEW p \in Calls, EditBook(p) PROVE BooksInv'
  <2>1. PICK u \in Users, book \in Book :
          /\ call' = [call EXCEPT ![p] = [NoRequest EXCEPT !.at = "write", !.user = u, !.next = book]]
          /\ ValidBook(users[u].addresses, made) => ValidBook(book, made')
    BY <1>2, EditStarts
  <2>2. UNCHANGED users /\ made \subseteq made'
    BY <1>2, EditStarts DEF store
  <2>3. \A b \in Book : ValidBook(b, made) => ValidBook(b, made')
    BY <2>2 DEF ValidBook, DistinctIds
  <2>4. ASSUME NEW q \in Calls, call'[q].at = "write" PROVE ValidBook(call'[q].next, made')
    <3>1. CASE q = p
      BY <1>0, <2>1, <3>1 DEF BooksInv, NoRequest
    <3>2. CASE q # p
      BY <1>0, <2>1, <2>3, <2>4, <3>2 DEF BooksInv, Request
    <3> QED BY <3>1, <3>2
  <2>5. \A v \in Users : ValidBook(users'[v].addresses, made')
    BY <1>0, <2>2, <2>3 DEF BooksInv, User
  <2> QED BY <2>4, <2>5 DEF BooksInv
<1>3. ASSUME NEW p \in Calls, SetAddresses(p) PROVE BooksInv'
  <2>1. call[p].user \in Users /\ ValidBook(call[p].next, made) /\ made' = made
    BY <1>0, <1>3 DEF SetAddresses, GoodRequest, BooksInv
  <2>2. \A v \in Users : users'[v].addresses \in {users[v].addresses, call[p].next}
    BY <1>0, <1>3, <2>1 DEF SetAddresses, User
  <2>3. \A q \in Calls : call'[q].at = "write" => call'[q] = call[q]
    BY <1>0, <1>3 DEF SetAddresses, End, NoRequest
  <2> QED BY <2>1, <2>2, <2>3 DEF BooksInv
<1>4. CASE Expiry \/ Tick \/ UNCHANGED vars
  BY <1>4 DEF Expiry, ExpireCode, Tick, vars, BooksInv
<1> QED BY <1>1, <1>2, <1>3, <1>4 DEF Next, Shipping

-----------------------------------------------------------------------------
(* The guesses: each request about to record a miss has read a counter     *)
(* below the limit, and at most all requests are about to.                 *)

LEMMA FewerThanCalls ==
  ASSUME NEW S \in SUBSET Calls
  PROVE  /\ IsFiniteSet(S) /\ Cardinality(S) \in Nat /\ Cardinality(Calls) \in Nat
         /\ Cardinality(S) <= Cardinality(Calls)
BY AccountsAssumption, FS_Subset, FS_CardinalityType

\* Nobody starts to record a miss.
LEMMA NoNewMiss ==
  ASSUME TypeInv, GuessesInv,
         \A c \in Codes : codes'[c].attempts = codes[c].attempts,
         \A q \in Calls : call'[q].at = "miss" => call'[q] = call[q]
  PROVE  GuessesInv'
<1> SUFFICES ASSUME NEW c \in Codes
             PROVE  codes'[c].attempts + Cardinality(Missing(c)')
                      < MaxAttempts + Cardinality(Calls)
  BY DEF GuessesInv
<1>1. Missing(c)' \subseteq Missing(c) /\ Missing(c) \in SUBSET Calls
  BY DEF Missing
<1>2. Cardinality(Missing(c)') <= Cardinality(Missing(c)) /\ Cardinality(Missing(c)') \in Nat
      /\ Cardinality(Missing(c)) \in Nat /\ Cardinality(Calls) \in Nat
  BY <1>1, FewerThanCalls, FS_Subset, FS_CardinalityType
<1>3. codes[c].attempts \in Nat /\ MaxAttempts \in Nat
  BY SignInAssumption DEF TypeInv, TypeOK, OTPCode
<1>4. codes[c].attempts + Cardinality(Missing(c)) < MaxAttempts + Cardinality(Calls)
  BY DEF GuessesInv
<1> QED BY <1>2, <1>3, <1>4

LEMMA GuessesStep == TypeInv /\ GuessesInv /\ [Next]_vars => GuessesInv'
<1> SUFFICES ASSUME TypeInv, GuessesInv, [Next]_vars PROVE GuessesInv'
  OBVIOUS
<1> USE DEF store, history
<1>0. /\ codes \in [Codes -> OTPCode] /\ \A c \in Codes : codes[c].attempts \in Nat
      /\ call \in [Calls -> GoodRequest] /\ GoodRequest \subseteq Request
      /\ MaxAttempts \in Nat
  BY SignInAssumption DEF TypeInv, TypeOK, GoodRequest, OTPCode
<1> DEFINE NoMiss == \A q \in Calls : call'[q].at = "miss" => call'[q] = call[q]
           SameCount == \A c \in Codes : codes'[c].attempts = codes[c].attempts
<1>1. NoMiss /\ SameCount => GuessesInv'
  BY NoNewMiss
<1>2. ASSUME NEW p \in Calls, End(p) PROVE NoMiss
  BY <1>0, <1>2 DEF End, NoRequest
<1>3. ASSUME NEW p \in Calls, NEW at \in Step \ {"miss"}, Goto(p, at) PROVE NoMiss
  BY <1>0, <1>3 DEF Goto, Request
<1>4. ASSUME NEW p \in Calls, TypeCode(p) PROVE GuessesInv'
  <2>1. PICK phone \in Phones, typed \in Codes \cup {NoCode} : Verify(p, phone, typed)
    BY <1>4 DEF TypeCode
  <2>2. PICK c \in Codes :
          /\ Usable(c, now)
          /\ Begin(p, [NoRequest EXCEPT !.at = IF typed = c THEN "consume" ELSE "miss",
                                        !.phone = phone, !.code = c])
    BY <2>1 DEF Verify, Latest, Of
  <2>3. UNCHANGED codes
    BY <2>1 DEF Verify
  <2>4. CASE typed = c
    <3>1. NoMiss
      BY <1>0, <2>2, <2>4 DEF Begin, NoRequest
    <3> QED BY <1>1, <2>3, <3>1
  <2>5. CASE typed # c
    <3>1. \A d \in Codes : Missing(d)' \subseteq Missing(d) \/ d = c
      BY <1>0, <2>2, <2>5 DEF Missing, Begin, NoRequest
    <3>2. ASSUME NEW d \in Codes
          PROVE  codes[d].attempts + Cardinality(Missing(d)')
                   < MaxAttempts + Cardinality(Calls)
      <4>1. /\ Missing(d)' \in SUBSET Calls /\ Missing(d) \in SUBSET Calls
        BY DEF Missing
      <4>2. CASE d = c
        BY <1>0, <2>2, <4>1, <4>2, FewerThanCalls DEF Usable
      <4>3. CASE d # c
        <5>1. Missing(d)' \subseteq Missing(d)
          BY <3>1, <4>3
        <5>2. Cardinality(Missing(d)') <= Cardinality(Missing(d))
          BY <4>1, <5>1, FewerThanCalls, FS_Subset
        <5>3. codes[d].attempts + Cardinality(Missing(d)) < MaxAttempts + Cardinality(Calls)
          BY DEF GuessesInv
        <5> QED BY <1>0, <4>1, <5>2, <5>3, FewerThanCalls
      <4> QED BY <4>2, <4>3
    <3> QED BY <2>3, <3>2 DEF GuessesInv
  <2> QED BY <2>4, <2>5
<1>5. ASSUME NEW p \in Calls, RecordFailedAttempt(p) PROVE GuessesInv'
  <2>1. PICK c \in Codes : c = call[p].code /\ call[p].at = "miss"
    BY <1>0, <1>5 DEF RecordFailedAttempt, GoodRequest
  <2>2. /\ codes'[c].attempts \in {codes[c].attempts, codes[c].attempts + 1}
        /\ \A d \in Codes : d # c => codes'[d].attempts = codes[d].attempts
    BY <1>0, <1>5, <2>1 DEF RecordFailedAttempt, OTPCode
  <2>3. \A q \in Calls : call'[q] = IF q = p THEN NoRequest ELSE call[q]
    BY <1>0, <1>5 DEF RecordFailedAttempt, End
  <2>4. Missing(c)' = Missing(c) \ {p} /\ p \in Missing(c)
    <3>1. \A q \in Calls : q \in Missing(c)' <=> q \in Missing(c) /\ q # p
      BY <2>3 DEF Missing, NoRequest
    <3> QED BY <2>1, <3>1 DEF Missing
  <2>5. \A d \in Codes : d # c => Missing(d)' = Missing(d)
    BY <2>1, <2>3 DEF Missing, NoRequest
  <2>6. ASSUME NEW d \in Codes
        PROVE  codes'[d].attempts + Cardinality(Missing(d)')
                 < MaxAttempts + Cardinality(Calls)
    <3>1. codes[d].attempts + Cardinality(Missing(d)) < MaxAttempts + Cardinality(Calls)
      BY DEF GuessesInv
    <3>2. Missing(d) \in SUBSET Calls
      BY DEF Missing
    <3>3. CASE d = c
      <4>1. Cardinality(Missing(c)') = Cardinality(Missing(c)) - 1
        BY <2>4, <3>2, <3>3, FewerThanCalls, FS_RemoveElement
      <4> QED BY <1>0, <2>2, <3>1, <3>2, <3>3, <4>1, FewerThanCalls
    <3>4. CASE d # c
      BY <2>2, <2>5, <3>1, <3>4
    <3> QED BY <3>3, <3>4
  <2> QED BY <2>6 DEF GuessesInv
<1>6. ASSUME NEW p \in Calls, AskForCode(p) PROVE GuessesInv'
  <2>1. PICK phone \in Phones : RequestCode(p, phone)
    BY <1>6 DEF AskForCode
  <2>2. NoMiss
    BY <1>0, <2>1 DEF RequestCode, Begin, NoRequest
  <2> QED BY <1>1, <2>1, <2>2 DEF RequestCode
<1>7. ASSUME NEW p \in Calls, ExchangeToken(p) PROVE GuessesInv'
  <2>1. PICK phone \in Numbers : CreateSession(p, phone)
    BY <1>7 DEF ExchangeToken
  <2>2. NoMiss
    BY <1>0, <2>1 DEF CreateSession, Begin, NoRequest
  <2> QED BY <1>1, <2>1, <2>2 DEF CreateSession
<1>8. ASSUME NEW p \in Calls, CreateCode(p) PROVE GuessesInv'
  <2>1. \A c \in Codes : codes'[c].attempts = codes[c].attempts
    BY <1>0, <1>8 DEF CreateCode, OTPCode
  <2>2. \A q \in Calls : call'[q].at = "miss" => call'[q] = call[q]
    BY <1>0, <1>8 DEF CreateCode, Request
  <2> QED BY <2>1, <2>2, NoNewMiss
<1>9. ASSUME NEW p \in Calls, ResendAllowed(p) \/ Fail(p) \/ Send(p) \/ ConsumeCode(p)
      PROVE  GuessesInv'
  <2>1. \A c \in Codes : codes'[c].attempts = codes[c].attempts
    BY <1>0, <1>9 DEF ResendAllowed, Fail, Send, ConsumeCode, OTPCode
  <2>2. NoMiss
    BY <1>2, <1>3, <1>9 DEF ResendAllowed, Fail, Send, ConsumeCode, Step
  <2> QED BY <1>1, <2>1, <2>2
<1>10. ASSUME NEW p \in Calls, TouchUser(p) \/ MigrateLegacyUser(p) \/ InsertUser(p)
       PROVE  GuessesInv'
  <2>1. UNCHANGED codes
    BY <1>10, UpsertMoves
  <2>2. \A u \in Users : Issue(p, u) => End(p)
    BY DEF Issue
  <2>3. NoMiss
    BY <1>2, <1>3, <1>10, <2>2 DEF TouchUser, MigrateLegacyUser, InsertUser, Holders, Step
  <2> QED BY <1>1, <2>1, <2>3
<1>11. ASSUME NEW p \in Calls, EditBook(p) PROVE GuessesInv'
  <2>1. PICK u \in Users, book \in Book :
          call' = [call EXCEPT ![p] = [NoRequest EXCEPT !.at = "write", !.user = u, !.next = book]]
    BY <1>11, EditStarts
  <2>2. NoMiss
    BY <1>0, <2>1 DEF NoRequest
  <2>3. UNCHANGED codes
    BY <1>11, EditStarts
  <2> QED BY <1>1, <2>2, <2>3
<1>12. ASSUME NEW p \in Calls, SetAddresses(p) PROVE GuessesInv'
  BY <1>1, <1>2, <1>12 DEF SetAddresses
<1>13. CASE Expiry
  BY <1>0, <1>13, NoNewMiss DEF Expiry, ExpireCode, OTPCode
<1>14. CASE Tick \/ UNCHANGED vars
  BY <1>14, NoNewMiss DEF Tick, vars
<1> QED
  BY <1>4, <1>5, <1>6, <1>7, <1>8, <1>9, <1>10, <1>11, <1>12, <1>13, <1>14
     DEF Next, SigningIn, Shipping

-----------------------------------------------------------------------------
(* The invariant, and what it says.                                        *)

Inv == TypeInv /\ BooksInv /\ AccountsInv /\ CodesInv /\ GuessesInv

LEMMA AttemptsArePositive == MaxAttempts \in Nat /\ MaxAttempts > 0
BY SignInAssumption

LEMMA InitInv == Init => Inv
<1> SUFFICES ASSUME Init PROVE Inv
  OBVIOUS
<1>0. /\ \A c \in Codes : opened[c] = 0 /\ codes[c].attempts = 0
      /\ \A p \in Calls : call[p].at = "idle"
  BY DEF Init, StoreInit, UnusedCode, NoRequest
<1>1. TypeInv
  BY InitTypes
<1>2. BooksInv
  BY <1>0, EmptyBook DEF Init, StoreInit, BooksInv, NoDocument
<1>3. AccountsInv
  <2>1. \A n \in Numbers : OldAccount[n] # NoUser =>
          OldAccount[n] \in Users /\ users[OldAccount[n]].phone = Legacy[n]
    BY UserStoreAssumption DEF Init, StoreInit
  <2>2. \A u \in Users : \/ users[u].phone = NoPhone
                         \/ \E n \in Numbers : OldAccount[n] = u /\ users[u].phone = Legacy[n]
    BY DEF Init, StoreInit, NoDocument
  <2>3. \A u \in Users, n \in Numbers : users[u].phone # n
    <3>1. NoPhone \notin Numbers /\ \A m \in Numbers : Legacy[m] \notin Numbers
      BY UserStoreAssumption DEF Phones
    <3> QED BY <2>2, <3>1
  <2>4. \A u, v \in Users : Exists(u) /\ users[u].phone = users[v].phone => u = v
    BY <2>2, UserStoreAssumption DEF Exists
  <2>5. signedIn = {}
    BY DEF Init, StoreInit
  <2> QED BY <1>0, <2>1, <2>3, <2>4, <2>5 DEF AccountsInv
<1>4. CodesInv
  <2>1. \A p \in Calls, c \in Codes : ~Redeeming(p, c)
    BY <1>0 DEF Redeeming, Upserting
  <2> QED BY <1>0, <2>1 DEF CodesInv
<1>5. GuessesInv
  <2>1. SUFFICES ASSUME NEW c \in Codes
                 PROVE  codes[c].attempts + Cardinality(Missing(c))
                          < MaxAttempts + Cardinality(Calls)
    BY DEF GuessesInv
  <2>2. Missing(c) \in SUBSET Calls /\ codes[c].attempts = 0
    BY <1>0 DEF Missing
  <2>3. Cardinality(Missing(c)) <= Cardinality(Calls) /\ Cardinality(Missing(c)) \in Nat
        /\ Cardinality(Calls) \in Nat
    BY <2>2, FewerThanCalls
  <2> QED BY <2>2, <2>3, AttemptsArePositive
<1> QED BY <1>1, <1>2, <1>3, <1>4, <1>5 DEF Inv

LEMMA NextInv == Inv /\ [Next]_vars => Inv'
BY NextTypes, BooksStep, AccountsStep, CodesStep, GuessesStep DEF Inv

LEMMA AccountsAreSafe == Spec => []Inv
<1>1. Init => Inv
  BY InitInv
<1>2. Inv /\ [Next]_vars => Inv'
  BY NextInv
<1> QED BY <1>1, <1>2, PTL DEF Spec

\* A shopper's number leads to one account for good, to the old one if there
\* was one, however first sign-ins and the migration of the old form overlap.
THEOREM NumberAlwaysKeepsItsAccount == Spec => []NumberKeepsItsAccount
<1>1. Inv => NumberKeepsItsAccount
  <2> SUFFICES ASSUME Inv, NEW s \in signedIn, s.number \in Numbers
               PROVE  /\ \A t \in signedIn : t.number = s.number => t.user = s.user
                      /\ OldAccount[s.number] \in {s.user, NoUser}
    BY DEF NumberKeepsItsAccount
  <2>1. \A t \in signedIn : t.number = s.number =>
          t.user \in Users /\ s.user \in Users /\ users[t.user].phone = users[s.user].phone
            /\ users[s.user].phone = s.number
    BY DEF Inv, TypeInv, TypeOK, AccountsInv
  <2>2. s.number # NoPhone
    BY UserStoreAssumption DEF Phones
  <2> QED BY <2>1, <2>2 DEF Inv, AccountsInv, Exists
<1> QED BY <1>1, AccountsAreSafe, PTL

\* One session per code, and no more wrong guesses than the limit and the
\* requests in flight together allow.
THEOREM CodesAreAlwaysGuarded == Spec => []CodesAreGuarded
<1>1. Inv => CodesAreGuarded
  <2> SUFFICES ASSUME Inv, NEW c \in Codes
               PROVE  opened[c] <= 1 /\ codes[c].attempts < MaxAttempts + Cardinality(Calls)
    BY DEF CodesAreGuarded, CodeIsSpentOnce, GuessesAreBounded
  <2>1. Missing(c) \in SUBSET Calls
    BY DEF Missing
  <2>2. codes[c].attempts \in Nat /\ MaxAttempts \in Nat
    BY SignInAssumption DEF Inv, TypeInv, TypeOK, OTPCode
  <2>3. codes[c].attempts + Cardinality(Missing(c)) < MaxAttempts + Cardinality(Calls)
    BY DEF Inv, GuessesInv
  <2> QED BY <2>1, <2>2, <2>3, FewerThanCalls DEF Inv, CodesInv
<1> QED BY <1>1, AccountsAreSafe, PTL

\* No overlap of edits leaves an address book without its one default.
THEOREM AlwaysOneDefaultAddress == Spec => []OneDefaultAddress
<1>1. Inv => OneDefaultAddress
  BY DEF Inv, BooksInv, ValidBook, OneDefaultAddress
<1> QED BY <1>1, AccountsAreSafe, PTL
=============================================================================
