------------------------------ MODULE Accounts ------------------------------
(***************************************************************************)
(* Sign-in and the address book over one users collection, with requests   *)
(* that overlap, requests that fail between two steps, and a clock.        *)
(***************************************************************************)
EXTENDS SignIn, AddressBook

CONSTANTS
  MaxNow,   \* bound of the clock
  Works     \* bound: which endpoints the shoppers of one behaviour use

ASSUME AccountsAssumption ==
  /\ IsFiniteSet(Calls)
  /\ MaxNow \in Nat
  /\ Works \subseteq SUBSET {"otp", "widget", "addresses"}

VARIABLE work

vars == <<users, codes, call, now, signedIn, opened, made, work>>

Init == StoreInit /\ work \in Works

\* A token names a user who has signed in, now or before the numbers were
\* stored with their country code.
HasToken(u) == \/ \E s \in signedIn : s.user = u
               \/ \E n \in Numbers : OldAccount[n] = u

\* A database, MSG91 or e-mail error, or the end of the process.
Fail(p) ==
  /\ call[p].at # "idle"
  /\ End(p)
  /\ UNCHANGED <<store, history>>

Tick == now < MaxNow /\ now' = now + 1 /\ UNCHANGED <<users, codes, call, history, made, work>>

AskForCode(p) == "otp" \in work /\ \E phone \in Phones : RequestCode(p, phone)
TypeCode(p) == "otp" \in work /\ \E phone \in Phones, typed \in Codes \cup {NoCode} : Verify(p, phone, typed)
ExchangeToken(p) == "widget" \in work /\ \E n \in Numbers : CreateSession(p, n)

SigningIn(p) ==
  /\ \/ AskForCode(p) \/ ResendAllowed(p) \/ CreateCode(p) \/ Send(p)
     \/ TypeCode(p) \/ RecordFailedAttempt(p) \/ ConsumeCode(p)
     \/ ExchangeToken(p)
     \/ TouchUser(p) \/ MigrateLegacyUser(p) \/ InsertUser(p) \/ Fail(p)
  /\ UNCHANGED <<now, made, work>>

EditBook(p) ==
  /\ "addresses" \in work
  /\ \E u \in {v \in Users : HasToken(v)}, a \in Addresses :
       \/ \E isDefault \in BOOLEAN :
            AddAddress(p, u, a, isDefault) \/ UpdateAddress(p, u, a, isDefault)
       \/ DeleteAddress(p, u, a)

Shipping(p) == (EditBook(p) \/ SetAddresses(p)) /\ UNCHANGED <<now, work>>

Expiry == \E c \in Codes : ExpireCode(c) /\ UNCHANGED <<now, made, work>>

Next == (\E p \in Calls : SigningIn(p) \/ Shipping(p)) \/ Expiry \/ Tick

Spec == Init /\ [][Next]_vars
----------------------------------------------------------------------------

TypeOK ==
  /\ users \in [Users -> User]
  /\ codes \in [Codes -> OTPCode]
  /\ call \in [Calls -> Request]
  /\ now \in Nat
  /\ signedIn \subseteq [number : Phones, user : Users]
  /\ opened \in [Codes -> Nat]
  /\ made \subseteq Addresses

\* A number in its stored form always signs in to one account, and to the one
\* it had in the old form if it had one: two first sign-ins at once, or a
\* sign-in beside the migration, never split a shopper's account
\* (repository.go, UpsertUser).
NumberKeepsItsAccount ==
  \A s \in signedIn : s.number \in Numbers =>
    /\ \A t \in signedIn : t.number = s.number => t.user = s.user
    /\ OldAccount[s.number] \in {s.user, NoUser}

\* Of requests that carry the same correct code one at most becomes a session
\* (service.go, Verify).
CodeIsSpentOnce == \A c \in Codes : opened[c] <= 1

\* Wrong guesses read the counter before they raise it, so those in flight
\* together can pass the limit, but by no more than there are of them.
GuessesAreBounded ==
  \A c \in Codes : codes[c].attempts < MaxAttempts + Cardinality(Calls)

CodesAreGuarded == CodeIsSpentOnce /\ GuessesAreBounded

\* A book that is not empty has exactly one default, whatever edits overlap
\* (address.go, applyDefault).
OneDefault(book) ==
  DOMAIN book # {} => \E i \in DOMAIN book : \A j \in DOMAIN book : book[j].isDefault <=> j = i

OneDefaultAddress == \A u \in Users : OneDefault(users[u].addresses)
=============================================================================
