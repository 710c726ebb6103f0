----------------------------- MODULE UserStore -----------------------------
(***************************************************************************)
(* The shopper accounts (internal/auth): the users collection, the         *)
(* otp_codes collection, and the requests being handled.  call[p] is the   *)
(* request of process p: the step it is at and the locals its next steps   *)
(* use.  A request awaits the database (or MSG91) between two steps, so    *)
(* other requests run there.                                               *)
(*                                                                         *)
(* A phone number is stored in one of two forms: with its country code     *)
(* (Numbers), or, in documents older than 2026-08-24, an Indian number's   *)
(* ten digits (Legacy[n], NoPhone for a number that has no such form).     *)
(***************************************************************************)
EXTENDS Naturals, Sequences

CONSTANTS
  Numbers,       \* phone numbers with their country code
  LegacyForms,   \* ten-digit forms
  Legacy,        \* Numbers -> LegacyForms \cup {NoPhone}: legacyIndianPhone
  NoPhone,       \* no phone: no document
  Users,         \* ids of user documents
  NoUser,
  OldAccount,    \* Numbers -> Users \cup {NoUser}: accounts stored in the old form
  Codes,         \* ids of one-time codes
  NoCode,        \* a guess that is nobody's code
  Addresses,     \* ids of addresses
  Calls          \* processes that handle a request

Phones == Numbers \cup LegacyForms

ASSUME UserStoreAssumption ==
  /\ NoPhone \notin Phones /\ NoUser \notin Users /\ NoCode \notin Codes
  /\ Numbers \cap LegacyForms = {}
  /\ Legacy \in [Numbers -> LegacyForms \cup {NoPhone}]
  /\ \A m, n \in Numbers : Legacy[m] = Legacy[n] /\ Legacy[m] # NoPhone => m = n
  /\ OldAccount \in [Numbers -> Users \cup {NoUser}]
  /\ \A m, n \in Numbers : OldAccount[m] = OldAccount[n] /\ OldAccount[m] # NoUser => m = n
  /\ \A n \in Numbers : OldAccount[n] # NoUser => Legacy[n] # NoPhone

VARIABLES
  users,      \* user id -> its document; phone NoPhone: there is none
  codes,      \* code id -> its document; state "stored": there is one
  call,       \* process -> the request it handles
  now,        \* the clock
  signedIn,   \* history: the sessions issued, [number, user]
  opened,     \* history: code id -> sessions it has opened
  made        \* address ids handed out so far

store == <<users, codes>>
history == <<signedIn, opened>>

Entry == [id : Addresses, isDefault : BOOLEAN]
Book == Seq(Entry)

User == [phone : Phones \cup {NoPhone}, addresses : Book]

OTPCode == [state : {"unused", "stored", "deleted"}, phone : Phones \cup {NoPhone},
            sent : BOOLEAN, attempts : Nat, consumed : BOOLEAN, createdAt : Nat]

Step == {"idle", "latest", "create", "send", "miss", "consume",
         "touch", "migrate", "reread", "insert", "write"}

Request == [at : Step, phone : Phones \cup {NoPhone}, code : Codes \cup {NoCode},
            user : Users \cup {NoUser}, next : Book, now : Nat]

NoRequest == [at |-> "idle", phone |-> NoPhone, code |-> NoCode, user |-> NoUser,
              next |-> << >>, now |-> 0]

NoDocument == [phone |-> NoPhone, addresses |-> << >>]

Exists(u) == users[u].phone # NoPhone

Begin(p, req) == call[p].at = "idle" /\ call' = [call EXCEPT ![p] = req]
Goto(p, at) == call' = [call EXCEPT ![p].at = at]
End(p) == call' = [call EXCEPT ![p] = NoRequest]

UnusedCode == [state |-> "unused", phone |-> NoPhone, sent |-> FALSE, attempts |-> 0,
               consumed |-> FALSE, createdAt |-> 0]

StoreInit ==
  /\ users = [u \in Users |->
                IF \E n \in Numbers : OldAccount[n] = u
                THEN [phone |-> Legacy[CHOOSE n \in Numbers : OldAccount[n] = u],
                      addresses |-> << >>]
                ELSE NoDocument]
  /\ codes = [c \in Codes |-> UnusedCode]
  /\ call = [p \in Calls |-> NoRequest]
  /\ now = 0
  /\ signedIn = {}
  /\ opened = [c \in Codes |-> 0]
  /\ made = {}
=============================================================================
