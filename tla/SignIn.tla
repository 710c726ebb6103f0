------------------------------- MODULE SignIn -------------------------------
(***************************************************************************)
(* Sign-in (internal/auth/service.go and repository.go): a one-time code   *)
(* is requested and verified, or an MSG91 widget token is exchanged; both  *)
(* end in UpsertUser.  A session's token names the user by _id.  A request *)
(* that is refused by its first read changes nothing and is not a step.    *)
(***************************************************************************)
EXTENDS UserStore, FiniteSets

CONSTANTS
  CodeTTL, MaxAttempts, ResendInterval, RateWindow, MaxRequestsPerWindow

ASSUME SignInAssumption ==
  /\ CodeTTL \in Nat \ {0} /\ MaxAttempts \in Nat \ {0}
  /\ ResendInterval \in Nat /\ RateWindow \in Nat /\ MaxRequestsPerWindow \in Nat

Of(phone) == {c \in Codes : codes[c].state = "stored" /\ codes[c].phone = phone}

\* LatestCode: the newest; of two with the same time, either.
Latest(phone) == {c \in Of(phone) : \A d \in Of(phone) :
                                      codes[d].createdAt <= codes[c].createdAt}

Usable(c, t) == /\ ~codes[c].consumed
                /\ codes[c].attempts < MaxAttempts
                /\ t < codes[c].createdAt + CodeTTL

----------------------------------------------------------------------------
(* RequestCode: checkRateLimit counts and looks at the latest, then create, send *)

RequestCode(p, phone) ==
  /\ LET recent == {c \in Of(phone) : codes[c].createdAt + RateWindow >= now}
     IN  Cardinality(recent) < MaxRequestsPerWindow
  /\ Begin(p, [NoRequest EXCEPT !.at = "latest", !.phone = phone, !.now = now])
  /\ UNCHANGED <<store, history>>

ResendAllowed(p) ==
  /\ call[p].at = "latest"
  /\ \A c \in Latest(call[p].phone) : codes[c].createdAt + ResendInterval <= call[p].now
  /\ Goto(p, "create")
  /\ UNCHANGED <<store, history>>

CreateCode(p) ==
  /\ call[p].at = "create"
  /\ \E c \in Codes :
       /\ codes[c].state = "unused"
       /\ codes' = [codes EXCEPT ![c].state = "stored", ![c].phone = call[p].phone,
                                 ![c].createdAt = call[p].now]
       /\ call' = [call EXCEPT ![p].at = "send", ![p].code = c]
  /\ UNCHANGED <<users, history>>

Send(p) ==
  /\ call[p].at = "send"
  /\ codes' = [codes EXCEPT ![call[p].code].sent = TRUE]
  /\ End(p)
  /\ UNCHANGED <<users, history>>

\* The TTL index on expiresAt deletes a code some time after it has expired.
ExpireCode(c) ==
  /\ codes[c].state = "stored"
  /\ codes[c].createdAt + CodeTTL <= now
  /\ codes' = [codes EXCEPT ![c].state = "deleted"]
  /\ UNCHANGED <<users, call, history>>

----------------------------------------------------------------------------
(* Verify and CreateSession *)

\* The shopper types a code that was sent, or one that never was.
Verify(p, phone, typed) ==
  /\ typed \in {NoCode} \cup {c \in Codes : codes[c].sent}
  /\ \E c \in Latest(phone) :
       /\ Usable(c, now)
       /\ Begin(p, [NoRequest EXCEPT !.at = IF typed = c THEN "consume" ELSE "miss",
                                     !.phone = phone, !.code = c])
  /\ UNCHANGED <<store, history>>

RecordFailedAttempt(p) ==
  /\ call[p].at = "miss"
  /\ codes' = [codes EXCEPT ![call[p].code].attempts =
                 IF codes[call[p].code].state = "stored" THEN @ + 1 ELSE @]
  /\ End(p)
  /\ UNCHANGED <<users, history>>

\* Bug variant: the update does not ask for consumed:false.
ConsumeCodeAnyway(p) ==
  /\ call[p].at = "consume"
  /\ IF codes[call[p].code].state = "stored"
     THEN codes' = [codes EXCEPT ![call[p].code].consumed = TRUE] /\ Goto(p, "touch")
     ELSE End(p) /\ UNCHANGED codes
  /\ UNCHANGED <<users, history>>

ConsumeCode(p) ==
  /\ call[p].at = "consume"
  /\ LET c == call[p].code IN
     IF codes[c].state = "stored" /\ ~codes[c].consumed
     THEN codes' = [codes EXCEPT ![c].consumed = TRUE] /\ Goto(p, "touch")
     ELSE End(p) /\ UNCHANGED codes
  /\ UNCHANGED <<users, history>>

\* The widget has verified this number, and MSG91 says so of its access token.
CreateSession(p, phone) ==
  /\ Begin(p, [NoRequest EXCEPT !.at = "touch", !.phone = phone])
  /\ UNCHANGED <<store, history>>

----------------------------------------------------------------------------
(* UpsertUser: the number as it is, then its old form renamed, then a new user *)

\* Issue: the session of user u answers the request.
Issue(p, u) ==
  /\ signedIn' = signedIn \cup {[number |-> call[p].phone, user |-> u]}
  /\ opened' = IF call[p].code = NoCode THEN opened
               ELSE [opened EXCEPT ![call[p].code] = @ + 1]
  /\ End(p)

Holders(phone) == {u \in Users : Exists(u) /\ users[u].phone = phone}

TouchUser(p) ==
  /\ call[p].at \in {"touch", "reread"}
  /\ IF Holders(call[p].phone) # {}
     THEN \E u \in Holders(call[p].phone) : Issue(p, u)
     ELSE /\ IF call[p].at = "reread" THEN End(p)
             ELSE Goto(p, IF call[p].phone \in Numbers /\ Legacy[call[p].phone] # NoPhone
                          THEN "migrate" ELSE "insert")
          /\ UNCHANGED history
  /\ UNCHANGED store

\* The rename keeps _id; the unique index on phone refuses it when the number
\* has a document by now.
MigrateLegacyUser(p) ==
  /\ call[p].at = "migrate"
  /\ LET n == call[p].phone IN
     IF Holders(Legacy[n]) = {} THEN Goto(p, "insert") /\ UNCHANGED <<users, history>>
     ELSE IF Holders(n) # {} THEN Goto(p, "reread") /\ UNCHANGED <<users, history>>
     ELSE \E u \in Holders(Legacy[n]) :
            users' = [users EXCEPT ![u].phone = n] /\ Issue(p, u)
  /\ UNCHANGED codes

\* Bug variant: an insert that neither looks again nor has the unique index.
InsertUserBlind(p) ==
  /\ call[p].at = "insert"
  /\ \E u \in Users : /\ ~Exists(u)
                      /\ users' = [users EXCEPT ![u].phone = call[p].phone]
                      /\ Issue(p, u)
  /\ UNCHANGED codes

\* FindOneAndUpdate with upsert: the document there is, or a new one.
InsertUser(p) ==
  /\ call[p].at = "insert"
  /\ IF Holders(call[p].phone) # {}
     THEN \E u \in Holders(call[p].phone) : Issue(p, u) /\ UNCHANGED users
     ELSE \E u \in Users : /\ ~Exists(u)
                           /\ users' = [users EXCEPT ![u].phone = call[p].phone]
                           /\ Issue(p, u)
  /\ UNCHANGED codes
=============================================================================
