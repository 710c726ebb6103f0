---------------------------- MODULE AddressBook ----------------------------
(***************************************************************************)
(* The address book (internal/auth/address.go): every edit reads the user, *)
(* computes the whole new list and writes it back with SetAddresses, so    *)
(* that an edit between the two is lost.  MongoDB cannot express "exactly  *)
(* one default"; each list that is written has it.                         *)
(***************************************************************************)
EXTENDS UserStore, SequencesExt

\* The list with the flag set on the entries at these positions, cleared on the rest.
Flagged(book, at) ==
  [i \in DOMAIN book |-> [id |-> book[i].id, isDefault |-> i \in at]]

Defaults(book) == {i \in DOMAIN book : book[i].isDefault}

PromoteFirst(book) == IF Defaults(book) = {} THEN Flagged(book, {1}) ELSE book

ApplyDefault(book, id, makeDefault) ==
  IF makeDefault THEN Flagged(book, {i \in DOMAIN book : book[i].id = id})
  ELSE PromoteFirst(book)

Added(book, id, isDefault) ==
  LET default == isDefault \/ Len(book) = 0
  IN  ApplyDefault(Append(book, [id |-> id, isDefault |-> default]), id, default)

Updated(book, i, isDefault) ==
  LET keeps == Defaults(book) \ {i}
  IN  ApplyDefault(Flagged(book, IF isDefault THEN keeps \cup {i} ELSE keeps), book[i].id,
                   isDefault \/ book[i].isDefault)

\* Bug variant: no one takes over from a deleted default.
DeletedUnpromoted(book, i) == RemoveAt(book, i)

Deleted(book, i) == PromoteFirst(RemoveAt(book, i))

----------------------------------------------------------------------------

\* UserByID for the user the token names, and the list the edit will write.
Edit(p, u, book) ==
  /\ Begin(p, [NoRequest EXCEPT !.at = "write", !.user = u, !.next = book])
  /\ UNCHANGED <<store, history>>

AddAddress(p, u, a, isDefault) ==
  /\ a \notin made
  /\ made' = made \cup {a}
  /\ Edit(p, u, Added(users[u].addresses, a, isDefault))

At(u, a) == {i \in DOMAIN users[u].addresses : users[u].addresses[i].id = a}

UpdateAddress(p, u, a, isDefault) ==
  /\ \E i \in At(u, a) : Edit(p, u, Updated(users[u].addresses, i, isDefault))
  /\ UNCHANGED made

DeleteAddress(p, u, a) ==
  /\ \E i \in At(u, a) : Edit(p, u, Deleted(users[u].addresses, i))
  /\ UNCHANGED made

SetAddresses(p) ==
  /\ call[p].at = "write"
  /\ users' = [users EXCEPT ![call[p].user].addresses = call[p].next]
  /\ End(p)
  /\ UNCHANGED <<codes, history, made>>
=============================================================================
