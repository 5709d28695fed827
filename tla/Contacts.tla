--------------------------------- MODULE Contacts ------------------------------
(***************************************************************************)
(* Contact lists and contact requests (routes/contacts.rs, routes/         *)
(* contact_requests.rs, hysj-db/src/contacts.rs, contact_requests.rs).     *)
(* Each route is one SQL statement after a look at the users table, which  *)
(* this module takes as constant; only accept_request writes three times,  *)
(* and it ignores the failures of the last two.                            *)
(*                                                                         *)
(* Nicknames are left out.  The row of a user's own name can only come     *)
(* from a block, the one route that does not refuse it.                    *)
(***************************************************************************)
EXTENDS Naturals, Sequences, SequencesExt

CONSTANTS People,
          ContactTasks,          \* tasks that serve accept_request
          MaxContactErrors       \* bound on the statements that fail, and on restarts

ASSUME ContactAssumption == MaxContactErrors \in Nat

VARIABLES requests,              \* contact_requests: pairs <<from, to>>
          contacts,              \* contacts[u][v]: "none", "contact" or "blocked"
          accepting,             \* the INSERTs each task has still to do
          accepted,              \* requests that were accepted and nothing undone since
          contactErrors

contactVars == <<requests, contacts, accepting, accepted, contactErrors>>

\* The two directions of a request, in the order accept_request adds them.
Rows(r) == << <<r[2], r[1]>>, <<r[1], r[2]>> >>

ContactInit ==
  /\ requests = {}
  /\ contacts = [u \in People |-> [v \in People |-> "none"]]
  /\ accepting = [t \in ContactTasks |-> << >>]
  /\ accepted = {}
  /\ contactErrors = 0

-----------------------------------------------------------------------------
\* The acceptances that have to do with the contact row of u and v.
About(u, v) == {<<u, v>>, <<v, u>>}

\* send_request: to somebody else, and a second one fails.
SendRequest(u, v) ==
  /\ u # v /\ <<u, v>> \notin requests
  /\ requests' = requests \cup {<<u, v>>}
  /\ UNCHANGED <<contacts, accepting, accepted, contactErrors>>

\* reject_request, by the one it was sent to.
RejectRequest(r) ==
  /\ r \in requests
  /\ requests' = requests \ {r}
  /\ UNCHANGED <<contacts, accepting, accepted, contactErrors>>

\* accept_request: DELETE ... RETURNING gives the request to one call.
AcceptRequest(t, r) ==
  /\ accepting[t] = << >> /\ r \in requests
  /\ requests' = requests \ {r}
  /\ accepting' = [accepting EXCEPT ![t] = Rows(r)]
  /\ accepted' = accepted \cup {r}
  /\ UNCHANGED <<contacts, contactErrors>>

\* Mutant: on a row that is there, the INSERT clears the block.
InsertedOver(u, v) == [contacts EXCEPT ![u][v] = "contact"]

\* The INSERT of add_contact: an error, and no change, when there is a row.
Inserted(u, v) ==
  [contacts EXCEPT ![u][v] = IF @ = "none" THEN "contact" ELSE @]

\* Mutant: the request ends at an INSERT that finds a row.
AcceptInsertOrFail(t) ==
  /\ accepting[t] # << >>
  /\ LET row == Head(accepting[t])
     IN  contacts' = Inserted(row[1], row[2])
  /\ accepting' = [accepting EXCEPT ![t] = IF contacts' = contacts THEN << >> ELSE Tail(@)]
  /\ UNCHANGED <<requests, accepted, contactErrors>>

\* accept_request goes on to the next INSERT whatever becomes of this one.
AcceptInsert(t) ==
  /\ accepting[t] # << >>
  /\ LET row == Head(accepting[t])
     IN  contacts' = Inserted(row[1], row[2])
  /\ accepting' = [accepting EXCEPT ![t] = Tail(@)]
  /\ UNCHANGED <<requests, accepted, contactErrors>>

\* The INSERT fails for another reason, and so silently.
AcceptInsertError(t) ==
  /\ accepting[t] # << >>
  /\ contactErrors < MaxContactErrors
  /\ contactErrors' = contactErrors + 1
  /\ LET row == Head(accepting[t])
     IN  accepted' = accepted \ About(row[1], row[2])
  /\ accepting' = [accepting EXCEPT ![t] = Tail(@)]
  /\ UNCHANGED <<requests, contacts>>

\* The server restarts: what is left of the requests being served is gone.
ContactCrash ==
  /\ contactErrors < MaxContactErrors
  /\ contactErrors' = contactErrors + 1
  /\ accepted' = {r \in accepted : \A t \in ContactTasks :
                    accepting[t] = << >> \/ Last(accepting[t]) # r}
  /\ accepting' = [t \in ContactTasks |-> << >>]
  /\ UNCHANGED <<requests, contacts>>

\* add_contact of routes/contacts.rs: one way only.
AddContact(u, v) ==
  /\ u # v
  /\ contacts' = Inserted(u, v)
  /\ UNCHANGED <<requests, accepting, accepted, contactErrors>>

RemoveContact(u, v) ==
  /\ contacts[u][v] # "none"
  /\ contacts' = [contacts EXCEPT ![u][v] = "none"]
  /\ accepted' = accepted \ About(u, v)
  /\ UNCHANGED <<requests, accepting, contactErrors>>

\* block_contact: an upsert, also of strangers.
BlockContact(u, v) ==
  /\ contacts' = [contacts EXCEPT ![u][v] = "blocked"]
  /\ UNCHANGED <<requests, accepting, accepted, contactErrors>>

\* unblock_contact: a stranger who was blocked stays as a contact.
UnblockContact(u, v) ==
  /\ contacts[u][v] # "none"
  /\ contacts' = [contacts EXCEPT ![u][v] = "contact"]
  /\ UNCHANGED <<requests, accepting, accepted, contactErrors>>

ContactNext ==
  \/ \E u, v \in People :
       \/ SendRequest(u, v) \/ AddContact(u, v) \/ RemoveContact(u, v)
       \/ BlockContact(u, v) \/ UnblockContact(u, v)
  \/ \E r \in requests : RejectRequest(r) \/ \E t \in ContactTasks : AcceptRequest(t, r)
  \/ \E t \in ContactTasks : AcceptInsert(t) \/ AcceptInsertError(t)
  \/ ContactCrash

ContactSpec == ContactInit /\ [][ContactNext]_contactVars

-----------------------------------------------------------------------------
(* Properties *)

ContactTypeOK ==
  /\ requests \subseteq People \X People
  /\ contacts \in [People -> [People -> {"none", "contact", "blocked"}]]
  /\ accepting \in [ContactTasks ->
       {<< >>} \cup {Rows(r) : r \in People \X People}
               \cup {Tail(Rows(r)) : r \in People \X People}]
  /\ accepted \subseteq People \X People
  /\ contactErrors \in 0 .. MaxContactErrors

\* "accept and create mutual contacts" (contact_requests.rs:66): once accept_request has
\* answered, both users list the other, though the INSERTs can meet rows that were there
\* before and come in between those of other requests; unless one failed, or somebody
\* removed the other.
AcceptedAreMutual == \A r \in accepted :
  \/ contacts[r[1]][r[2]] # "none" /\ contacts[r[2]][r[1]] # "none"
  \/ \E t \in ContactTasks : accepting[t] # << >>
       /\ accepting[t] \in {Rows(r), Tail(Rows(r))}

\* A block ends by its owner's hand only: no acceptance of a request that was sent
\* before or after it, by either side, makes a blocked user a contact again.
BlockHolds == [][\A u, v \in People :
  contacts[u][v] = "blocked" /\ contacts'[u][v] # "blocked"
    => UnblockContact(u, v) \/ RemoveContact(u, v)]_contactVars
=============================================================================
