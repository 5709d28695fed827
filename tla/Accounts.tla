--------------------------------- MODULE Accounts ------------------------------
(***************************************************************************)
(* Accounts (routes/auth.rs, hysj-db/src/users.rs, devices.rs) and the     *)
(* tokens that act for them (hysj-auth/src/jwt.rs, middleware/auth.rs).    *)
(* register, login and disable_2fa are several SQL statements without a    *)
(* transaction, each a step here; the routes of one statement are a step.  *)
(*                                                                         *)
(* A token names a user and a device, is checked by its signature alone   *)
(* and cannot be recalled: lifetime[a][e] is what is left to the youngest  *)
(* token that names account a and the device of account e.  A request      *)
(* whose token expires before its statement is taken to come before that.  *)
(*                                                                         *)
(* Nothing but register makes a device, so an account has one of its own   *)
(* at most, which is named here by the account.  login takes the id of any *)
(* device: a and e need not be the same, and with a token that names       *)
(* another's device an account can remove its own.  The one-time pre-keys  *)
(* are in PreKeys, passwords, lockout and the limits in Login.             *)
(***************************************************************************)
EXTENDS Naturals

CONSTANTS Accounts,              \* ids of users, never used twice
          Phones,
          Names, NoName,         \* usernames, and the empty one
          AccountTasks,          \* tasks that serve register, login and disable_2fa
          TokenLife,             \* bound: steps in which a token expires
          MaxAccountErrors       \* bound: statements that fail

ASSUME AccountAssumption ==
  /\ NoName \notin Names
  /\ TokenLife \in Nat \ {0} /\ MaxAccountErrors \in Nat

VARIABLES user,                  \* the row of each account, as long as there is one
          device,                \* the device each account registered: "none", "there" or "gone"
          lifetime,
          handling,               \* where the request of each task is
          accountErrors

accountVars == <<user, device, lifetime, handling, accountErrors>>

NewUser == [is |-> "new"]
Deleted == [is |-> "deleted"]
Idle == [at |-> "idle"]

There == {a \in Accounts : user[a].is = "there"}

AccountInit ==
  /\ user = [a \in Accounts |-> NewUser]
  /\ device = [a \in Accounts |-> "none"]
  /\ lifetime = [a \in Accounts |-> [e \in Accounts |-> 0]]
  /\ handling = [t \in AccountTasks |-> Idle]
  /\ accountErrors = 0

-----------------------------------------------------------------------------
\* The request of task t goes on to a statement for account a, or is answered.
GoesTo(t, where, a) == handling' = [handling EXCEPT ![t] = [at |-> where, user |-> a]]
Answers(t) == handling' = [handling EXCEPT ![t] = Idle]

\* create_access_token and create_refresh_token.
Issue(a, e) == lifetime' = [lifetime EXCEPT ![a][e] = TokenLife]

\* UNIQUE of phone_number and of username.
CanCreate(p, n) == \A a \in There : user[a].phone # p /\ user[a].name # n

\* register, up to create_user.  No username is the empty one.
CreateUser(t, a, p, n) ==
  /\ handling[t] = Idle /\ user[a] = NewUser
  /\ CanCreate(p, n)
  /\ user' = [user EXCEPT ![a] =
                [is |-> "there", phone |-> p, name |-> n, twoFactor |-> FALSE]]
  /\ GoesTo(t, "device", a)
  /\ UNCHANGED <<device, lifetime, accountErrors>>

\* register_device; the foreign key wants the user.
RegisterDevice(t) ==
  /\ handling[t].at = "device"
  /\ LET a == handling[t].user
     IN  IF a \in There
         THEN device' = [device EXCEPT ![a] = "there"] /\ GoesTo(t, "keys", a)
         ELSE Answers(t) /\ UNCHANGED device
  /\ UNCHANGED <<user, lifetime, accountErrors>>

\* store_pre_keys, which wants the device unless there is nothing to store, and the answer.
StoreFirstKeys(t) ==
  /\ handling[t].at = "keys"
  /\ LET a == handling[t].user
     IN  \/ Issue(a, a)
         \/ device[a] # "there" /\ UNCHANGED lifetime
  /\ Answers(t)
  /\ UNCHANGED <<user, device, accountErrors>>

\* Mutant: has_2fa_enabled is not looked at.
FindWithoutSecondFactor(t, a) ==
  /\ handling[t] = Idle /\ a \in There
  /\ GoesTo(t, "pick", a)
  /\ UNCHANGED <<user, device, lifetime, accountErrors>>

\* login with the right password: with 2FA on, the answer has no tokens.
FindByPhoneNumber(t, a) ==
  /\ handling[t] = Idle /\ a \in There
  /\ ~user[a].twoFactor
  /\ GoesTo(t, "pick", a)
  /\ UNCHANGED <<user, device, lifetime, accountErrors>>

\* The device of account e goes into the token.
Picks(t, e) ==
  handling' = [handling EXCEPT ![t] = [at |-> "seen", user |-> handling[t].user, device |-> e]]

\* Mutant: login does without a device.
PickNoDevice(t, e) ==
  /\ handling[t].at = "pick"
  /\ Picks(t, e)
  /\ UNCHANGED <<user, device, lifetime, accountErrors>>

\* find_by_id for the device the request names, whose ever it is, or else
\* find_one_device_for_user, the account's own: without a row the request ends.
PickDevice(t, e) ==
  /\ handling[t].at = "pick"
  /\ IF device[e] = "there" THEN Picks(t, e) ELSE Answers(t)
  /\ UNCHANGED <<user, device, lifetime, accountErrors>>

\* update_last_seen, an error when there is no row by now, and the answer.
UpdateLastSeen(t) ==
  /\ handling[t].at = "seen"
  /\ IF handling[t].user \in There
     THEN Issue(handling[t].user, handling[t].device) ELSE UNCHANGED lifetime
  /\ Answers(t)
  /\ UNCHANGED <<user, device, accountErrors>>

\* A statement fails.  A restart is this for every task.
AccountError(t) ==
  /\ handling[t] # Idle /\ accountErrors < MaxAccountErrors
  /\ accountErrors' = accountErrors + 1
  /\ Answers(t)
  /\ UNCHANGED <<user, device, lifetime>>

-----------------------------------------------------------------------------
\* AuthUser: any token that is signed and has not expired.
Authenticated(a) == \E e \in Accounts : lifetime[a][e] > 0

\* refresh asks the database nothing.
Refresh(a, e) ==
  /\ lifetime[a][e] \in 1 .. TokenLife - 1
  /\ Issue(a, e)
  /\ UNCHANGED <<user, device, handling, accountErrors>>

TokensAge(a, e) ==
  /\ lifetime[a][e] > 0
  /\ lifetime' = [lifetime EXCEPT ![a][e] = @ - 1]
  /\ UNCHANGED <<user, device, handling, accountErrors>>

\* delete_device: a device of the user, and not the one the token names.
DeleteDevice(a) ==
  /\ \E e \in Accounts \ {a} : lifetime[a][e] > 0
  /\ device[a] = "there"
  /\ device' = [device EXCEPT ![a] = "gone"]
  /\ UNCHANGED <<user, lifetime, handling, accountErrors>>

\* setup_2fa stores a secret and turns 2FA on at once; verify_2fa only reads.
Setup2fa(a) ==
  /\ Authenticated(a) /\ a \in There
  /\ user' = [user EXCEPT ![a].twoFactor = TRUE]
  /\ UNCHANGED <<device, lifetime, handling, accountErrors>>

\* disable_2fa: the row is read and the code is right ...
CheckCode(t, a) ==
  /\ handling[t] = Idle /\ Authenticated(a) /\ a \in There
  /\ user[a].twoFactor
  /\ GoesTo(t, "disable", a)
  /\ UNCHANGED <<user, device, lifetime, accountErrors>>

\* ... and the UPDATE clears whatever secret is there by now.
Disable2fa(t) ==
  /\ handling[t].at = "disable"
  /\ user' = IF handling[t].user \in There
             THEN [user EXCEPT ![handling[t].user].twoFactor = FALSE] ELSE user
  /\ Answers(t)
  /\ UNCHANGED <<device, lifetime, accountErrors>>

SetUsername(a, n) ==
  /\ Authenticated(a) /\ a \in There
  /\ \A b \in There \ {a} : user[b].name # n
  /\ user' = [user EXCEPT ![a].name = n]
  /\ UNCHANGED <<device, lifetime, handling, accountErrors>>

\* delete_account; the schema deletes what refers to the user, tokens stay.
DeleteAccount(a) ==
  /\ Authenticated(a) /\ a \in There
  /\ user' = [user EXCEPT ![a] = Deleted]
  /\ device' = [device EXCEPT ![a] = IF @ = "there" THEN "gone" ELSE @]
  /\ UNCHANGED <<lifetime, handling, accountErrors>>

AccountNext ==
  \/ \E t \in AccountTasks, a \in Accounts :
       \/ \E p \in Phones, n \in Names \cup {NoName} : CreateUser(t, a, p, n)
       \/ FindByPhoneNumber(t, a) \/ PickDevice(t, a) \/ CheckCode(t, a)
  \/ \E t \in AccountTasks :
       \/ RegisterDevice(t) \/ StoreFirstKeys(t) \/ UpdateLastSeen(t)
       \/ Disable2fa(t) \/ AccountError(t)
  \/ \E a \in Accounts :
       \/ \E e \in Accounts : Refresh(a, e) \/ TokensAge(a, e)
       \/ Setup2fa(a) \/ DeleteDevice(a) \/ DeleteAccount(a)
       \/ \E n \in Names : SetUsername(a, n)

AccountSpec == AccountInit /\ [][AccountNext]_accountVars

-----------------------------------------------------------------------------
(* Properties *)

UserRows ==
  {NewUser, Deleted}
    \cup [is : {"there"}, phone : Phones, name : Names \cup {NoName}, twoFactor : BOOLEAN]

AccountTypeOK ==
  /\ user \in [Accounts -> UserRows]
  /\ device \in [Accounts -> {"none", "there", "gone"}]
  /\ \A a \in Accounts : device[a] = "there" => a \in There
  /\ lifetime \in [Accounts -> [Accounts -> 0 .. TokenLife]]
  /\ handling \in [AccountTasks -> {Idle}
       \cup [at : {"device", "keys", "pick", "disable"}, user : Accounts]
       \cup [at : {"seen"}, user : Accounts, device : Accounts]]
  /\ accountErrors \in 0 .. MaxAccountErrors

\* Whatever a token names, or a login is about to put into one, is a device that was
\* registered, whatever registrations failed half way and whatever is deleted meanwhile:
\* the relay and the pre-key routes take the device of the token for granted.  Whose
\* device it is, and that its row is still there, nobody promises.
TokensNameDevices == \A a, e \in Accounts :
  lifetime[a][e] > 0 \/ (\E t \in AccountTasks :
                            handling[t] = [at |-> "seen", user |-> a, device |-> e])
    => device[e] # "none"

\* Nobody can act for a: no token, no request in progress, and login refuses.
LockedOut(a) ==
  /\ a \in There /\ ~Authenticated(a)
  /\ \A t \in AccountTasks : handling[t] = Idle \/ handling[t].user # a
  /\ user[a].twoFactor

\* An account whose last token expired with 2FA on is locked out for good (the second step
\* of login, which requires_2fa announces, has no route): no request changes its row or
\* takes its phone number over.
LockedForGood ==
  [][\A a \in Accounts : LockedOut(a) => LockedOut(a)' /\ user'[a] = user[a]]_accountVars

\* auth.rs:49, "Username is optional": a phone number without an account can be registered
\* without one.
UsernameOptional == \A p \in Phones :
  (\A a \in There : user[a].phone # p) => CanCreate(p, NoName)
=============================================================================
