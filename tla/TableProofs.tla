---------------------------- MODULE TableProofs -----------------------------
(***************************************************************************)
(* The tables of the database that several requests work on at once, for   *)
(* any number of users, devices, requests and failing statements.          *)
(*                                                                         *)
(* Accounts: tokens name devices that were registered, and an account that *)
(* is locked out stays so. Inductive, the first says more: a registration  *)
(* about to answer has put its device there.                               *)
(*                                                                         *)
(* Contacts: an accepted request makes both users list each other, and a   *)
(* block ends by its owner's hand. Inductive, the first says more: an      *)
(* acceptance that has one INSERT left has seen the other row there.       *)
(*                                                                         *)
(* Groups: nothing of a group outlives it, and once its admin has left     *)
(* nobody is admin again. Inductive, the first says more: before it is     *)
(* created the group has no rows, nobody waits to be invited and no task   *)
(* works on it, so that a deletion always meets a group that was there.    *)
(*                                                                         *)
(* Pre-keys: a key is given to one request, and the keys of a device stay  *)
(* within what its registration and overlapping uploads can store.         *)
(* Inductive, the first says more: what a request holds, locked or given,  *)
(* is a row of its own, and a row that was given is unused no longer.  So  *)
(* does the second: it counts the keys still to be stored, too.            *)
(***************************************************************************)
EXTENDS Accounts, Contacts, Groups, PreKeys, SequenceTheorems, FiniteSetTheorems, TLAPS

-----------------------------------------------------------------------------
(* Accounts *)

\* The device of a registration that is about to answer was there.
TokenInv ==
  /\ TokensNameDevices
  /\ \A t \in AccountTasks : handling[t].at = "keys" => device[handling[t].user] # "none"

LEMMA AccountInitType == AccountInit => AccountTypeOK
BY AccountAssumption DEF AccountInit, AccountTypeOK, UserRows, There, NewUser, Idle

LEMMA AccountRows ==
  ASSUME AccountTypeOK, NEW a \in There
  PROVE  /\ user[a] \in [is : {"there"}, phone : Phones, name : Names \cup {NoName},
                         twoFactor : BOOLEAN]
         /\ a \in Accounts /\ user[a] # NewUser /\ user[a] # Deleted
BY DEF AccountTypeOK, UserRows, There, NewUser, Deleted

LEMMA IssueType ==
  ASSUME AccountTypeOK, NEW a \in Accounts, NEW e \in Accounts, Issue(a, e)
  PROVE  lifetime' \in [Accounts -> [Accounts -> 0 .. TokenLife]]
<1>1. [lifetime[a] EXCEPT ![e] = TokenLife] \in [Accounts -> 0 .. TokenLife]
  BY AccountAssumption DEF AccountTypeOK
<1>2. lifetime' = [lifetime EXCEPT ![a] = [lifetime[a] EXCEPT ![e] = TokenLife]]
  BY DEF Issue
<1>. QED  BY <1>1, <1>2 DEF AccountTypeOK

LEMMA TaskType ==
  ASSUME AccountTypeOK, NEW t \in AccountTasks,
         \/ RegisterDevice(t) \/ StoreFirstKeys(t) \/ UpdateLastSeen(t) \/ AccountError(t)
         \/ \E e \in Accounts : PickDevice(t, e)
  PROVE  AccountTypeOK'
<1>1. CASE RegisterDevice(t)
  <2>1. handling[t].user \in Accounts
    BY <1>1 DEF AccountTypeOK, RegisterDevice, Idle
  <2>2. CASE handling[t].user \in There
    <3>1. /\ device' \in [Accounts -> {"none", "there", "gone"}]
          /\ \A a \in Accounts : device'[a] = "there" => a \in There
      BY <1>1, <2>1, <2>2 DEF AccountTypeOK, RegisterDevice
    <3>. QED  BY <1>1, <2>1, <2>2, <3>1 DEF AccountTypeOK, RegisterDevice, GoesTo, There
  <2>3. CASE handling[t].user \notin There
    BY <1>1, <2>3 DEF AccountTypeOK, RegisterDevice, Answers, There
  <2>. QED  BY <2>2, <2>3
<1>2. CASE StoreFirstKeys(t)
  <2>1. handling[t].user \in Accounts
    BY <1>2 DEF AccountTypeOK, StoreFirstKeys, Idle
  <2>2. lifetime' \in [Accounts -> [Accounts -> 0 .. TokenLife]]
    BY <1>2, <2>1, IssueType DEF StoreFirstKeys, AccountTypeOK
  <2>. QED  BY <1>2, <2>2 DEF AccountTypeOK, StoreFirstKeys, Answers, There, Idle
<1>3. ASSUME NEW e \in Accounts, PickDevice(t, e)
      PROVE  AccountTypeOK'
  BY <1>3 DEF AccountTypeOK, PickDevice, Picks, Answers, There, Idle
<1>4. CASE UpdateLastSeen(t)
  <2>1. handling[t].user \in Accounts /\ handling[t].device \in Accounts
    BY <1>4 DEF AccountTypeOK, UpdateLastSeen, Idle
  <2>2. lifetime' \in [Accounts -> [Accounts -> 0 .. TokenLife]]
    BY <1>4, <2>1, IssueType DEF UpdateLastSeen, AccountTypeOK
  <2>. QED  BY <1>4, <2>2 DEF AccountTypeOK, UpdateLastSeen, Answers, There, Idle
<1>5. CASE AccountError(t)
  BY <1>5, AccountAssumption DEF AccountTypeOK, AccountError, Answers, There, Idle
<1>. QED  BY <1>1, <1>2, <1>3, <1>4, <1>5

(* A step that changes the row of an account, and perhaps takes its device away. *)
LEMMA RowType ==
  ASSUME AccountTypeOK, NEW a \in Accounts, NEW row \in UserRows,
         user' = [user EXCEPT ![a] = row],
         device' \in [Accounts -> {"none", "there", "gone"}],
         \A e \in Accounts \ {a} : device'[e] = device[e],
         device'[a] = "there" => row.is = "there"
  PROVE  /\ user' \in [Accounts -> UserRows]
         /\ \A e \in Accounts : device'[e] = "there" => e \in There'
BY DEF AccountTypeOK, There

LEMMA UserType ==
  ASSUME AccountTypeOK, NEW a \in Accounts,
         Setup2fa(a) \/ DeleteDevice(a) \/ DeleteAccount(a)
           \/ \E n \in Names : SetUsername(a, n)
  PROVE  AccountTypeOK'
<1>1. CASE Setup2fa(a)
  <2>1. [user[a] EXCEPT !.twoFactor = TRUE] \in UserRows
        /\ [user[a] EXCEPT !.twoFactor = TRUE].is = "there"
    BY <1>1, AccountRows DEF Setup2fa, UserRows
  <2>. QED  BY <1>1, <2>1, RowType DEF Setup2fa, AccountTypeOK
<1>2. CASE DeleteAccount(a)
  <2>1. Deleted \in UserRows
    BY DEF UserRows
  <2>2. /\ device' \in [Accounts -> {"none", "there", "gone"}]
        /\ \A e \in Accounts \ {a} : device'[e] = device[e]
        /\ device'[a] # "there"
    BY <1>2 DEF DeleteAccount, AccountTypeOK
  <2>. QED  BY <1>2, <2>1, <2>2, RowType DEF DeleteAccount, AccountTypeOK
<1>3. ASSUME NEW n \in Names, SetUsername(a, n)
      PROVE  AccountTypeOK'
  <2>1. [user[a] EXCEPT !.name = n] \in UserRows
        /\ [user[a] EXCEPT !.name = n].is = "there"
    BY <1>3, AccountRows DEF SetUsername, UserRows
  <2>. QED  BY <1>3, <2>1, RowType DEF SetUsername, AccountTypeOK
<1>4. CASE DeleteDevice(a)
  BY <1>4 DEF DeleteDevice, AccountTypeOK, There
<1>. QED  BY <1>1, <1>2, <1>3, <1>4

LEMMA AccountTypeStep == AccountTypeOK /\ [AccountNext]_accountVars => AccountTypeOK'
<1>. SUFFICES ASSUME AccountTypeOK, [AccountNext]_accountVars PROVE AccountTypeOK'
  OBVIOUS
<1>1. ASSUME NEW t \in AccountTasks, NEW a \in Accounts, NEW p \in Phones,
             NEW n \in Names \cup {NoName}, CreateUser(t, a, p, n)
      PROVE  AccountTypeOK'
  <2>1. [is |-> "there", phone |-> p, name |-> n, twoFactor |-> FALSE] \in UserRows
    BY DEF UserRows
  <2>2. /\ user' \in [Accounts -> UserRows]
        /\ \A e \in Accounts : device'[e] = "there" => e \in There'
    BY <1>1, <2>1, RowType DEF CreateUser, AccountTypeOK
  <2>. QED  BY <1>1, <2>2 DEF CreateUser, GoesTo, AccountTypeOK
<1>2. ASSUME NEW t \in AccountTasks, NEW a \in Accounts,
             FindByPhoneNumber(t, a) \/ CheckCode(t, a)
      PROVE  AccountTypeOK'
  BY <1>2 DEF AccountTypeOK, FindByPhoneNumber, CheckCode, GoesTo, There
<1>3. ASSUME NEW t \in AccountTasks, Disable2fa(t)
      PROVE  AccountTypeOK'
  <2>1. CASE handling[t].user \in There
    <3>. DEFINE a == handling[t].user
    <3>1. [user[a] EXCEPT !.twoFactor = FALSE] \in UserRows
          /\ [user[a] EXCEPT !.twoFactor = FALSE].is = "there" /\ a \in Accounts
      BY <2>1, AccountRows DEF UserRows
    <3>2. /\ user' \in [Accounts -> UserRows]
          /\ \A e \in Accounts : device'[e] = "there" => e \in There'
      BY <1>3, <2>1, <3>1, RowType DEF Disable2fa, AccountTypeOK
    <3>. QED  BY <1>3, <3>2 DEF Disable2fa, Answers, AccountTypeOK
  <2>2. CASE handling[t].user \notin There
    BY <1>3, <2>2 DEF AccountTypeOK, Disable2fa, Answers, There
  <2>. QED  BY <2>1, <2>2
<1>4. ASSUME NEW a \in Accounts, NEW e \in Accounts, Refresh(a, e) \/ TokensAge(a, e)
      PROVE  AccountTypeOK'
  <2>1. lifetime' \in [Accounts -> [Accounts -> 0 .. TokenLife]]
    <3>1. CASE Refresh(a, e)
      BY <3>1, IssueType DEF Refresh
    <3>2. CASE TokensAge(a, e)
      <4>1. [lifetime[a] EXCEPT ![e] = @ - 1] \in [Accounts -> 0 .. TokenLife]
        BY <3>2, AccountAssumption DEF AccountTypeOK, TokensAge
      <4>2. lifetime' = [lifetime EXCEPT ![a] = [lifetime[a] EXCEPT ![e] = @ - 1]]
        BY <3>2 DEF TokensAge
      <4>. QED  BY <4>1, <4>2 DEF AccountTypeOK
    <3>. QED  BY <1>4, <3>1, <3>2
  <2>. QED  BY <1>4, <2>1 DEF AccountTypeOK, Refresh, TokensAge, There
<1>5. CASE UNCHANGED accountVars
  BY <1>5 DEF AccountTypeOK, accountVars, There
<1>. QED  BY <1>1, <1>2, <1>3, <1>4, <1>5, TaskType, UserType DEF AccountNext

(* Type correctness of the account routes: rows, devices, tokens and requests are of
   their types, and a device belongs to an account that exists. *)
THEOREM AccountTypeCorrect == AccountSpec => []AccountTypeOK
BY AccountInitType, AccountTypeStep, PTL DEF AccountSpec

-----------------------------------------------------------------------------
LEMMA InitTokens == AccountInit => TokenInv
BY DEF AccountInit, TokenInv, TokensNameDevices, Idle

(* A step that issues no token and moves no request on. *)
LEMMA NoTokens ==
  ASSUME AccountTypeOK, TokenInv,
         \A a, e \in Accounts : lifetime'[a][e] > 0 => lifetime[a][e] > 0,
         \A a \in Accounts : device[a] # "none" => device'[a] # "none",
         \A t \in AccountTasks :
           handling'[t] \in {handling[t], Idle} \/ handling'[t].at \in {"device", "pick", "disable"}
  PROVE  TokenInv'
<1>1. ASSUME NEW t \in AccountTasks, handling'[t].at \in {"seen", "keys"}
      PROVE  handling'[t] = handling[t]
  BY <1>1 DEF Idle
<1>2. ASSUME NEW a \in Accounts, NEW e \in Accounts, lifetime'[a][e] > 0
      PROVE  device'[e] # "none"
  BY <1>2 DEF TokenInv, TokensNameDevices
<1>3. ASSUME NEW a \in Accounts, NEW e \in Accounts, NEW t \in AccountTasks,
             handling'[t] = [at |-> "seen", user |-> a, device |-> e]
      PROVE  device'[e] # "none"
  BY <1>1, <1>3 DEF TokenInv, TokensNameDevices
<1>4. ASSUME NEW t \in AccountTasks, handling'[t].at = "keys"
      PROVE  device'[handling'[t].user] # "none"
  <2>1. handling'[t] = handling[t] /\ handling[t].at = "keys"
    BY <1>1, <1>4
  <2>2. handling[t].user \in Accounts
    BY <2>1 DEF AccountTypeOK, Idle
  <2>. QED  BY <2>1, <2>2 DEF TokenInv
<1>. QED  BY <1>2, <1>3, <1>4 DEF TokenInv, TokensNameDevices

(* A step that issues a token for a device that was registered. *)
LEMMA NewToken ==
  ASSUME AccountTypeOK, TokenInv, NEW t \in AccountTasks, NEW a \in Accounts,
         NEW e \in Accounts, Issue(a, e), device[e] # "none", device' = device,
         handling' = [handling EXCEPT ![t] = Idle] \/ handling' = handling
  PROVE  TokenInv'
<1>1. \A b, d \in Accounts : lifetime'[b][d] > 0 => lifetime[b][d] > 0 \/ d = e
  BY DEF Issue, AccountTypeOK
<1>2. \A s \in AccountTasks : handling'[s] \in {handling[s], Idle}
  BY DEF AccountTypeOK
<1>. QED  BY <1>1, <1>2 DEF TokenInv, TokensNameDevices, Idle

LEMMA TokenStep == AccountTypeOK /\ TokenInv /\ [AccountNext]_accountVars => TokenInv'
<1>. SUFFICES ASSUME AccountTypeOK, TokenInv, [AccountNext]_accountVars PROVE TokenInv'
  OBVIOUS
<1>1. ASSUME NEW t \in AccountTasks, NEW a \in Accounts, NEW p \in Phones,
             NEW n \in Names \cup {NoName}, CreateUser(t, a, p, n)
      PROVE  TokenInv'
  BY <1>1, NoTokens DEF CreateUser, GoesTo, AccountTypeOK
<1>2. ASSUME NEW t \in AccountTasks, NEW a \in Accounts,
             FindByPhoneNumber(t, a) \/ CheckCode(t, a)
      PROVE  TokenInv'
  BY <1>2, NoTokens DEF FindByPhoneNumber, CheckCode, GoesTo, AccountTypeOK
<1>3. ASSUME NEW t \in AccountTasks, Disable2fa(t) \/ AccountError(t)
      PROVE  TokenInv'
  BY <1>3, NoTokens DEF Disable2fa, AccountError, Answers, AccountTypeOK
<1>4. ASSUME NEW t \in AccountTasks, RegisterDevice(t)
      PROVE  TokenInv'
  <2>1. handling[t].user \in Accounts
    BY <1>4 DEF RegisterDevice, AccountTypeOK, Idle
  <2>2. CASE handling[t].user \in There
    <3>1. /\ \A a \in Accounts : device[a] # "none" => device'[a] # "none"
          /\ device'[handling[t].user] # "none"
      BY <1>4, <2>1, <2>2 DEF RegisterDevice, AccountTypeOK
    <3>2. \A s \in AccountTasks : \/ handling'[s] = handling[s]
                                  \/ handling'[s] = [at |-> "keys", user |-> handling[t].user]
      BY <1>4, <2>2 DEF RegisterDevice, GoesTo, AccountTypeOK
    <3>3. lifetime' = lifetime
      BY <1>4 DEF RegisterDevice
    <3>4. ASSUME NEW s \in AccountTasks, handling'[s].at = "seen"
          PROVE  handling'[s] = handling[s]
      BY <3>2, <3>4
    <3>5. TokensNameDevices'
      BY <3>1, <3>3, <3>4 DEF TokenInv, TokensNameDevices
    <3>6. ASSUME NEW s \in AccountTasks, handling'[s].at = "keys"
          PROVE  device'[handling'[s].user] # "none"
      <4>1. CASE handling'[s] = handling[s]
        <5>1. handling[s].user \in Accounts /\ device[handling[s].user] # "none"
          BY <3>6, <4>1 DEF TokenInv, AccountTypeOK, Idle
        <5>. QED  BY <3>1, <4>1, <5>1
      <4>2. CASE handling'[s] = [at |-> "keys", user |-> handling[t].user]
        BY <3>1, <4>2
      <4>. QED  BY <3>2, <4>1, <4>2
    <3>. QED  BY <3>5, <3>6 DEF TokenInv
  <2>3. CASE handling[t].user \notin There
    BY <1>4, <2>3, NoTokens DEF RegisterDevice, Answers, AccountTypeOK
  <2>. QED  BY <2>2, <2>3
<1>5. ASSUME NEW t \in AccountTasks, StoreFirstKeys(t)
      PROVE  TokenInv'
  <2>. DEFINE a == handling[t].user
  <2>1. a \in Accounts /\ device[a] # "none"
    BY <1>5 DEF StoreFirstKeys, AccountTypeOK, Idle, TokenInv
  <2>2. CASE Issue(a, a)
    BY <1>5, <2>1, <2>2, NewToken DEF StoreFirstKeys, Answers
  <2>3. CASE UNCHANGED lifetime
    BY <1>5, <2>3, NoTokens DEF StoreFirstKeys, Answers, AccountTypeOK
  <2>. QED  BY <1>5, <2>2, <2>3 DEF StoreFirstKeys
<1>6. ASSUME NEW t \in AccountTasks, NEW e \in Accounts, PickDevice(t, e)
      PROVE  TokenInv'
  <2>1. CASE device[e] = "there"
    <3>1. \A s \in AccountTasks : handling'[s] = handling[s] \/ handling'[s].at = "seen"
      BY <1>6, <2>1 DEF PickDevice, Picks, AccountTypeOK
    <3>2. ASSUME NEW s \in AccountTasks, NEW a \in Accounts, NEW d \in Accounts,
                 handling'[s] = [at |-> "seen", user |-> a, device |-> d]
          PROVE  device[d] # "none"
      <4>1. CASE s = t
        <5>1. d = e
          BY <1>6, <2>1, <3>2, <4>1 DEF PickDevice, Picks, AccountTypeOK
        <5>. QED  BY <2>1, <5>1
      <4>2. CASE s # t
        <5>1. handling[s] = [at |-> "seen", user |-> a, device |-> d]
          BY <1>6, <2>1, <3>2, <4>2 DEF PickDevice, Picks, AccountTypeOK
        <5>. QED  BY <5>1 DEF TokenInv, TokensNameDevices
      <4>. QED  BY <4>1, <4>2
    <3>. QED  BY <1>6, <3>1, <3>2 DEF PickDevice, TokenInv, TokensNameDevices
  <2>2. CASE device[e] # "there"
    BY <1>6, <2>2, NoTokens DEF PickDevice, Answers, AccountTypeOK
  <2>. QED  BY <2>1, <2>2
<1>7. ASSUME NEW t \in AccountTasks, UpdateLastSeen(t)
      PROVE  TokenInv'
  <2>. DEFINE a == handling[t].user
              e == handling[t].device
  <2>1. /\ a \in Accounts /\ e \in Accounts
        /\ handling[t] = [at |-> "seen", user |-> a, device |-> e]
    BY <1>7 DEF UpdateLastSeen, AccountTypeOK, Idle
  <2>2. device[e] # "none"
    BY <2>1 DEF TokenInv, TokensNameDevices
  <2>3. CASE a \in There
    BY <1>7, <2>1, <2>2, <2>3, NewToken DEF UpdateLastSeen, Answers
  <2>4. CASE a \notin There
    BY <1>7, <2>4, NoTokens DEF UpdateLastSeen, Answers, AccountTypeOK
  <2>. QED  BY <2>3, <2>4
<1>8. ASSUME NEW a \in Accounts, NEW e \in Accounts, Refresh(a, e)
      PROVE  TokenInv'
  <2>1. lifetime[a][e] > 0
    BY <1>8, AccountAssumption DEF Refresh
  <2>2. \A b, d \in Accounts : lifetime'[b][d] > 0 => lifetime[b][d] > 0
    BY <1>8, <2>1 DEF Refresh, Issue, AccountTypeOK
  <2>. QED  BY <1>8, <2>2, NoTokens DEF Refresh
<1>9. ASSUME NEW a \in Accounts, NEW e \in Accounts, TokensAge(a, e)
      PROVE  TokenInv'
  <2>1. \A b, d \in Accounts : lifetime'[b][d] > 0 => lifetime[b][d] > 0
    BY <1>9, AccountAssumption DEF TokensAge, AccountTypeOK
  <2>. QED  BY <1>9, <2>1, NoTokens DEF TokensAge
<1>10. ASSUME NEW a \in Accounts,
              Setup2fa(a) \/ DeleteDevice(a) \/ DeleteAccount(a)
                \/ \E n \in Names : SetUsername(a, n)
       PROVE  TokenInv'
  BY <1>10, NoTokens DEF Setup2fa, DeleteDevice, DeleteAccount, SetUsername, AccountTypeOK
<1>11. CASE UNCHANGED accountVars
  BY <1>11, NoTokens DEF accountVars
<1>. QED
  BY <1>1, <1>2, <1>3, <1>4, <1>5, <1>6, <1>7, <1>8, <1>9, <1>10, <1>11 DEF AccountNext

(* register and login hand out tokens for devices that were registered, also when accounts
   and devices are deleted, or a statement fails, between any two of their statements. *)
THEOREM TokensOfDevices == AccountSpec => []TokensNameDevices
<1>1. TokenInv => TokensNameDevices
  BY DEF TokenInv
<1>. QED  BY <1>1, AccountInitType, AccountTypeStep, InitTokens, TokenStep, PTL
          DEF AccountSpec

-----------------------------------------------------------------------------
\* A step that does nothing for a.
Untouched(a) ==
  /\ user'[a] = user[a] /\ lifetime'[a] = lifetime[a]
  /\ \A t \in AccountTasks : \/ handling'[t] \in {handling[t], Idle}
                             \/ handling'[t].user # a

LEMMA UntouchedStaysLocked ==
  ASSUME NEW a \in Accounts, LockedOut(a), Untouched(a)
  PROVE  LockedOut(a)'
BY DEF Untouched, LockedOut, There, Authenticated

LEMMA LockStep ==
  ASSUME AccountTypeOK, [AccountNext]_accountVars, NEW a \in Accounts, LockedOut(a)
  PROVE  LockedOut(a)' /\ user'[a] = user[a]
<1>0. \A e \in Accounts : ~(lifetime[a][e] > 0)
  BY DEF LockedOut, Authenticated
<1>1. ASSUME NEW t \in AccountTasks, NEW b \in Accounts, NEW p \in Phones,
             NEW n \in Names \cup {NoName}, CreateUser(t, b, p, n)
      PROVE  Untouched(a)
  <2>1. a # b
    BY <1>1, AccountRows DEF CreateUser, LockedOut
  <2>. QED  BY <1>1, <2>1 DEF CreateUser, GoesTo, Untouched, AccountTypeOK
<1>2. ASSUME NEW t \in AccountTasks, NEW b \in Accounts, FindByPhoneNumber(t, b)
      PROVE  Untouched(a)
  BY <1>2 DEF FindByPhoneNumber, GoesTo, Untouched, AccountTypeOK, LockedOut
<1>3. ASSUME NEW t \in AccountTasks, NEW b \in Accounts, CheckCode(t, b)
      PROVE  Untouched(a)
  BY <1>3 DEF CheckCode, GoesTo, Untouched, AccountTypeOK, LockedOut
<1>4. ASSUME NEW t \in AccountTasks,
             \/ RegisterDevice(t) \/ StoreFirstKeys(t) \/ UpdateLastSeen(t)
             \/ Disable2fa(t) \/ \E e \in Accounts : PickDevice(t, e)
      PROVE  Untouched(a)
  <2>1. handling[t] # Idle /\ handling[t].user # a
    BY <1>4 DEF RegisterDevice, StoreFirstKeys, PickDevice, UpdateLastSeen, Disable2fa, Idle,
      LockedOut
  <2>. QED  BY <1>4, <2>1 DEF RegisterDevice, StoreFirstKeys, PickDevice, Picks,
         UpdateLastSeen, Disable2fa, GoesTo, Answers, Issue, Untouched, AccountTypeOK, There
<1>5. ASSUME NEW t \in AccountTasks, AccountError(t)
      PROVE  Untouched(a)
  BY <1>5 DEF AccountError, Answers, Untouched, AccountTypeOK
<1>6. ASSUME NEW b \in Accounts,
             \/ Setup2fa(b) \/ DeleteDevice(b) \/ DeleteAccount(b)
             \/ \E n \in Names : SetUsername(b, n)
      PROVE  Untouched(a)
  <2>1. CASE DeleteDevice(b)
    BY <2>1 DEF DeleteDevice, Untouched
  <2>2. CASE Setup2fa(b) \/ DeleteAccount(b) \/ \E n \in Names : SetUsername(b, n)
    <3>1. b # a
      BY <2>2 DEF Setup2fa, DeleteAccount, SetUsername, LockedOut
    <3>. QED  BY <2>2, <3>1 DEF Setup2fa, DeleteAccount, SetUsername, Untouched, AccountTypeOK
  <2>. QED  BY <1>6, <2>1, <2>2
<1>7. ASSUME NEW b \in Accounts, NEW e \in Accounts, Refresh(b, e) \/ TokensAge(b, e)
      PROVE  Untouched(a)
  <2>1. b # a
    BY <1>0, <1>7, AccountAssumption DEF Refresh, TokensAge
  <2>. QED  BY <1>7, <2>1 DEF Refresh, TokensAge, Issue, Untouched, AccountTypeOK
<1>8. ASSUME UNCHANGED accountVars
      PROVE  Untouched(a)
  BY <1>8 DEF accountVars, Untouched
<1>9. Untouched(a)
  BY <1>1, <1>2, <1>3, <1>4, <1>5, <1>6, <1>7, <1>8 DEF AccountNext
<1>. QED  BY <1>9, UntouchedStaysLocked DEF Untouched

(* An account whose tokens ran out with 2FA on is locked out for ever: whatever is asked of
   the server, its row stays as it is. *)
THEOREM LockedOutForever == AccountSpec => LockedForGood
<1>1. AccountTypeOK /\ [AccountNext]_accountVars =>
        [\A a \in Accounts : LockedOut(a) => LockedOut(a)' /\ user'[a] = user[a]]_accountVars
  BY LockStep
<1>. QED  BY <1>1, AccountInitType, AccountTypeStep, PTL DEF AccountSpec, LockedForGood

-----------------------------------------------------------------------------
(* Contacts *)

MutualInv == \A r \in accepted :
  \/ contacts[r[1]][r[2]] # "none" /\ contacts[r[2]][r[1]] # "none"
  \/ \E t \in ContactTasks : accepting[t] = Rows(r)
  \/ \E t \in ContactTasks : accepting[t] = Tail(Rows(r)) /\ contacts[r[2]][r[1]] # "none"

(* The rows an acceptance adds, one after the other. *)
LEMMA TwoRows ==
  ASSUME NEW r \in People \X People
  PROVE  /\ r = <<r[1], r[2]>> /\ r[1] \in People /\ r[2] \in People
         /\ Rows(r) # << >> /\ Head(Rows(r)) = <<r[2], r[1]>>
         /\ Tail(Rows(r)) = <<r>>
         /\ <<r>> # << >> /\ Head(<<r>>) = r /\ Tail(<<r>>) = << >>
         /\ Last(Rows(r)) = r /\ Last(<<r>>) = r
BY DEF Rows, Last

LEMMA RowsDiffer ==
  ASSUME NEW r \in People \X People, NEW s \in People \X People
  PROVE  Rows(r) # <<s>> /\ (Rows(r) = Rows(s) => r = s) /\ (<<r>> = <<s>> => r = s)
BY DEF Rows

\* What an acceptance has still to do: nothing, or the rows of a request.
LEMMA InProgress ==
  ASSUME ContactTypeOK, NEW t \in ContactTasks, accepting[t] # << >>
  PROVE  \E r \in People \X People : accepting[t] \in {Rows(r), <<r>>}
<1>1. CASE accepting[t] \in {Rows(r) : r \in People \X People}
  BY <1>1
<1>2. CASE accepting[t] \in {Tail(Rows(r)) : r \in People \X People}
  <2>1. PICK r \in People \X People : accepting[t] = Tail(Rows(r))
    BY <1>2
  <2>2. accepting[t] = <<r>>
    BY <2>1, TwoRows
  <2>. QED  BY <2>2
<1>. QED  BY <1>1, <1>2 DEF ContactTypeOK
LEMMA ContactInitType == ContactInit => ContactTypeOK
BY ContactAssumption DEF ContactInit, ContactTypeOK

LEMMA SetType ==
  ASSUME ContactTypeOK, NEW u \in People, NEW v \in People,
         NEW x \in {"none", "contact", "blocked"},
         contacts' = [contacts EXCEPT ![u][v] = x]
  PROVE  /\ contacts' \in [People -> [People -> {"none", "contact", "blocked"}]]
         /\ contacts'[u][v] = x
         /\ \A y, z \in People : <<y, z>> # <<u, v>> => contacts'[y][z] = contacts[y][z]
BY DEF ContactTypeOK

LEMMA InsertedType ==
  ASSUME ContactTypeOK, NEW u \in People, NEW v \in People, contacts' = Inserted(u, v)
  PROVE  /\ contacts' \in [People -> [People -> {"none", "contact", "blocked"}]]
         /\ contacts'[u][v] # "none"
         /\ \A x, y \in People : contacts[x][y] # "none" => contacts'[x][y] = contacts[x][y]
BY DEF ContactTypeOK, Inserted

\* The next INSERT of an acceptance, and what is left after it.
LEMMA NextInsert ==
  ASSUME ContactTypeOK, NEW t \in ContactTasks, accepting[t] # << >>
  PROVE  /\ Head(accepting[t]) \in People \X People
         /\ Tail(accepting[t]) \in {<< >>} \cup {Tail(Rows(r)) : r \in People \X People}
<1>1. PICK r \in People \X People : accepting[t] \in {Rows(r), <<r>>}
  BY InProgress
<1>2. CASE accepting[t] = Rows(r)
  <2>1. Head(accepting[t]) = <<r[2], r[1]>> /\ r[1] \in People /\ r[2] \in People
    BY <1>2, TwoRows
  <2>2. Tail(accepting[t]) \in {Tail(Rows(q)) : q \in People \X People}
    BY <1>2
  <2>. QED  BY <2>1, <2>2
<1>3. CASE accepting[t] = <<r>>
  BY <1>3, TwoRows
<1>. QED  BY <1>1, <1>2, <1>3

LEMMA ContactTypeStep == ContactTypeOK /\ [ContactNext]_contactVars => ContactTypeOK'
<1>. SUFFICES ASSUME ContactTypeOK, [ContactNext]_contactVars PROVE ContactTypeOK'
  OBVIOUS
<1>1. ASSUME NEW u \in People, NEW v \in People, SendRequest(u, v)
      PROVE  ContactTypeOK'
  BY <1>1 DEF SendRequest, ContactTypeOK
<1>2. ASSUME NEW u \in People, NEW v \in People, AddContact(u, v)
      PROVE  ContactTypeOK'
  <2>1. contacts' \in [People -> [People -> {"none", "contact", "blocked"}]]
    BY <1>2, InsertedType DEF AddContact
  <2>. QED  BY <1>2, <2>1 DEF AddContact, ContactTypeOK
<1>3. ASSUME NEW u \in People, NEW v \in People,
             RemoveContact(u, v) \/ BlockContact(u, v) \/ UnblockContact(u, v)
      PROVE  ContactTypeOK'
  <2>1. contacts' \in [People -> [People -> {"none", "contact", "blocked"}]]
    BY <1>3, SetType DEF RemoveContact, BlockContact, UnblockContact
  <2>2. accepted' \subseteq accepted /\ UNCHANGED <<requests, accepting, contactErrors>>
    BY <1>3 DEF RemoveContact, BlockContact, UnblockContact
  <2>. QED  BY <2>1, <2>2 DEF ContactTypeOK
<1>4. ASSUME NEW r \in requests, RejectRequest(r)
      PROVE  ContactTypeOK'
  BY <1>4 DEF RejectRequest, ContactTypeOK
<1>5. ASSUME NEW r \in requests, NEW t \in ContactTasks, AcceptRequest(t, r)
      PROVE  ContactTypeOK'
  BY <1>5 DEF AcceptRequest, ContactTypeOK
<1>6. ASSUME NEW t \in ContactTasks, AcceptInsert(t)
      PROVE  ContactTypeOK'
  <2>1. PICK u \in People, v \in People : Head(accepting[t]) = <<u, v>>
    BY <1>6, NextInsert DEF AcceptInsert
  <2>2. contacts' = Inserted(u, v)
    BY <1>6, <2>1 DEF AcceptInsert
  <2>3. contacts' \in [People -> [People -> {"none", "contact", "blocked"}]]
    BY <2>2, InsertedType
  <2>. QED  BY <1>6, <2>3, NextInsert DEF AcceptInsert, ContactTypeOK
<1>7. ASSUME NEW t \in ContactTasks, AcceptInsertError(t)
      PROVE  ContactTypeOK'
  <2>1. accepted' \subseteq accepted /\ contactErrors' \in 0 .. MaxContactErrors
    BY <1>7, ContactAssumption DEF AcceptInsertError, ContactTypeOK
  <2>. QED  BY <1>7, <2>1, NextInsert DEF AcceptInsertError, ContactTypeOK
<1>8. CASE ContactCrash
  BY <1>8, ContactAssumption DEF ContactCrash, ContactTypeOK
<1>9. CASE UNCHANGED contactVars
  BY <1>9 DEF contactVars, ContactTypeOK
<1>. QED  BY <1>1, <1>2, <1>3, <1>4, <1>5, <1>6, <1>7, <1>8, <1>9 DEF ContactNext

(* Type correctness of contacts: every acceptance under way has the rows of one request
   before it, or the last of them. *)
THEOREM ContactTypeCorrect == ContactSpec => []ContactTypeOK
BY ContactInitType, ContactTypeStep, PTL DEF ContactSpec

-----------------------------------------------------------------------------
LEMMA InitMutual == ContactInit => MutualInv
BY DEF ContactInit, MutualInv

LEMMA MutualEnough == ContactTypeOK /\ MutualInv => AcceptedAreMutual
<1>1. ContactTypeOK => \A r \in accepted : Rows(r) # << >> /\ Tail(Rows(r)) # << >>
  BY TwoRows DEF ContactTypeOK
<1>. QED  BY <1>1 DEF MutualInv, AcceptedAreMutual

(* A step that removes nobody, of whom an accepted request says he is there, and ends no
   acceptance. *)
LEMMA KeepsMutual ==
  ASSUME ContactTypeOK, MutualInv, accepted' \subseteq accepted,
         \A r \in accepted' : /\ contacts[r[1]][r[2]] # "none" => contacts'[r[1]][r[2]] # "none"
                              /\ contacts[r[2]][r[1]] # "none" => contacts'[r[2]][r[1]] # "none",
         \A r \in accepted', t \in ContactTasks :
           accepting[t] \in {Rows(r), Tail(Rows(r))} => accepting'[t] = accepting[t]
  PROVE  MutualInv'
BY DEF MutualInv

LEMMA InsertMutual ==
  ASSUME ContactTypeOK, MutualInv, NEW t \in ContactTasks, AcceptInsert(t)
  PROVE  MutualInv'
<1>1. PICK q \in People \X People : accepting[t] \in {Rows(q), <<q>>}
  BY InProgress DEF AcceptInsert
<1>2. PICK u \in People, v \in People :
        Head(accepting[t]) = <<u, v>> /\ contacts' = Inserted(u, v)
  BY NextInsert DEF AcceptInsert
<1>3. /\ contacts'[u][v] # "none"
      /\ \A x, y \in People : contacts[x][y] # "none" => contacts'[x][y] # "none"
  BY <1>2, InsertedType
<1>4. accepting' = [accepting EXCEPT ![t] = Tail(@)] /\ accepted' = accepted
  BY DEF AcceptInsert
<1>5. SUFFICES ASSUME NEW r \in accepted
               PROVE  \/ contacts'[r[1]][r[2]] # "none" /\ contacts'[r[2]][r[1]] # "none"
                      \/ \E s \in ContactTasks : accepting'[s] = Rows(r)
                      \/ \E s \in ContactTasks :
                           accepting'[s] = Tail(Rows(r)) /\ contacts'[r[2]][r[1]] # "none"
  BY <1>4 DEF MutualInv
<1>6. r \in People \X People /\ r[1] \in People /\ r[2] \in People
  BY TwoRows DEF ContactTypeOK
<1>7. CASE accepting[t] = Rows(r)
  <2>1. <<u, v>> = <<r[2], r[1]>>
    BY <1>2, <1>6, <1>7, TwoRows
  <2>2. accepting'[t] = Tail(Rows(r))
    BY <1>4, <1>7 DEF ContactTypeOK
  <2>. QED  BY <1>3, <2>1, <2>2
<1>8. CASE accepting[t] = Tail(Rows(r)) /\ contacts[r[2]][r[1]] # "none"
  <2>1. <<u, v>> = r
    BY <1>2, <1>6, <1>8, TwoRows
  <2>. QED  BY <1>3, <1>6, <1>8, <2>1
<1>9. CASE \E s \in ContactTasks \ {t} :
             \/ accepting[s] = Rows(r)
             \/ accepting[s] = Tail(Rows(r)) /\ contacts[r[2]][r[1]] # "none"
  BY <1>3, <1>4, <1>6, <1>9 DEF ContactTypeOK
<1>10. CASE contacts[r[1]][r[2]] # "none" /\ contacts[r[2]][r[1]] # "none"
  BY <1>3, <1>6, <1>10
<1>. QED  BY <1>7, <1>8, <1>9, <1>10 DEF MutualInv

LEMMA MutualStep == ContactTypeOK /\ MutualInv /\ [ContactNext]_contactVars => MutualInv'
<1>. SUFFICES ASSUME ContactTypeOK, MutualInv, [ContactNext]_contactVars PROVE MutualInv'
  OBVIOUS
<1>0. \A r \in accepted : r \in People \X People /\ r[1] \in People /\ r[2] \in People
                          /\ r = <<r[1], r[2]>>
  BY DEF ContactTypeOK
<1>1. ASSUME NEW u \in People, NEW v \in People, SendRequest(u, v)
      PROVE  MutualInv'
  BY <1>1, KeepsMutual DEF SendRequest
<1>2. ASSUME NEW u \in People, NEW v \in People, AddContact(u, v)
      PROVE  MutualInv'
  <2>1. \A x, y \in People : contacts[x][y] # "none" => contacts'[x][y] # "none"
    BY <1>2, InsertedType DEF AddContact
  <2>. QED  BY <1>0, <1>2, <2>1, KeepsMutual DEF AddContact
<1>3. ASSUME NEW u \in People, NEW v \in People, BlockContact(u, v) \/ UnblockContact(u, v)
      PROVE  MutualInv'
  <2>1. \A x, y \in People : contacts[x][y] # "none" => contacts'[x][y] # "none"
    BY <1>3, SetType DEF BlockContact, UnblockContact
  <2>. QED  BY <1>0, <1>3, <2>1, KeepsMutual DEF BlockContact, UnblockContact
<1>4. ASSUME NEW u \in People, NEW v \in People, RemoveContact(u, v)
      PROVE  MutualInv'
  <2>1. \A x, y \in People : <<x, y>> # <<u, v>> => contacts'[x][y] = contacts[x][y]
    BY <1>4, SetType DEF RemoveContact
  <2>2. \A r \in accepted' : r \in accepted /\ r # <<u, v>> /\ <<r[2], r[1]>> # <<u, v>>
    BY <1>0, <1>4 DEF RemoveContact, About
  <2>. QED  BY <1>0, <1>4, <2>1, <2>2, KeepsMutual DEF RemoveContact
<1>5. ASSUME NEW r \in requests, RejectRequest(r)
      PROVE  MutualInv'
  BY <1>5, KeepsMutual DEF RejectRequest
<1>6. ASSUME NEW r \in requests, NEW t \in ContactTasks, AcceptRequest(t, r)
      PROVE  MutualInv'
  <2>1. /\ accepting'[t] = Rows(r)
        /\ \A s \in ContactTasks : accepting[s] # << >> => accepting'[s] = accepting[s]
    BY <1>6 DEF AcceptRequest, ContactTypeOK
  <2>2. \A q \in accepted : Rows(q) # << >> /\ Tail(Rows(q)) # << >>
    BY <1>0, TwoRows
  <2>. QED  BY <1>6, <2>1, <2>2 DEF AcceptRequest, MutualInv
<1>7. ASSUME NEW t \in ContactTasks, AcceptInsertError(t)
      PROVE  MutualInv'
  <2>1. PICK q \in People \X People : accepting[t] \in {Rows(q), <<q>>}
    BY <1>7, InProgress DEF AcceptInsertError
  <2>2. Head(accepting[t]) \in {q, <<q[2], q[1]>>} /\ q = <<q[1], q[2]>>
    BY <2>1, TwoRows
  <2>3. \A r \in accepted' : r \in accepted /\ r # q
    BY <1>7, <2>2 DEF AcceptInsertError, About
  <2>4. \A r \in accepted' : accepting[t] \notin {Rows(r), Tail(Rows(r))}
    <3>. TAKE r \in accepted'
    <3>1. r \in People \X People /\ r # q
      BY <1>0, <2>3
    <3>2. Tail(Rows(r)) = <<r>> /\ Rows(q) # <<r>> /\ Rows(r) # <<q>> /\ Rows(q) # Rows(r)
          /\ <<q>> # <<r>>
      BY <3>1, TwoRows, RowsDiffer
    <3>. QED  BY <2>1, <3>2
  <2>. QED  BY <1>7, <2>3, <2>4, KeepsMutual DEF AcceptInsertError, ContactTypeOK
<1>8. CASE ContactCrash
  <2>1. \A r \in accepted', t \in ContactTasks : accepting[t] \notin {Rows(r), Tail(Rows(r))}
    <3>. TAKE r \in accepted', t \in ContactTasks
    <3>1. r \in People \X People /\ (accepting[t] = << >> \/ Last(accepting[t]) # r)
      BY <1>0, <1>8 DEF ContactCrash
    <3>2. /\ Rows(r) # << >> /\ Last(Rows(r)) = r
          /\ Tail(Rows(r)) # << >> /\ Last(Tail(Rows(r))) = r
      BY <3>1, TwoRows
    <3>. QED  BY <3>1, <3>2
  <2>. QED  BY <1>8, <2>1, KeepsMutual DEF ContactCrash
<1>9. CASE UNCHANGED contactVars
  BY <1>9 DEF contactVars, MutualInv
<1>. QED  BY <1>1, <1>2, <1>3, <1>4, <1>5, <1>6, <1>7, <1>8, <1>9, InsertMutual
       DEF ContactNext

(* accept_request makes mutual contacts: when it is over, both users list the other,
   whatever rows its INSERTs meet, unless one failed or somebody removed the other. *)
THEOREM MutualContacts == ContactSpec => []AcceptedAreMutual
<1>1. ContactSpec => [](ContactTypeOK /\ MutualInv)
  BY ContactInitType, ContactTypeStep, InitMutual, MutualStep, PTL DEF ContactSpec
<1>. QED  BY <1>1, MutualEnough, PTL

-----------------------------------------------------------------------------
LEMMA BlockStep ==
  ASSUME ContactTypeOK, [ContactNext]_contactVars, NEW u \in People, NEW v \in People,
         contacts[u][v] = "blocked", contacts'[u][v] # "blocked"
  PROVE  UnblockContact(u, v) \/ RemoveContact(u, v)
<1>1. ASSUME NEW x \in People, NEW y \in People
      PROVE  contacts' # Inserted(x, y)
  BY InsertedType
<1>2. ASSUME NEW x \in People, NEW y \in People
      PROVE  ~AddContact(x, y) /\ ~BlockContact(x, y)
  BY <1>1, SetType DEF AddContact, BlockContact
<1>3. ASSUME NEW t \in ContactTasks
      PROVE  ~AcceptInsert(t)
  BY <1>1, NextInsert DEF AcceptInsert
<1>4. contacts' # contacts
  OBVIOUS
<1>5. PICK x \in People, y \in People : UnblockContact(x, y) \/ RemoveContact(x, y)
  BY <1>2, <1>3, <1>4 DEF ContactNext, contactVars, SendRequest, RejectRequest,
    AcceptRequest, AcceptInsertError, ContactCrash
<1>6. <<x, y>> = <<u, v>>
  BY <1>5, SetType DEF UnblockContact, RemoveContact
<1>. QED  BY <1>5, <1>6

(* A block ends by its owner's hand: no acceptance of a request makes a blocked user a
   contact. *)
THEOREM BlocksHold == ContactSpec => BlockHolds
<1>1. ContactTypeOK /\ [ContactNext]_contactVars =>
        [\A u, v \in People : contacts[u][v] = "blocked" /\ contacts'[u][v] # "blocked"
           => UnblockContact(u, v) \/ RemoveContact(u, v)]_contactVars
  BY BlockStep
<1>. QED  BY <1>1, ContactInitType, ContactTypeStep, PTL DEF ContactSpec, BlockHolds

-----------------------------------------------------------------------------
(* Groups *)

RowsInv ==
  /\ group # "there" => Members = {} /\ pinned = {}
  /\ group = "new" => \A t \in GroupTasks : request[t] = NoRequest

LEMMA GroupInitType == GroupInit => GroupTypeOK
BY GroupAssumption DEF GroupInit, GroupTypeOK, GroupRequests

LEMMA AllowType ==
  ASSUME GroupTypeOK, NEW t \in GroupTasks, NEW what \in GroupRequests, Takes(t, what)
  PROVE  GroupTypeOK'
BY DEF GroupTypeOK, Takes

(* A request of a task, after the check, has the fields its statement reads. *)
LEMMA RequestFields ==
  ASSUME GroupTypeOK, NEW t \in GroupTasks
  PROVE  /\ request[t].does \in {"add", "remove", "delete", "deleteGroup"} =>
              request[t] \in [does : {"add", "remove", "delete", "deleteGroup"}, whom : Users]
         /\ request[t].does \in {"pin", "unpin"} =>
              request[t] \in [does : {"pin", "unpin"}, message : Messages]
         /\ NoRequest \in GroupRequests
BY DEF GroupTypeOK, GroupRequests, NoRequest

LEMMA AnswerType ==
  ASSUME GroupTypeOK, NEW t \in GroupTasks, Answer(t)
  PROVE  request' \in [GroupTasks -> GroupRequests]
BY RequestFields DEF GroupTypeOK, Answer

LEMMA StatementType ==
  ASSUME GroupTypeOK, NEW t \in GroupTasks,
         \/ AddMember(t) \/ RemoveMember(t) \/ DeleteMembers(t) \/ DeleteRow(t)
         \/ Pin(t) \/ Unpin(t) \/ GroupError(t)
  PROVE  GroupTypeOK'
<1>1. CASE AddMember(t)
  BY <1>1, AnswerType DEF AddMember, GroupTypeOK
<1>2. CASE RemoveMember(t)
  BY <1>2, AnswerType DEF RemoveMember, GroupTypeOK
<1>3. CASE DeleteMembers(t)
  <2>1. [request[t] EXCEPT !.does = "deleteGroup"] \in GroupRequests
    BY <1>3, RequestFields DEF DeleteMembers, GroupRequests
  <2>. QED  BY <1>3, <2>1 DEF DeleteMembers, GroupTypeOK
<1>4. CASE DeleteRow(t)
  BY <1>4, AnswerType DEF DeleteRow, GroupTypeOK
<1>5. CASE Pin(t)
  BY <1>5, AnswerType, RequestFields DEF Pin, GroupTypeOK
<1>6. CASE Unpin(t)
  BY <1>6, AnswerType DEF Unpin, GroupTypeOK
<1>7. CASE GroupError(t)
  BY <1>7, AnswerType, GroupAssumption DEF GroupError, GroupTypeOK
<1>. QED  BY <1>1, <1>2, <1>3, <1>4, <1>5, <1>6, <1>7

LEMMA GroupTypeStep == GroupTypeOK /\ [GroupNext]_groupVars => GroupTypeOK'
<1>. SUFFICES ASSUME GroupTypeOK, [GroupNext]_groupVars PROVE GroupTypeOK'
  OBVIOUS
<1>1. CASE CreateGroup
  BY <1>1, GroupAssumption DEF CreateGroup, GroupTypeOK
<1>2. CASE InviteError
  BY <1>2, GroupAssumption DEF InviteError, GroupTypeOK
<1>3. ASSUME NEW u \in Users, InviteMember(u) \/ LeaveGroup(u)
      PROVE  GroupTypeOK'
  BY <1>3 DEF InviteMember, LeaveGroup, GroupTypeOK
<1>4. ASSUME NEW t \in GroupTasks, NEW by \in Users, NEW u \in Users,
             AllowAdd(t, by, u) \/ AllowRemove(t, by, u) \/ AllowDelete(t, by)
      PROVE  GroupTypeOK'
  BY <1>4, AllowType DEF AllowAdd, AllowRemove, AllowDelete, GroupRequests
<1>5. ASSUME NEW t \in GroupTasks, NEW by \in Users, NEW m \in Messages,
             AllowPin(t, by, m) \/ AllowUnpin(t, by, m)
      PROVE  GroupTypeOK'
  BY <1>5, AllowType DEF AllowPin, AllowUnpin, GroupRequests
<1>6. CASE UNCHANGED groupVars
  BY <1>6 DEF groupVars, GroupTypeOK
<1>. QED  BY <1>1, <1>2, <1>3, <1>4, <1>5, <1>6, StatementType DEF GroupNext

(* Type correctness of groups: every task has the fields of the request whose check it
   passed. *)
THEOREM GroupTypeCorrect == GroupSpec => []GroupTypeOK
BY GroupInitType, GroupTypeStep, PTL DEF GroupSpec

-----------------------------------------------------------------------------
LEMMA InitRows == GroupInit => RowsInv
BY DEF GroupInit, RowsInv, Members

LEMMA StatementRows ==
  ASSUME GroupTypeOK, RowsInv, NEW t \in GroupTasks,
         \/ AddMember(t) \/ RemoveMember(t) \/ DeleteMembers(t) \/ DeleteRow(t)
         \/ Pin(t) \/ Unpin(t) \/ GroupError(t)
  PROVE  RowsInv'
<1>. USE DEF RowsInv, Members, GroupTypeOK, Answer
<1>1. group # "new"
  BY DEF AddMember, RemoveMember, DeleteMembers, DeleteRow, Pin, Unpin, GroupError, NoRequest
<1>2. CASE AddMember(t)
  BY <1>1, <1>2 DEF AddMember
<1>3. CASE RemoveMember(t)
  BY <1>1, <1>3 DEF RemoveMember
<1>4. CASE DeleteMembers(t)
  BY <1>1, <1>4 DEF DeleteMembers
<1>5. CASE DeleteRow(t)
  BY <1>5 DEF DeleteRow
<1>6. CASE Pin(t)
  BY <1>1, <1>6 DEF Pin
<1>7. CASE Unpin(t)
  BY <1>1, <1>7 DEF Unpin
<1>8. CASE GroupError(t)
  BY <1>1, <1>8 DEF GroupError
<1>. QED  BY <1>2, <1>3, <1>4, <1>5, <1>6, <1>7, <1>8

LEMMA RowsStep == GroupTypeOK /\ RowsInv /\ [GroupNext]_groupVars => RowsInv'
<1>. SUFFICES ASSUME GroupTypeOK, RowsInv, [GroupNext]_groupVars PROVE RowsInv'
  OBVIOUS
<1>. USE DEF RowsInv, Members, GroupTypeOK
<1>1. CASE CreateGroup
  BY <1>1 DEF CreateGroup
<1>2. CASE InviteError
  BY <1>2 DEF InviteError
<1>3. ASSUME NEW u \in Users, InviteMember(u) \/ LeaveGroup(u)
      PROVE  RowsInv'
  BY <1>3 DEF InviteMember, LeaveGroup
<1>4. ASSUME NEW t \in GroupTasks, NEW by \in Members, NEW what \in GroupRequests,
             Takes(t, what)
      PROVE  RowsInv'
  BY <1>4 DEF Takes
<1>5. ASSUME NEW t \in GroupTasks, NEW by \in Users, NEW u \in Users,
             AllowAdd(t, by, u) \/ AllowRemove(t, by, u) \/ AllowDelete(t, by)
      PROVE  RowsInv'
  BY <1>4, <1>5 DEF AllowAdd, AllowRemove, AllowDelete, Admins, GroupRequests
<1>6. ASSUME NEW t \in GroupTasks, NEW by \in Users, NEW m \in Messages,
             AllowPin(t, by, m) \/ AllowUnpin(t, by, m)
      PROVE  RowsInv'
  BY <1>4, <1>6 DEF AllowPin, AllowUnpin, GroupRequests
<1>7. CASE UNCHANGED groupVars
  BY <1>7 DEF groupVars
<1>. QED  BY <1>1, <1>2, <1>3, <1>5, <1>6, <1>7, StatementRows DEF GroupNext

(* No row of a member or of a pinned message outlives the group, though requests that
   passed their checks before write after the deletion. *)
THEOREM NothingOutlives == GroupSpec => []NothingOutlivesGroup
<1>1. GroupSpec => [](GroupTypeOK /\ RowsInv)
  BY GroupInitType, GroupTypeStep, InitRows, RowsStep, PTL DEF GroupSpec
<1>2. RowsInv => NothingOutlivesGroup
  BY DEF RowsInv, NothingOutlivesGroup
<1>. QED  BY <1>1, <1>2, PTL

-----------------------------------------------------------------------------
(* Of an adminless group, no step but a deletion does anything except take members away. *)
LEMMA OrphanStep ==
  ASSUME GroupTypeOK, [GroupNext]_groupVars, Adminless
  PROVE  (Adminless' /\ Members' \subseteq Members) \/ group' = "deleted"
<1>. DEFINE Shrinks == /\ group' = group /\ inviting' = {}
                       /\ \A u \in Users : role'[u] \in {role[u], "none"}
                       /\ \A t \in GroupTasks : request'[t].does # "add"
<1>0. Shrinks => Adminless' /\ Members' \subseteq Members
  BY DEF Adminless, Admins, Members, GroupTypeOK
<1>1. CASE CreateGroup \/ InviteError
  BY <1>1 DEF Adminless, CreateGroup, InviteError
<1>2. ASSUME NEW u \in Users, InviteMember(u) \/ LeaveGroup(u)
      PROVE  Shrinks
  BY <1>2 DEF Adminless, InviteMember, LeaveGroup, GroupTypeOK
<1>3. ASSUME NEW t \in GroupTasks, NEW by \in Users, NEW u \in Users,
             AllowAdd(t, by, u) \/ AllowRemove(t, by, u) \/ AllowDelete(t, by)
      PROVE  FALSE
  BY <1>3 DEF Adminless, AllowAdd, AllowRemove, AllowDelete
<1>4. ASSUME NEW t \in GroupTasks, NEW by \in Users, NEW m \in Messages,
             AllowPin(t, by, m) \/ AllowUnpin(t, by, m)
      PROVE  Shrinks
  BY <1>4 DEF Adminless, AllowPin, AllowUnpin, Takes, GroupTypeOK
<1>5. ASSUME NEW t \in GroupTasks,
             RemoveMember(t) \/ DeleteMembers(t) \/ Pin(t) \/ Unpin(t) \/ GroupError(t)
      PROVE  Shrinks
  <2>1. /\ group' = group /\ inviting' = inviting
        /\ \A u \in Users : role'[u] \in {role[u], "none"}
    BY <1>5 DEF RemoveMember, DeleteMembers, Pin, Unpin, GroupError, GroupTypeOK
  <2>2. CASE DeleteMembers(t)
    <3>1. request'[t] = [request[t] EXCEPT !.does = "deleteGroup"]
      BY <2>2 DEF DeleteMembers, GroupTypeOK
    <3>2. request'[t].does = "deleteGroup"
      BY <2>2, <3>1, RequestFields DEF DeleteMembers
    <3>. QED  BY <2>1, <2>2, <3>2 DEF DeleteMembers, Adminless, GroupTypeOK
  <2>3. CASE Answer(t)
    BY <2>1, <2>3 DEF Answer, Adminless, NoRequest, GroupTypeOK
  <2>. QED  BY <1>5, <2>2, <2>3 DEF RemoveMember, Pin, Unpin, GroupError
<1>6. ASSUME NEW t \in GroupTasks, AddMember(t)
      PROVE  FALSE
  BY <1>6 DEF Adminless, AddMember
<1>7. ASSUME NEW t \in GroupTasks, DeleteRow(t)
      PROVE  group' = "deleted"
  BY <1>7 DEF DeleteRow
<1>8. ASSUME UNCHANGED groupVars
      PROVE  Shrinks
  BY <1>8 DEF groupVars, Adminless
<1>. QED  BY <1>0, <1>1, <1>2, <1>3, <1>4, <1>5, <1>6, <1>7, <1>8 DEF GroupNext

(* A group whose admin has left, as leave_group lets it, stays without one until it is
   deleted, and nobody joins it. *)
THEOREM AdminlessForever == GroupSpec => AdminlessForGood
<1>1. GroupTypeOK /\ [GroupNext]_groupVars =>
        [Adminless => (Adminless' /\ Members' \subseteq Members) \/ group' = "deleted"]_groupVars
  BY OrphanStep
<1>. QED  BY <1>1, GroupInitType, GroupTypeStep, PTL DEF GroupSpec, AdminlessForGood

-----------------------------------------------------------------------------
(* Pre-keys *)

Holds(r) == rpc[r] = "locked" \/ (rpc[r] = "done" /\ bundle[r].oneTime # NoPreKey)

GivenInv ==
  /\ \A r \in Requests : rpc[r] = "done" /\ bundle[r].oneTime # NoPreKey =>
       /\ locked[r] \in DOMAIN rows /\ rows[locked[r]].state # "unused"
       /\ rows[locked[r]].key = bundle[r].oneTime
  /\ \A q, r \in Requests : q # r /\ Holds(q) /\ Holds(r) => locked[q] # locked[r]

LEMMA PreKeyInitType == PreKeyInit => PreKeyTypeOK
<1>1. ASSUME PreKeyInit PROVE rows \in Seq(PreKeyRows) /\ DOMAIN rows = {}
  BY <1>1 DEF PreKeyInit
<1>. QED  BY <1>1, PreKeyAssumption DEF PreKeyInit, PreKeyTypeOK

(* The rows after an INSERT. *)
LEMMA AppendRow ==
  ASSUME PreKeyTypeOK, NEW row \in PreKeyRows, rows' = Append(rows, row)
  PROVE  /\ rows' \in Seq(PreKeyRows)
         /\ Len(rows) \in Nat /\ Len(rows') = Len(rows) + 1
         /\ DOMAIN rows = 1 .. Len(rows) /\ DOMAIN rows' = DOMAIN rows \cup {Len(rows) + 1}
         /\ Len(rows) + 1 \notin DOMAIN rows
         /\ \A i \in DOMAIN rows : rows'[i] = rows[i]
         /\ rows'[Len(rows) + 1] = row
<1>1. rows \in Seq(PreKeyRows)
  BY DEF PreKeyTypeOK
<1>2. /\ rows' \in Seq(PreKeyRows) /\ Len(rows') = Len(rows) + 1
      /\ \A i \in 1 .. Len(rows) : rows'[i] = rows[i]
      /\ rows'[Len(rows) + 1] = row
  BY <1>1, AppendProperties
<1>. QED  BY <1>1, <1>2

(* The rows after an UPDATE or a cascade, which set the state of some. *)
LEMMA SetStates ==
  ASSUME PreKeyTypeOK, NEW I \in SUBSET DOMAIN rows, NEW s \in {"used", "deleted"},
         rows' = [i \in DOMAIN rows |-> rows'[i]],
         \A i \in DOMAIN rows :
           rows'[i] = IF i \in I THEN [rows[i] EXCEPT !.state = s] ELSE rows[i]
  PROVE  /\ rows' \in Seq(PreKeyRows) /\ DOMAIN rows' = DOMAIN rows
         /\ \A i \in DOMAIN rows : /\ rows'[i].device = rows[i].device
                                   /\ rows'[i].key = rows[i].key
                                   /\ rows'[i].state = IF i \in I THEN s ELSE rows[i].state
<1>1. DOMAIN rows = 1 .. Len(rows) /\ Len(rows) \in Nat
      /\ \A i \in DOMAIN rows : rows[i] \in PreKeyRows
  BY DEF PreKeyTypeOK
<1>2. ASSUME NEW i \in DOMAIN rows
      PROVE  /\ rows'[i] \in PreKeyRows
             /\ rows'[i].device = rows[i].device /\ rows'[i].key = rows[i].key
             /\ rows'[i].state = IF i \in I THEN s ELSE rows[i].state
  BY <1>1 DEF PreKeyRows
<1>3. rows' \in [1 .. Len(rows) -> PreKeyRows]
  BY <1>1, <1>2
<1>4. rows' \in Seq(PreKeyRows)
  BY <1>1, <1>3
<1>. QED  BY <1>2, <1>4

LEMMA CommitStates ==
  ASSUME PreKeyTypeOK, NEW r \in Requests, Commit(r)
  PROVE  /\ locked[r] \in DOMAIN rows
         /\ rows' \in Seq(PreKeyRows) /\ DOMAIN rows' = DOMAIN rows
         /\ \A i \in DOMAIN rows :
              /\ rows'[i].device = rows[i].device /\ rows'[i].key = rows[i].key
              /\ rows'[i].state = IF i = locked[r] THEN "used" ELSE rows[i].state
<1>1. locked[r] \in DOMAIN rows
  BY DEF PreKeyTypeOK, Commit, Unused
<1>2. /\ rows' = [i \in DOMAIN rows |-> rows'[i]]
      /\ \A i \in DOMAIN rows :
           rows'[i] = IF i \in {locked[r]} THEN [rows[i] EXCEPT !.state = "used"] ELSE rows[i]
  BY <1>1 DEF Commit, PreKeyTypeOK
<1>3. {locked[r]} \in SUBSET DOMAIN rows
  BY <1>1
<1>. QED  BY <1>1, <1>2, <1>3, SetStates

LEMMA RemoveStates ==
  ASSUME PreKeyTypeOK, NEW d \in Devices, RemoveDevice(d)
  PROVE  /\ rows' \in Seq(PreKeyRows) /\ DOMAIN rows' = DOMAIN rows
         /\ \A i \in DOMAIN rows :
              /\ rows'[i].device = rows[i].device /\ rows'[i].key = rows[i].key
              /\ rows'[i].state = IF rows[i].device = d THEN "deleted" ELSE rows[i].state
<1>. DEFINE I == {i \in DOMAIN rows : rows[i].device = d}
<1>1. /\ rows' = [i \in DOMAIN rows |-> rows'[i]]
      /\ \A i \in DOMAIN rows :
           rows'[i] = IF i \in I THEN [rows[i] EXCEPT !.state = "deleted"] ELSE rows[i]
  BY DEF RemoveDevice
<1>2. \A i \in DOMAIN rows : i \in I <=> rows[i].device = d
  OBVIOUS
<1>3. I \in SUBSET DOMAIN rows
  OBVIOUS
<1>. HIDE DEF I
<1>. QED  BY <1>1, <1>2, <1>3, SetStates

LEMMA InsertedRow ==
  ASSUME PreKeyTypeOK, NEW u \in Uploads, inserted[u] < Len(KeysOf[u])
  PROVE  [device |-> UploadFor[u], key |-> KeysOf[u][inserted[u] + 1], state |-> "unused"]
           \in PreKeyRows
<1>1. inserted[u] + 1 \in 1 .. Len(KeysOf[u])
  BY PreKeyAssumption DEF PreKeyTypeOK
<1>2. KeysOf[u][inserted[u] + 1] \in UploadedKeys
  BY <1>1 DEF UploadedKeys
<1>. QED  BY <1>2, PreKeyAssumption DEF PreKeyRows

LEMMA InsertingFinite ==
  \A d : IsFiniteSet(Inserting(d)) /\ Cardinality(Inserting(d)) \in Nat
<1>. TAKE d
<1>1. Inserting(d) \in SUBSET Uploads
  BY DEF Inserting
<1>. QED  BY <1>1, FS_Subset, FS_CardinalityType, PreKeyAssumption

(* An upload that begins is one more of its device. *)
LEMMA Begun ==
  ASSUME PreKeyTypeOK, NEW u \in Uploads, upc[u] # "insert", BeginInsert(u)
  PROVE  /\ UploadFor[u] \in Devices
         /\ Inserting(UploadFor[u])' = Inserting(UploadFor[u]) \cup {u}
         /\ Cardinality(Inserting(UploadFor[u])) \in Nat
         /\ upc' = [upc EXCEPT ![u] = "insert"]
         /\ together' \in [Devices -> Nat]
         /\ together'[UploadFor[u]] >= Cardinality(Inserting(UploadFor[u])) + 1
         /\ \A e \in Devices \ {UploadFor[u]} : together'[e] = together[e]
<1>. DEFINE d == UploadFor[u]
<1>1. d \in Devices /\ Cardinality(Inserting(d)) \in Nat
  BY PreKeyAssumption, InsertingFinite
<1>2. Inserting(d)' = Inserting(d) \cup {u}
  BY DEF BeginInsert, Inserting, PreKeyTypeOK
<1>. DEFINE n == Cardinality(Inserting(d)) + 1
<1>3. together' = [together EXCEPT ![d] = IF @ < n THEN n ELSE @] /\ together \in [Devices -> Nat]
  BY DEF BeginInsert, PreKeyTypeOK
<1>4. n \in Nat
  BY <1>1
<1>5. together' \in [Devices -> Nat] /\ together'[d] >= n
      /\ \A e \in Devices \ {d} : together'[e] = together[e]
  <2>. HIDE DEF n, d
  <2>. QED  BY <1>1, <1>3, <1>4
<1>. QED  BY <1>1, <1>2, <1>5 DEF BeginInsert

LEMMA UploadType ==
  ASSUME PreKeyTypeOK, NEW u \in Uploads,
         \/ RegisterUpload(u) \/ CountKeys(u) \/ InsertKey(u) \/ InsertError(u)
         \/ InsertDone(u)
  PROVE  PreKeyTypeOK'
<1>0. UploadFor[u] \in Devices
  BY PreKeyAssumption
<1>1. CASE RegisterUpload(u)
  <2>1. upc' = [upc EXCEPT ![u] = "insert"] /\ together' \in [Devices -> Nat]
    BY <1>1, Begun DEF RegisterUpload
  <2>2. /\ exists' = [exists EXCEPT ![UploadFor[u]] = TRUE]
        /\ UNCHANGED <<rows, inserted, rpc, locked, bundle>>
    BY <1>1 DEF RegisterUpload, requestVars
  <2>. QED  BY <1>0, <2>1, <2>2 DEF PreKeyTypeOK, Unused
<1>2. CASE CountKeys(u)
  <2>1. /\ upc' = [upc EXCEPT ![u] = "insert"] \/ upc' = [upc EXCEPT ![u] = "refused"]
        /\ together' \in [Devices -> Nat]
    BY <1>2, Begun DEF CountKeys, Replenishes, PreKeyTypeOK
  <2>2. UNCHANGED <<exists, rows, inserted, rpc, locked, bundle>>
    BY <1>2 DEF CountKeys, requestVars
  <2>3. ASSUME NEW s \in {"insert", "refused"}, upc' = [upc EXCEPT ![u] = s]
        PROVE  PreKeyTypeOK'
    BY <2>1, <2>2, <2>3 DEF PreKeyTypeOK, Unused
  <2>. QED  BY <2>1, <2>3
<1>3. CASE InsertKey(u)
  <2>. DEFINE row == [device |-> UploadFor[u], key |-> KeysOf[u][inserted[u] + 1],
                      state |-> "unused"]
  <2>1. row \in PreKeyRows /\ rows' = Append(rows, row) /\ row.device = UploadFor[u]
    BY <1>3, InsertedRow DEF InsertKey
  <2>. HIDE DEF row
  <2>2. \A i \in DOMAIN rows' : rows'[i].state = "deleted" \/ exists'[rows'[i].device]
    BY <1>3, <2>1, AppendRow DEF InsertKey, PreKeyTypeOK
  <2>3. \A r \in Requests : rpc'[r] = "locked" => locked'[r] \in Unused(RequestFor[r])'
    BY <1>3, <2>1, AppendRow DEF InsertKey, PreKeyTypeOK, Unused, requestVars
  <2>4. inserted' \in [Uploads -> Nat] /\ \A v \in Uploads : inserted'[v] <= Len(KeysOf[v])
    BY <1>3, PreKeyAssumption DEF InsertKey, PreKeyTypeOK
  <2>. QED  BY <1>3, <2>1, <2>2, <2>3, <2>4, AppendRow DEF InsertKey, PreKeyTypeOK, requestVars
<1>4. CASE InsertError(u)
  BY <1>4 DEF InsertError, PreKeyTypeOK, requestVars, Unused
<1>5. CASE InsertDone(u)
  BY <1>5 DEF InsertDone, PreKeyTypeOK, requestVars, Unused
<1>. QED  BY <1>1, <1>2, <1>3, <1>4, <1>5

LEMMA RemoveType ==
  ASSUME PreKeyTypeOK, NEW d \in Devices, RemoveDevice(d)
  PROVE  PreKeyTypeOK'
<1>1. \A i \in DOMAIN rows' : rows'[i].state = "deleted" \/ exists'[rows'[i].device]
  BY RemoveStates DEF RemoveDevice, PreKeyTypeOK
<1>2. \A r \in Requests : rpc'[r] = "locked" => locked'[r] \in Unused(RequestFor[r])'
  BY RemoveStates DEF RemoveDevice, PreKeyTypeOK, Unused, LockedRows, requestVars
<1>3. exists' \in [Devices -> BOOLEAN] /\ UNCHANGED <<uploadVars, requestVars>>
  BY DEF RemoveDevice, PreKeyTypeOK
<1>. QED  BY <1>1, <1>2, <1>3, RemoveStates DEF PreKeyTypeOK, uploadVars, requestVars

LEMMA CommitType ==
  ASSUME PreKeyTypeOK, GivenInv, NEW r \in Requests, Commit(r)
  PROVE  PreKeyTypeOK'
<1>1. \A i \in DOMAIN rows' : rows'[i].state = "deleted" \/ exists'[rows'[i].device]
  BY CommitStates DEF Commit, PreKeyTypeOK, Unused
<1>2. \A q \in Requests : rpc'[q] = "locked" => locked'[q] \in Unused(RequestFor[q])'
  BY CommitStates DEF Commit, PreKeyTypeOK, Unused, GivenInv, Holds
<1>3. BundleOf(RequestFor[r], rows[locked[r]].key)
        \in {BundleOf(d, k) : d \in Devices, k \in UploadedKeys \cup {NoPreKey}}
  <2>1. rows[locked[r]] \in PreKeyRows
    BY CommitStates DEF PreKeyTypeOK
  <2>2. rows[locked[r]].key \in UploadedKeys /\ RequestFor[r] \in Devices
    BY <2>1, PreKeyAssumption DEF PreKeyRows
  <2>. QED  BY <2>2
<1>4. bundle' \in [Requests -> {<< >>} \cup
        {BundleOf(d, k) : d \in Devices, k \in UploadedKeys \cup {NoPreKey}}]
  BY <1>3 DEF Commit, PreKeyTypeOK
<1>5. /\ rpc' \in [Requests -> {"new", "claim", "locked", "failed", "done"}]
      /\ UNCHANGED <<exists, uploadVars, locked>>
  BY DEF Commit, PreKeyTypeOK
<1>. QED  BY <1>1, <1>2, <1>4, <1>5, CommitStates DEF PreKeyTypeOK, uploadVars

LEMMA RequestType ==
  ASSUME PreKeyTypeOK, NEW r \in Requests,
         SelectDevice(r) \/ Claim(r) \/ ClaimNone(r) \/ RequestError(r)
  PROVE  PreKeyTypeOK'
<1>1. CASE SelectDevice(r)
  BY <1>1 DEF SelectDevice, PreKeyTypeOK, uploadVars, Unused
<1>2. CASE Claim(r)
  <2>1. PICK i \in Unused(RequestFor[r]) : locked' = [locked EXCEPT ![r] = i]
    BY <1>2 DEF Claim
  <2>2. i \in Nat
    BY <2>1 DEF Unused, PreKeyTypeOK
  <2>. QED  BY <1>2, <2>1, <2>2 DEF Claim, PreKeyTypeOK, uploadVars, Unused
<1>3. CASE ClaimNone(r)
  <2>1. BundleOf(RequestFor[r], NoPreKey)
          \in {BundleOf(d, k) : d \in Devices, k \in UploadedKeys \cup {NoPreKey}}
    <3>1. RequestFor[r] \in Devices /\ NoPreKey \in UploadedKeys \cup {NoPreKey}
      BY PreKeyAssumption
    <3>. QED  BY <3>1
  <2>. QED  BY <1>3, <2>1 DEF ClaimNone, PreKeyTypeOK, uploadVars, Unused
<1>4. CASE RequestError(r)
  BY <1>4 DEF RequestError, PreKeyTypeOK, uploadVars, Unused
<1>. QED  BY <1>1, <1>2, <1>3, <1>4

-----------------------------------------------------------------------------
LEMMA InitGiven == PreKeyInit => GivenInv
BY DEF PreKeyInit, GivenInv, Holds

LEMMA BundleKey == \A d, k : BundleOf(d, k).oneTime = k
BY DEF BundleOf

(* A step that leaves requests alone and the rows that were given. *)
LEMMA KeepsGiven ==
  ASSUME PreKeyTypeOK, GivenInv, UNCHANGED <<rpc, locked, bundle>>,
         \A i \in DOMAIN rows : /\ i \in DOMAIN rows' /\ rows'[i].key = rows[i].key
                                /\ rows[i].state # "unused" => rows'[i].state # "unused"
  PROVE  GivenInv'
BY DEF GivenInv, Holds

LEMMA RequestGiven ==
  ASSUME PreKeyTypeOK, GivenInv, NEW r \in Requests,
         SelectDevice(r) \/ Claim(r) \/ Commit(r) \/ ClaimNone(r) \/ RequestError(r)
  PROVE  GivenInv'
<1>1. CASE SelectDevice(r)
  BY <1>1 DEF SelectDevice, PreKeyTypeOK, GivenInv, Holds
<1>2. CASE Claim(r)
  <2>1. PICK i \in Unused(RequestFor[r]) \ LockedRows : locked' = [locked EXCEPT ![r] = i]
    BY <1>2 DEF Claim
  <2>2. \A q \in Requests \ {r} : Holds(q) => locked[q] # i
    BY <2>1 DEF GivenInv, Holds, Unused, LockedRows
  <2>. QED  BY <1>2, <2>1, <2>2 DEF Claim, PreKeyTypeOK, GivenInv, Holds
<1>3. CASE Commit(r)
  <2>1. /\ bundle'[r].oneTime = rows[locked[r]].key
        /\ \A q \in Requests \ {r} : bundle'[q] = bundle[q] /\ rpc'[q] = rpc[q]
        /\ rpc[r] = "locked" /\ rpc'[r] = "done" /\ locked' = locked
    BY <1>3, BundleKey DEF Commit, PreKeyTypeOK
  <2>. QED  BY <1>3, <2>1, CommitStates DEF GivenInv, Holds
<1>4. CASE ClaimNone(r)
  <2>1. /\ bundle'[r].oneTime = NoPreKey /\ UNCHANGED <<rows, locked>>
        /\ \A q \in Requests \ {r} : bundle'[q] = bundle[q] /\ rpc'[q] = rpc[q]
        /\ rpc'[r] = "done"
    BY <1>4, BundleKey DEF ClaimNone, PreKeyTypeOK
  <2>. QED  BY <2>1 DEF GivenInv, Holds
<1>5. CASE RequestError(r)
  BY <1>5 DEF RequestError, PreKeyTypeOK, GivenInv, Holds
<1>. QED  BY <1>1, <1>2, <1>3, <1>4, <1>5

LEMMA PreKeyStep ==
  PreKeyTypeOK /\ GivenInv /\ [PreKeyNext]_preKeyVars => (PreKeyTypeOK /\ GivenInv)'
<1>. SUFFICES ASSUME PreKeyTypeOK, GivenInv, [PreKeyNext]_preKeyVars
              PROVE  PreKeyTypeOK' /\ GivenInv'
  OBVIOUS
<1>1. ASSUME NEW u \in Uploads,
             \/ RegisterUpload(u) \/ CountKeys(u) \/ InsertError(u) \/ InsertDone(u)
      PROVE  GivenInv'
  BY <1>1, KeepsGiven DEF RegisterUpload, CountKeys, InsertError, InsertDone, requestVars
<1>2. ASSUME NEW u \in Uploads, InsertKey(u)
      PROVE  GivenInv'
  <2>1. \A i \in DOMAIN rows : i \in DOMAIN rows' /\ rows'[i] = rows[i]
    BY <1>2, InsertedRow, AppendRow DEF InsertKey
  <2>. QED  BY <1>2, <2>1, KeepsGiven DEF InsertKey, requestVars
<1>3. ASSUME NEW d \in Devices, RemoveDevice(d)
      PROVE  GivenInv'
  BY <1>3, RemoveStates, KeepsGiven DEF RemoveDevice, requestVars
<1>4. CASE UNCHANGED preKeyVars
  BY <1>4 DEF preKeyVars, PreKeyTypeOK, GivenInv, Holds, Unused
<1>. QED  BY <1>1, <1>2, <1>3, <1>4, UploadType, RemoveType, CommitType, RequestType,
       RequestGiven DEF PreKeyNext

LEMMA PreKeyInvariant == PreKeySpec => [](PreKeyTypeOK /\ GivenInv)
BY PreKeyInitType, InitGiven, PreKeyStep, PTL DEF PreKeySpec

(* Type correctness of the pre-key server: a locked row is unused, a row outlives its
   device as deleted only. *)
THEOREM PreKeyTypeCorrect == PreKeySpec => []PreKeyTypeOK
BY PreKeyInvariant, PTL

(* claim_one_time_pre_key gives no key to two requests, whatever runs at the same time or
   fails half way, unless the client uploaded it twice. *)
THEOREM KeysGivenOnce == PreKeySpec => []KeyGivenOnce
<1>1. PreKeyTypeOK /\ GivenInv => KeyGivenOnce
  BY DEF GivenInv, KeyGivenOnce, Holds
<1>. QED  BY <1>1, PreKeyInvariant, PTL

-----------------------------------------------------------------------------
\* Nothing is stored for a device before its registration, every later upload that was let
\* in fits the limit alone, and what a device has and is about to have stays in bounds.
ToStore(d) == {w \in Uploads \X Nat : /\ w[1] \in Inserting(d)
                                      /\ w[2] \in inserted[w[1]] + 1 .. Len(KeysOf[w[1]])}

Unregistered(d) == \A u \in Registering : UploadFor[u] = d => upc[u] = "new"

\* Neither the limit nor the registration of d asks for more than n.
Covers(n, d) ==
  /\ n >= MaxPreKeys
  /\ \A u \in Registering : UploadFor[u] = d => Len(KeysOf[u]) <= n

Fits(d) ==
  /\ IsFiniteSet(ToStore(d))
  /\ \A n \in Nat : Covers(n, d) =>
       Cardinality(Unused(d)) + Cardinality(ToStore(d)) <= n + MaxPreKeys * (together[d] - 1)

LetIn(u) == u \notin Registering /\ upc[u] = "insert" => Len(KeysOf[u]) <= MaxPreKeys

LimitInv ==
  /\ \A u \in Uploads : (upc[u] = "new" => inserted[u] = 0) /\ LetIn(u)
  /\ \A d \in Devices : Unregistered(d) => Unused(d) = {} /\ Inserting(d) = {}
  /\ \A d \in Devices : Fits(d)

LEMMA UnusedFinite ==
  ASSUME PreKeyTypeOK, NEW d
  PROVE  IsFiniteSet(Unused(d)) /\ Cardinality(Unused(d)) \in Nat
<1>1. Len(rows) \in Nat /\ Unused(d) \in SUBSET (1 .. Len(rows))
  BY DEF PreKeyTypeOK, Unused
<1>2. IsFiniteSet(1 .. Len(rows))
  BY <1>1, FS_Interval
<1>. QED  BY <1>1, <1>2, FS_Subset, FS_CardinalityType

LEMMA InitLimit == PreKeyInit => LimitInv
<1>. SUFFICES ASSUME PreKeyInit PROVE LimitInv
  OBVIOUS
<1>1. \A d \in Devices : Unused(d) = {} /\ Inserting(d) = {} /\ ToStore(d) = {}
  BY DEF PreKeyInit, Unused, Inserting, ToStore
<1>2. IsFiniteSet({}) /\ Cardinality({}) = 0
  BY FS_EmptySet
<1>3. ASSUME NEW d \in Devices
      PROVE  Fits(d)
  <2>1. \A n \in Nat : n >= MaxPreKeys => 0 + 0 <= n + MaxPreKeys * (0 - 1)
    BY PreKeyAssumption
  <2>. QED  BY <1>1, <1>2, <2>1 DEF Fits, Covers, PreKeyInit
<1>. QED  BY <1>1, <1>3 DEF PreKeyInit, LimitInv, LetIn

LEMMA LimitEnough == PreKeyTypeOK /\ LimitInv => WithinLimit
<1>. SUFFICES ASSUME PreKeyTypeOK, LimitInv, NEW d \in Devices
     PROVE  \E n \in {MaxPreKeys} \cup
                     {Len(KeysOf[u]) : u \in {v \in Registering : UploadFor[v] = d}} :
              Cardinality(Unused(d)) <= n + MaxPreKeys * (together[d] - 1)
  BY DEF WithinLimit
<1>1. Cardinality(Unused(d)) \in Nat /\ Cardinality(ToStore(d)) \in Nat
      /\ MaxPreKeys * (together[d] - 1) \in Int
  BY UnusedFinite, FS_CardinalityType, PreKeyAssumption DEF LimitInv, Fits, PreKeyTypeOK
<1>2. ASSUME NEW n \in Nat, Covers(n, d)
      PROVE  Cardinality(Unused(d)) <= n + MaxPreKeys * (together[d] - 1)
  BY <1>1, <1>2 DEF LimitInv, Fits
<1>3. CASE Covers(MaxPreKeys, d)
  BY <1>2, <1>3, PreKeyAssumption
<1>4. CASE ~Covers(MaxPreKeys, d)
  <2>1. PICK u \in Registering : UploadFor[u] = d /\ ~(Len(KeysOf[u]) <= MaxPreKeys)
    BY <1>4, PreKeyAssumption DEF Covers
  <2>2. Len(KeysOf[u]) \in Nat /\ Covers(Len(KeysOf[u]), d)
    BY <2>1, PreKeyAssumption DEF Covers
  <2>. QED  BY <1>2, <2>1, <2>2
<1>. QED  BY <1>3, <1>4

(* A device that gets nothing new: fewer keys, or uploads that end. *)
LEMMA ShrinkFits ==
  ASSUME PreKeyTypeOK, NEW d \in Devices, Fits(d), together'[d] = together[d],
         Unused(d)' \subseteq Unused(d), ToStore(d)' \subseteq ToStore(d)
  PROVE  Fits(d)'
<1>1. /\ Cardinality(Unused(d)') \in Nat /\ Cardinality(Unused(d)) \in Nat
      /\ Cardinality(Unused(d)') <= Cardinality(Unused(d))
  BY UnusedFinite, FS_Subset, FS_CardinalityType
<1>2. /\ IsFiniteSet(ToStore(d)') /\ Cardinality(ToStore(d)') \in Nat
      /\ Cardinality(ToStore(d)) \in Nat /\ Cardinality(ToStore(d)') <= Cardinality(ToStore(d))
  BY FS_Subset, FS_CardinalityType DEF Fits
<1>3. MaxPreKeys * (together[d] - 1) \in Int
  BY PreKeyAssumption DEF PreKeyTypeOK
<1>4. ASSUME NEW n \in Nat, Covers(n, d)
      PROVE  Cardinality(Unused(d)') + Cardinality(ToStore(d)')
               <= n + MaxPreKeys * (together'[d] - 1)
  BY <1>1, <1>2, <1>3, <1>4 DEF Fits
<1>. QED  BY <1>2, <1>4 DEF Fits, Covers

(* A step that uploads nothing leaves no more unused keys than there were. *)
LEMMA ShrinkLimit ==
  ASSUME PreKeyTypeOK, LimitInv, UNCHANGED uploadVars,
         \A d \in Devices : Unused(d)' \subseteq Unused(d)
  PROVE  LimitInv'
<1>1. \A d \in Devices : Inserting(d)' = Inserting(d) /\ ToStore(d)' = ToStore(d)
  BY DEF Inserting, ToStore, uploadVars
<1>2. \A d \in Devices : Fits(d)'
  BY <1>1, ShrinkFits DEF LimitInv, uploadVars
<1>. QED  BY <1>1, <1>2 DEF LimitInv, Unregistered, LetIn, uploadVars

(* A step of one upload is about its own device. *)
LEMMA OwnDevice ==
  ASSUME PreKeyTypeOK, LimitInv, NEW u \in Uploads,
         \A d \in Devices \ {UploadFor[u]} : Unused(d)' = Unused(d) /\ together'[d] = together[d],
         \A v \in Uploads \ {u} : upc'[v] = upc[v] /\ inserted'[v] = inserted[v],
         upc'[u] # "new", LetIn(u)',
         ~Unregistered(UploadFor[u])', Fits(UploadFor[u])'
  PROVE  LimitInv'
<1>1. ASSUME NEW d \in Devices, d # UploadFor[u]
      PROVE  /\ Inserting(d)' = Inserting(d)
             /\ ToStore(d)' = ToStore(d)
             /\ Unregistered(d)' => Unregistered(d)
  <2>1. Inserting(d)' = Inserting(d)
    BY <1>1 DEF Inserting
  <2>2. \A v \in Inserting(d) : inserted'[v] = inserted[v]
    BY <1>1 DEF Inserting
  <2>3. Unregistered(d)' => Unregistered(d)
    BY <1>1, PreKeyAssumption DEF Unregistered
  <2>. QED  BY <2>1, <2>2, <2>3 DEF ToStore
<1>2. \A d \in Devices : Fits(d)'
  BY <1>1, ShrinkFits DEF LimitInv
<1>3. \A v \in Uploads : LetIn(v)'
  BY DEF LimitInv, LetIn
<1>. QED  BY <1>1, <1>2, <1>3 DEF LimitInv

(* An upload that begins has all its keys to store. *)
LEMMA BegunPending ==
  ASSUME PreKeyTypeOK, LimitInv, NEW u \in Uploads, upc[u] = "new", BeginInsert(u),
         inserted' = inserted
  PROVE  /\ IsFiniteSet(ToStore(UploadFor[u])')
         /\ Cardinality(ToStore(UploadFor[u])) \in Nat
         /\ Cardinality(ToStore(UploadFor[u])') \in Nat
         /\ Cardinality(ToStore(UploadFor[u])')
              <= Cardinality(ToStore(UploadFor[u])) + Len(KeysOf[u])
<1>. DEFINE d == UploadFor[u]
            K == 1 .. Len(KeysOf[u])
<1>1. d \in Devices /\ Inserting(d)' = Inserting(d) \cup {u} /\ inserted[u] = 0
  BY Begun DEF LimitInv
<1>2. ToStore(d)' = ToStore(d) \cup ({u} \X K)
  BY <1>1, PreKeyAssumption DEF ToStore, Inserting, PreKeyTypeOK
<1>3. IsFiniteSet(ToStore(d)) /\ Cardinality(ToStore(d)) \in Nat
  BY <1>1, FS_CardinalityType DEF LimitInv, Fits
<1>4. IsFiniteSet({u} \X K) /\ Cardinality({u} \X K) = Len(KeysOf[u])
  <2>1. Len(KeysOf[u]) \in Nat /\ IsFiniteSet({u}) /\ Cardinality({u}) = 1
    BY PreKeyAssumption, FS_Singleton
  <2>2. IsFiniteSet(K) /\ Cardinality(K) = Len(KeysOf[u])
    BY <2>1, FS_Interval
  <2>. HIDE DEF K
  <2>3. Cardinality({u} \X K) = Cardinality({u}) * Cardinality(K) /\ IsFiniteSet({u} \X K)
    BY <2>1, <2>2, FS_Product
  <2>. QED  BY <2>1, <2>2, <2>3
<1>5. /\ IsFiniteSet(ToStore(d)')
      /\ Cardinality(ToStore(d)') = Cardinality(ToStore(d)) + Cardinality({u} \X K)
                                     - Cardinality(ToStore(d) \cap ({u} \X K))
  <2>. DEFINE P == ToStore(d)
              Q == {u} \X K
  <2>1. IsFiniteSet(P) /\ IsFiniteSet(Q)
    BY <1>3, <1>4
  <2>. HIDE DEF P, Q
  <2>2. IsFiniteSet(P \cup Q)
        /\ Cardinality(P \cup Q) = Cardinality(P) + Cardinality(Q) - Cardinality(P \cap Q)
    BY <2>1, FS_Union
  <2>. QED  BY <1>2, <2>2 DEF P, Q
<1>6. Cardinality(ToStore(d) \cap ({u} \X K)) \in Nat
  BY <1>3, FS_Subset, FS_CardinalityType
<1>7. Cardinality(ToStore(d)') \in Nat
  BY <1>5, FS_CardinalityType
<1>. QED  BY <1>3, <1>4, <1>5, <1>6, <1>7, PreKeyAssumption

LEMMA RegisterLimit ==
  ASSUME PreKeyTypeOK, LimitInv, NEW u \in Uploads, RegisterUpload(u)
  PROVE  LimitInv'
<1>. DEFINE d == UploadFor[u]
<1>1. d \in Devices /\ Unregistered(d)
  BY PreKeyAssumption DEF RegisterUpload, Unregistered
<1>2. Unused(d)' = {} /\ Inserting(d) = {}
  BY <1>1 DEF RegisterUpload, LimitInv, Unused
<1>3. Cardinality(Unused(d)') = 0 /\ Cardinality(ToStore(d)) = 0 /\ Cardinality(Inserting(d)) = 0
  BY <1>2, FS_EmptySet DEF ToStore
<1>4. /\ IsFiniteSet(ToStore(d)') /\ Cardinality(ToStore(d)') \in Nat
      /\ Cardinality(ToStore(d)') <= Len(KeysOf[u])
  BY <1>3, BegunPending, PreKeyAssumption DEF RegisterUpload
<1>5. together'[d] \in Nat /\ together'[d] >= 1
  BY <1>1, <1>3, Begun DEF RegisterUpload
<1>6. MaxPreKeys * (together'[d] - 1) \in Nat
  BY <1>5, PreKeyAssumption
<1>7. Fits(d)'
  BY <1>3, <1>4, <1>6, PreKeyAssumption DEF Fits, Covers, RegisterUpload
<1>8. ~Unregistered(d)' /\ upc'[u] = "insert"
  BY DEF RegisterUpload, BeginInsert, Unregistered, PreKeyTypeOK
<1>9. \A e \in Devices \ {d} : Unused(e)' = Unused(e) /\ together'[e] = together[e]
  BY Begun DEF RegisterUpload, Unused
<1>. QED  BY <1>7, <1>8, <1>9, OwnDevice DEF RegisterUpload, BeginInsert, PreKeyTypeOK, LetIn

(* Every upload under way has at most the limit to store, but the registration what it asks for. *)
LEMMA PendingBound ==
  ASSUME PreKeyTypeOK, LimitInv, NEW d \in Devices, NEW n \in Nat, Covers(n, d)
  PROVE  Cardinality(ToStore(d)) <= MaxPreKeys * Cardinality(Inserting(d)) + (n - MaxPreKeys)
<1>. DEFINE K == 1 .. MaxPreKeys
            M == MaxPreKeys + 1 .. n
            R == {u \in Registering : UploadFor[u] = d}
<1>1. /\ MaxPreKeys \in Nat /\ n >= MaxPreKeys
      /\ IsFiniteSet(Inserting(d)) /\ Cardinality(Inserting(d)) \in Nat
  BY PreKeyAssumption, InsertingFinite DEF Covers
<1>2. /\ IsFiniteSet(K) /\ Cardinality(K) = MaxPreKeys
      /\ IsFiniteSet(M) /\ Cardinality(M) = n - MaxPreKeys
  <2>1. IsFiniteSet(K) /\ Cardinality(K) = IF 1 > MaxPreKeys THEN 0 ELSE MaxPreKeys - 1 + 1
    <3>1. 1 \in Int /\ MaxPreKeys \in Int
      BY <1>1
    <3>. QED  BY <3>1, FS_Interval
  <2>2. /\ IsFiniteSet(M)
        /\ Cardinality(M) = IF MaxPreKeys + 1 > n THEN 0 ELSE n - (MaxPreKeys + 1) + 1
    <3>1. MaxPreKeys + 1 \in Int /\ n \in Int
      BY <1>1
    <3>. QED  BY <3>1, FS_Interval
  <2>. QED  BY <1>1, <2>1, <2>2
<1>3. IsFiniteSet(R) /\ Cardinality(R) \in Nat /\ Cardinality(R) <= 1
  <2>1. CASE R = {}
    BY <2>1, FS_EmptySet
  <2>2. CASE R # {}
    <3>1. PICK u \in R : TRUE
      BY <2>2
    <3>2. R = {u}
      BY <3>1, PreKeyAssumption
    <3>3. IsFiniteSet({u}) /\ Cardinality({u}) = 1
      BY FS_Singleton
    <3>. QED  BY <3>2, <3>3
  <2>. QED  BY <2>1, <2>2
<1>4. ToStore(d) \in SUBSET ((Inserting(d) \X K) \cup (R \X M))
  <2>1. ASSUME NEW u \in Inserting(d), NEW k \in inserted[u] + 1 .. Len(KeysOf[u])
        PROVE  k \in K \/ (u \in R /\ k \in M)
    <3>1. u \in Uploads /\ UploadFor[u] = d /\ upc[u] = "insert"
      BY DEF Inserting
    <3>2. k \in Nat /\ k >= 1 /\ k <= Len(KeysOf[u]) /\ Len(KeysOf[u]) \in Nat
      BY <3>1, PreKeyAssumption DEF PreKeyTypeOK
    <3>3. CASE u \in Registering
      BY <1>1, <3>1, <3>2, <3>3 DEF Covers
    <3>4. CASE u \notin Registering
      BY <1>1, <3>1, <3>2, <3>4 DEF LimitInv, LetIn
    <3>. QED  BY <3>3, <3>4
  <2>2. ASSUME NEW w \in ToStore(d)
        PROVE  w \in (Inserting(d) \X K) \cup (R \X M)
    <3>1. /\ w = <<w[1], w[2]>> /\ w[1] \in Inserting(d)
          /\ w[2] \in inserted[w[1]] + 1 .. Len(KeysOf[w[1]])
      BY DEF ToStore
    <3>2. w[2] \in K \/ (w[1] \in R /\ w[2] \in M)
      BY <2>1, <3>1
    <3>. HIDE DEF K, M, R
    <3>. QED  BY <3>1, <3>2
  <2>. QED  BY <2>2
<1>. HIDE DEF K, M, R
<1>5. /\ IsFiniteSet(Inserting(d) \X K) /\ IsFiniteSet(R \X M)
      /\ Cardinality(Inserting(d) \X K) = Cardinality(Inserting(d)) * MaxPreKeys
      /\ Cardinality(R \X M) = Cardinality(R) * (n - MaxPreKeys)
  BY <1>1, <1>2, <1>3, FS_Product
<1>6. /\ IsFiniteSet((Inserting(d) \X K) \cup (R \X M))
      /\ Cardinality((Inserting(d) \X K) \cup (R \X M))
           = Cardinality(Inserting(d) \X K) + Cardinality(R \X M)
             - Cardinality((Inserting(d) \X K) \cap (R \X M))
  BY <1>5, FS_Union
<1>7. Cardinality((Inserting(d) \X K) \cap (R \X M)) \in Nat
  BY <1>5, FS_Subset, FS_CardinalityType
<1>8. /\ Cardinality(ToStore(d)) <= Cardinality((Inserting(d) \X K) \cup (R \X M))
      /\ Cardinality(ToStore(d)) \in Nat
  BY <1>4, <1>6, FS_Subset, FS_CardinalityType
<1>9. /\ Cardinality(R) * (n - MaxPreKeys) <= n - MaxPreKeys
      /\ Cardinality(R) * (n - MaxPreKeys) \in Nat
  <2>1. Cardinality(R) = 0 \/ Cardinality(R) = 1
    BY <1>3
  <2>. QED  BY <1>1, <2>1
<1>10. /\ Cardinality(Inserting(d)) * MaxPreKeys = MaxPreKeys * Cardinality(Inserting(d))
       /\ Cardinality(Inserting(d)) * MaxPreKeys \in Nat
  BY <1>1
<1>. QED  BY <1>1, <1>5, <1>6, <1>7, <1>8, <1>9, <1>10

LEMMA CountLimit ==
  ASSUME PreKeyTypeOK, LimitInv, NEW u \in Uploads, CountKeys(u)
  PROVE  LimitInv'
<1>. DEFINE d == UploadFor[u]
<1>1. d \in Devices /\ Unused(d)' = Unused(d) /\ upc[u] = "new" /\ u \notin Registering
  BY PreKeyAssumption DEF CountKeys, Replenishes, Unused
<1>2. ~Unregistered(d)' /\ upc'[u] # "new"
  BY PreKeyAssumption DEF CountKeys, Replenishes, BeginInsert, Unregistered, PreKeyTypeOK
<1>3. CASE Cardinality(Unused(d)) + Len(KeysOf[u]) <= MaxPreKeys /\ BeginInsert(u)
  <2>. DEFINE m == Cardinality(Inserting(d))
  <2>1. /\ m \in Nat /\ together'[d] \in Nat /\ together'[d] - 1 >= m
        /\ \A e \in Devices \ {d} : together'[e] = together[e]
    BY <1>1, <1>3, Begun
  <2>2. MaxPreKeys * m <= MaxPreKeys * (together'[d] - 1)
        /\ MaxPreKeys * m \in Nat /\ MaxPreKeys * (together'[d] - 1) \in Nat
    <3>1. \A a, b, c \in Nat : a <= b => c * a <= c * b /\ c * a \in Nat /\ c * b \in Nat
      OBVIOUS
    <3>2. together'[d] - 1 \in Nat /\ MaxPreKeys \in Nat
      BY <2>1, PreKeyAssumption
    <3>. HIDE DEF m, d
    <3>. QED  BY <2>1, <3>1, <3>2
  <2>3. /\ IsFiniteSet(ToStore(d)') /\ Cardinality(ToStore(d)') \in Nat
        /\ Cardinality(ToStore(d)) \in Nat
        /\ Cardinality(ToStore(d)') <= Cardinality(ToStore(d)) + Len(KeysOf[u])
    BY <1>1, <1>3, BegunPending DEF CountKeys
  <2>4. ASSUME NEW n \in Nat, Covers(n, d)
        PROVE  Cardinality(Unused(d)) + Cardinality(ToStore(d)')
                 <= n + MaxPreKeys * (together'[d] - 1)
    <3>1. Cardinality(ToStore(d)) <= MaxPreKeys * m + (n - MaxPreKeys)
      BY <1>1, <2>4, PendingBound
    <3>. HIDE DEF m, d
    <3>. QED  BY <1>3, <2>2, <2>3, <3>1, PreKeyAssumption, UnusedFinite
  <2>5. Fits(d)'
    BY <1>1, <2>3, <2>4 DEF Fits, Covers
  <2>6. LetIn(u)'
    BY <1>3, UnusedFinite, PreKeyAssumption DEF LetIn
  <2>7. \A e \in Devices \ {d} : Unused(e)' = Unused(e) /\ together'[e] = together[e]
    BY <2>1 DEF CountKeys, Unused
  <2>. QED  BY <1>2, <1>3, <2>5, <2>6, <2>7, OwnDevice DEF CountKeys, BeginInsert, PreKeyTypeOK
<1>4. CASE upc' = [upc EXCEPT ![u] = "refused"] /\ UNCHANGED together
  <2>1. Inserting(d)' = Inserting(d) /\ LetIn(u)'
    BY <1>1, <1>4 DEF Inserting, LetIn, PreKeyTypeOK
  <2>2. ToStore(d)' = ToStore(d)
    BY <2>1 DEF ToStore, CountKeys
  <2>3. Fits(d)'
    BY <1>1, <1>4, <2>2, ShrinkFits DEF LimitInv
  <2>. QED  BY <1>2, <1>4, <2>1, <2>3, OwnDevice DEF CountKeys, Unused, PreKeyTypeOK
<1>. QED  BY <1>3, <1>4 DEF CountKeys

LEMMA InsertLimit ==
  ASSUME PreKeyTypeOK, LimitInv, NEW u \in Uploads, InsertKey(u)
  PROVE  LimitInv'
<1>. DEFINE d == UploadFor[u]
            n == Len(rows) + 1
            w == <<u, inserted[u] + 1>>
<1>1. d \in Devices /\ u \in Inserting(d) /\ inserted[u] \in Nat /\ inserted'[u] = inserted[u] + 1
  <2>1. inserted \in [Uploads -> Nat] /\ inserted' = [inserted EXCEPT ![u] = @ + 1]
    BY DEF InsertKey, PreKeyTypeOK
  <2>2. d \in Devices /\ u \in Inserting(d)
    BY PreKeyAssumption DEF InsertKey, Inserting
  <2>. QED  BY <2>1, <2>2
<1>2. \A e \in Devices : Unused(e)' = IF e = d THEN Unused(e) \cup {n} ELSE Unused(e)
  <2>1. /\ DOMAIN rows' = DOMAIN rows \cup {n} /\ n \notin DOMAIN rows
        /\ \A i \in DOMAIN rows : rows'[i] = rows[i]
        /\ rows'[n].device = d /\ rows'[n].state = "unused"
    BY InsertedRow, AppendRow DEF InsertKey
  <2>. QED  BY <2>1 DEF Unused
<1>3. n \notin Unused(d)
  BY AppendRow, InsertedRow DEF Unused, InsertKey
<1>4. Cardinality(Unused(d)') = Cardinality(Unused(d)) + 1 /\ Cardinality(Unused(d)) \in Nat
  BY <1>1, <1>2, <1>3, UnusedFinite, FS_AddElement
<1>5. w \in ToStore(d) /\ ToStore(d)' = ToStore(d) \ {w}
  <2>1. Inserting(d)' = Inserting(d) /\ w \in Uploads \X Nat
    BY <1>1 DEF Inserting, InsertKey
  <2>2. w \in ToStore(d)
    BY <1>1, <2>1, PreKeyAssumption DEF ToStore, InsertKey
  <2>3. ASSUME NEW x \in Uploads \X Nat
        PROVE  x \in ToStore(d)' <=> x \in ToStore(d) /\ x # w
    <3>1. x = <<x[1], x[2]>> /\ x[1] \in Uploads /\ x[2] \in Nat
      OBVIOUS
    <3>2. CASE x[1] = u
      <4>1. Len(KeysOf[u]) \in Nat
        BY PreKeyAssumption
      <4>2. /\ x \in ToStore(d) <=> x[2] \in inserted[u] + 1 .. Len(KeysOf[u])
            /\ x \in ToStore(d)' <=> x[2] \in (inserted[u] + 1) + 1 .. Len(KeysOf[u])
        BY <1>1, <2>1, <3>2 DEF ToStore
      <4>3. x = w <=> x[2] = inserted[u] + 1
        BY <3>1, <3>2
      <4>. QED  BY <1>1, <3>1, <4>1, <4>2, <4>3
    <3>3. CASE x[1] # u
      <4>1. inserted'[x[1]] = inserted[x[1]] /\ x # w
        BY <3>1, <3>3 DEF InsertKey, PreKeyTypeOK
      <4>. QED  BY <2>1, <4>1 DEF ToStore
    <3>. QED  BY <3>2, <3>3
  <2>4. ToStore(d) \subseteq Uploads \X Nat /\ ToStore(d)' \subseteq Uploads \X Nat
    BY DEF ToStore
  <2>. QED  BY <2>2, <2>3, <2>4
<1>6. /\ IsFiniteSet(ToStore(d)') /\ Cardinality(ToStore(d)) \in Nat
      /\ Cardinality(ToStore(d)') = Cardinality(ToStore(d)) - 1
  BY <1>1, <1>5, FS_RemoveElement, FS_CardinalityType DEF LimitInv, Fits
<1>7. Fits(d)'
  BY <1>1, <1>4, <1>6 DEF LimitInv, Fits, Covers, InsertKey
<1>8. ~Unregistered(d)'
  BY <1>1 DEF LimitInv, Unregistered, InsertKey
<1>9. /\ upc'[u] # "new" /\ together' = together /\ LetIn(u)'
      /\ \A v \in Uploads \ {u} : upc'[v] = upc[v] /\ inserted'[v] = inserted[v]
      /\ \A e \in Devices \ {d} : Unused(e)' = Unused(e)
  BY <1>2 DEF InsertKey, PreKeyTypeOK, LimitInv, LetIn
<1>. QED  BY <1>7, <1>8, <1>9, OwnDevice

LEMMA EndLimit ==
  ASSUME PreKeyTypeOK, LimitInv, NEW u \in Uploads, InsertError(u) \/ InsertDone(u)
  PROVE  LimitInv'
<1>. DEFINE d == UploadFor[u]
<1>1. /\ d \in Devices /\ u \in Inserting(d) /\ UNCHANGED <<rows, inserted, together>>
      /\ upc'[u] \in {"failed", "done"}
      /\ \A v \in Uploads \ {u} : upc'[v] = upc[v]
  BY PreKeyAssumption DEF InsertError, InsertDone, Inserting, PreKeyTypeOK
<1>2. Inserting(d)' \subseteq Inserting(d) /\ LetIn(u)'
  BY <1>1 DEF Inserting, LetIn
<1>3. ToStore(d)' \subseteq ToStore(d) /\ \A e \in Devices : Unused(e)' = Unused(e)
  BY <1>1, <1>2 DEF ToStore, Unused
<1>4. Fits(d)'
  BY <1>1, <1>3, ShrinkFits DEF LimitInv
<1>5. ~Unregistered(d)'
  <2>1. PICK v \in Registering : UploadFor[v] = d /\ upc[v] # "new"
    BY <1>1 DEF LimitInv, Unregistered
  <2>2. upc'[v] # "new"
    BY <1>1, <2>1, PreKeyAssumption
  <2>. QED  BY <2>1, <2>2 DEF Unregistered
<1>. QED  BY <1>1, <1>2, <1>3, <1>4, <1>5, OwnDevice

LEMMA LimitStep ==
  PreKeyTypeOK /\ LimitInv /\ [PreKeyNext]_preKeyVars => LimitInv'
<1>. SUFFICES ASSUME PreKeyTypeOK, LimitInv, [PreKeyNext]_preKeyVars PROVE LimitInv'
  OBVIOUS
<1>1. ASSUME NEW d \in Devices, RemoveDevice(d)
      PROVE  LimitInv'
  BY <1>1, RemoveStates, ShrinkLimit DEF RemoveDevice, Unused
<1>2. ASSUME NEW r \in Requests, Commit(r)
      PROVE  LimitInv'
  BY <1>2, CommitStates, ShrinkLimit DEF Commit, Unused
<1>3. ASSUME NEW r \in Requests,
             SelectDevice(r) \/ Claim(r) \/ ClaimNone(r) \/ RequestError(r)
      PROVE  LimitInv'
  BY <1>3, ShrinkLimit DEF SelectDevice, Claim, ClaimNone, RequestError, Unused
<1>4. CASE UNCHANGED preKeyVars
  BY <1>4, ShrinkLimit DEF preKeyVars, uploadVars, Unused
<1>. QED  BY <1>1, <1>2, <1>3, <1>4, RegisterLimit, CountLimit, InsertLimit, EndLimit
       DEF PreKeyNext

(* The keys of a device stay within MAX_PRE_KEYS_PER_DEVICE, or within what its registration
   brought, which nobody counts; and with replenish_pre_keys counting first and storing later,
   every upload that ran together with others can add the limit once more, never more. *)
THEOREM LimitKept == PreKeySpec => []WithinLimit
<1>1. PreKeySpec => []LimitInv
  BY PreKeyInvariant, InitLimit, LimitStep, PTL DEF PreKeySpec
<1>. QED  BY <1>1, PreKeyInvariant, LimitEnough, PTL

-----------------------------------------------------------------------------
\* The one-time pre-keys a device generated are those it uploaded.
Generated(d) == UNION {{KeysOf[u][n] : n \in DOMAIN KeysOf[u]} :
                       u \in {v \in Uploads : UploadFor[v] = d}}

LEMMA Concatenated ==
  ASSUME NEW a, NEW b, NEW c, NEW x, NEW k
  PROVE  /\ Len(<<a, b, c>> \o << >> \o <<k>>) = 4
         /\ Len(<<a, b, c>> \o <<x>> \o <<k>>) = 5
         /\ (<<a, b, c>> \o <<x>> \o <<k>>)[4] = x
<1>. DEFINE S == {a, b, c, x, k}
<1>1. /\ <<a, b, c>> \in Seq(S) /\ <<x>> \in Seq(S) /\ <<k>> \in Seq(S) /\ << >> \in Seq(S)
      /\ Len(<<a, b, c>>) = 3 /\ Len(<<x>>) = 1 /\ Len(<<k>>) = 1 /\ Len(<< >>) = 0
  OBVIOUS
<1>2. /\ <<a, b, c>> \o << >> \in Seq(S) /\ Len(<<a, b, c>> \o << >>) = 3
      /\ <<a, b, c>> \o <<x>> \in Seq(S) /\ Len(<<a, b, c>> \o <<x>>) = 4
      /\ (<<a, b, c>> \o <<x>>)[4] = <<x>>[1]
  BY <1>1, ConcatProperties
<1>. HIDE DEF S
<1>. QED  BY <1>1, <1>2, ConcatProperties

LEMMA SameExchange ==
  ASSUME NEW x, NEW y, NEW e, Exchange(x, e) = Exchange(e, y)
  PROVE  x = y
BY DEF Exchange

LEMMA OneAnswer ==
  ASSUME NEW d, NEW k, NEW j, NEW identity, NEW e
  PROVE  LET hello == X3dhInitiate(identity, e, BundleOf(d, k))
         IN  Respond(d, j, hello) = hello.secret <=> j = k
<1>. DEFINE hello == X3dhInitiate(identity, e, BundleOf(d, k))
            A == Exchange(<<"signed", d>>, identity)
            B == Exchange(<<"identity", d>>, e)
            C == Exchange(<<"signed", d>>, e)
            K == <<<<"kyber", d>>, e>>
<1>1. hello.secret = <<A, B, C>> \o (IF k = NoPreKey THEN << >> ELSE <<Exchange(e, k)>>) \o <<K>>
  BY DEF X3dhInitiate, Combined, BundleOf, DeviceKeys, Encapsulate, Exchange
<1>2. Respond(d, j, hello)
        = <<A, B, C>> \o (IF j = NoPreKey THEN << >> ELSE <<Exchange(j, e)>>) \o <<K>>
  BY DEF X3dhInitiate, Combined, BundleOf, DeviceKeys, Encapsulate, Exchange, Respond,
    X3dhRespond, Decapsulate
<1>. HIDE DEF A, B, C, K, hello
<1>3. Respond(d, j, hello) = hello.secret => j = k
  <2>1. CASE j # NoPreKey /\ k # NoPreKey
    <3>1. Respond(d, j, hello)[4] = Exchange(j, e) /\ hello.secret[4] = Exchange(e, k)
      BY <1>1, <1>2, <2>1, Concatenated
    <3>. QED  BY <3>1, SameExchange
  <2>2. CASE j = NoPreKey /\ k # NoPreKey
    <3>1. Len(Respond(d, j, hello)) = 4 /\ Len(hello.secret) = 5
      BY <1>1, <1>2, <2>2, Concatenated
    <3>. QED  BY <3>1
  <2>3. CASE j # NoPreKey /\ k = NoPreKey
    <3>1. Len(Respond(d, j, hello)) = 5 /\ Len(hello.secret) = 4
      BY <1>1, <1>2, <2>3, Concatenated
    <3>. QED  BY <3>1
  <2>. QED  BY <2>1, <2>2, <2>3
<1>4. j = k => Respond(d, j, hello) = hello.secret
  <2>1. Exchange(k, e) = Exchange(e, k)
    BY DEF Exchange
  <2>. QED  BY <1>1, <1>2, <2>1
<1>. QED  BY <1>3, <1>4 DEF hello

(* The keys of a device are its own, and so is a bundle. *)
UniqueInv ==
  /\ \A i \in DOMAIN rows : rows[i].key \in Generated(rows[i].device)
  /\ \A r \in Requests : rpc[r] = "done" =>
       \E k \in {NoPreKey} \cup Generated(RequestFor[r]) : bundle[r] = BundleOf(RequestFor[r], k)

LEMMA UniqueEnough == UniqueInv => RespondsUniquely
<1>. SUFFICES ASSUME UniqueInv, NEW r \in Requests, rpc[r] = "done"
              PROVE  {k \in {NoPreKey} \cup Generated(RequestFor[r]) :
                        Respond(RequestFor[r], k, Hello(r)) = Hello(r).secret}
                       = {bundle[r].oneTime}
  BY DEF RespondsUniquely, Generated
<1>1. PICK k \in {NoPreKey} \cup Generated(RequestFor[r]) :
        bundle[r] = BundleOf(RequestFor[r], k)
  BY DEF UniqueInv
<1>2. bundle[r].oneTime = k
  BY <1>1, BundleKey
<1>3. \A j : Respond(RequestFor[r], j, Hello(r)) = Hello(r).secret <=> j = k
  BY <1>1, OneAnswer DEF Hello
<1>. QED  BY <1>1, <1>2, <1>3

LEMMA InitUnique == PreKeyInit => UniqueInv
BY DEF PreKeyInit, UniqueInv

LEMMA UniqueStep ==
  PreKeyTypeOK /\ UniqueInv /\ [PreKeyNext]_preKeyVars => UniqueInv'
<1>. SUFFICES ASSUME PreKeyTypeOK, UniqueInv, [PreKeyNext]_preKeyVars PROVE UniqueInv'
  OBVIOUS
<1>1. ASSUME UNCHANGED <<rows, bundle>>, \A r \in Requests : rpc'[r] = "done" => rpc[r] = "done"
      PROVE  UniqueInv'
  BY <1>1 DEF UniqueInv
<1>2. ASSUME NEW u \in Uploads,
             \/ RegisterUpload(u) \/ CountKeys(u) \/ InsertError(u) \/ InsertDone(u)
      PROVE  UniqueInv'
  BY <1>1, <1>2 DEF RegisterUpload, CountKeys, InsertError, InsertDone, requestVars
<1>3. ASSUME NEW u \in Uploads, InsertKey(u)
      PROVE  UniqueInv'
  <2>. DEFINE n == Len(rows) + 1
  <2>1. /\ DOMAIN rows' = DOMAIN rows \cup {n}
        /\ \A i \in DOMAIN rows : rows'[i] = rows[i]
        /\ rows'[n].device = UploadFor[u] /\ rows'[n].key = KeysOf[u][inserted[u] + 1]
    BY <1>3, InsertedRow, AppendRow DEF InsertKey
  <2>2. inserted[u] + 1 \in DOMAIN KeysOf[u]
    BY <1>3, PreKeyAssumption DEF InsertKey, PreKeyTypeOK
  <2>3. KeysOf[u][inserted[u] + 1] \in Generated(UploadFor[u])
    BY <2>2 DEF Generated
  <2>. QED  BY <1>3, <2>1, <2>3 DEF InsertKey, UniqueInv, requestVars
<1>4. ASSUME NEW d \in Devices, RemoveDevice(d)
      PROVE  UniqueInv'
  BY <1>4, RemoveStates DEF RemoveDevice, UniqueInv, requestVars
<1>5. ASSUME NEW r \in Requests, SelectDevice(r) \/ Claim(r) \/ RequestError(r)
      PROVE  UniqueInv'
  BY <1>1, <1>5 DEF SelectDevice, Claim, RequestError, PreKeyTypeOK
<1>6. ASSUME NEW r \in Requests, ClaimNone(r)
      PROVE  UniqueInv'
  BY <1>6 DEF ClaimNone, PreKeyTypeOK, UniqueInv
<1>7. ASSUME NEW r \in Requests, Commit(r)
      PROVE  UniqueInv'
  <2>1. rows[locked[r]].device = RequestFor[r]
    BY <1>7 DEF Commit, PreKeyTypeOK, Unused
  <2>2. rows[locked[r]].key \in Generated(RequestFor[r])
    BY <1>7, <2>1, CommitStates DEF UniqueInv
  <2>3. /\ bundle'[r] = BundleOf(RequestFor[r], rows[locked[r]].key)
        /\ \A q \in Requests \ {r} : bundle'[q] = bundle[q] /\ rpc'[q] = rpc[q]
    BY <1>7 DEF Commit, PreKeyTypeOK
  <2>. QED  BY <1>7, <2>2, <2>3, CommitStates DEF UniqueInv
<1>8. CASE UNCHANGED preKeyVars
  BY <1>1, <1>8 DEF preKeyVars
<1>. QED  BY <1>2, <1>3, <1>4, <1>5, <1>6, <1>7, <1>8 DEF PreKeyNext

(* The responder is not told which one-time pre-key was claimed; of those it uploaded, and
   none, one alone leads to the secret of x3dh_initiate. *)
THEOREM UniqueResponse == PreKeySpec => []RespondsUniquely
<1>1. PreKeySpec => []UniqueInv
  BY PreKeyInvariant, InitUnique, UniqueStep, PTL DEF PreKeySpec
<1>. QED  BY <1>1, UniqueEnough, PTL
=============================================================================
