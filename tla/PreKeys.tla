--------------------------------- MODULE PreKeys -------------------------------
(***************************************************************************)
(* The pre-key server: uploads of one-time pre-keys at registration and by *)
(* POST /api/keys/replenish, bundles by GET /api/keys/:user_id (routes/    *)
(* auth.rs, routes/keys.rs, hysj-db/src/keys.rs), removal of the account   *)
(* or of the device, and the X3DH handshake a client starts from a bundle. *)
(*                                                                         *)
(* Every SQL statement is a step, but the UPDATE ... FOR UPDATE SKIP       *)
(* LOCKED that claims a key is two: the row is locked, then the statement  *)
(* commits.  Registration, which creates the device, is the first upload   *)
(* for it, and the one whose keys nobody counts.                           *)
(***************************************************************************)
EXTENDS X3DH, Naturals, FiniteSets

CONSTANTS Devices,
          Uploads,               \* calls that store pre-keys
          UploadFor,             \* the device of each
          Registering,           \* those made by register, which does not count
          KeysOf,                \* the public keys of each, in order
          Requests,              \* calls that fetch a bundle
          RequestFor,            \* the device whose bundle is fetched
          MaxPreKeys             \* MAX_PRE_KEYS_PER_DEVICE, 100 in the code

ASSUME PreKeyAssumption ==
  /\ IsFiniteSet(Uploads)
  /\ UploadFor \in [Uploads -> Devices]
  /\ RequestFor \in [Requests -> Devices]
  /\ Registering \subseteq Uploads
  /\ \A u, v \in Registering : UploadFor[u] = UploadFor[v] => u = v
  /\ MaxPreKeys \in Nat
  /\ \A u \in Uploads : /\ Len(KeysOf[u]) \in Nat
                        /\ DOMAIN KeysOf[u] = 1 .. Len(KeysOf[u])

VARIABLES exists,                \* does the devices row exist?
          rows,                  \* pre_keys: [device, key, state], by serial id
          upc,                   \* where an upload is
          inserted,              \* how many of its keys it has stored
          together,              \* the most uploads each device had under way at a time
          rpc,                   \* where a bundle request is
          locked,                \* the row it has locked or been given, 0 for none
          bundle                 \* the bundle it was answered with

preKeyVars == <<exists, rows, upc, inserted, together, rpc, locked, bundle>>
uploadVars == <<upc, inserted, together>>
requestVars == <<rpc, locked, bundle>>

Unused(d) == {i \in DOMAIN rows : rows[i].device = d /\ rows[i].state = "unused"}

LockedRows == {locked[r] : r \in {q \in Requests : rpc[q] = "locked"}}

PreKeyInit ==
  /\ exists = [d \in Devices |-> FALSE]
  /\ rows = << >>
  /\ upc = [u \in Uploads |-> "new"]
  /\ inserted = [u \in Uploads |-> 0]
  /\ together = [d \in Devices |-> 0]
  /\ rpc = [r \in Requests |-> "new"]
  /\ locked = [r \in Requests |-> 0]
  /\ bundle = [r \in Requests |-> << >>]

-----------------------------------------------------------------------------
(* Uploads *)

Inserting(d) == {u \in Uploads : UploadFor[u] = d /\ upc[u] = "insert"}

\* Upload u goes on to its INSERTs.
BeginInsert(u) ==
  LET d == UploadFor[u]
      n == Cardinality(Inserting(d)) + 1
  IN  /\ upc' = [upc EXCEPT ![u] = "insert"]
      /\ together' = [together EXCEPT ![d] = IF @ < n THEN n ELSE @]

\* register_device, followed by store_pre_keys, which takes any number of keys.
RegisterUpload(u) ==
  /\ u \in Registering /\ upc[u] = "new"
  /\ exists' = [exists EXCEPT ![UploadFor[u]] = TRUE]
  /\ BeginInsert(u)
  /\ UNCHANGED <<rows, inserted, requestVars>>

\* An upload with a token, which comes from registration, or from a login once the row of
\* the device exists.
Replenishes(u) ==
  /\ u \notin Registering /\ upc[u] = "new"
  /\ \E v \in Registering : UploadFor[v] = UploadFor[u] /\ upc[v] # "new"
  /\ KeysOf[u] # << >>

\* Mutant: the keys of the upload alone are compared with the limit.
CountUploadOnly(u) ==
  /\ Replenishes(u)
  /\ \/ Len(KeysOf[u]) <= MaxPreKeys /\ BeginInsert(u)
     \/ /\ Len(KeysOf[u]) > MaxPreKeys
        /\ upc' = [upc EXCEPT ![u] = "refused"] /\ UNCHANGED together
  /\ UNCHANGED <<exists, rows, inserted, requestVars>>

\* replenish_pre_keys: the keys there are are counted before any is stored.
CountKeys(u) ==
  /\ Replenishes(u)
  /\ \/ /\ Cardinality(Unused(UploadFor[u])) + Len(KeysOf[u]) <= MaxPreKeys
        /\ BeginInsert(u)
     \/ /\ Cardinality(Unused(UploadFor[u])) + Len(KeysOf[u]) > MaxPreKeys
        /\ upc' = [upc EXCEPT ![u] = "refused"] /\ UNCHANGED together
  /\ UNCHANGED <<exists, rows, inserted, requestVars>>

\* store_pre_keys: one INSERT for each key, in no transaction.
InsertKey(u) ==
  /\ upc[u] = "insert" /\ inserted[u] < Len(KeysOf[u])
  /\ exists[UploadFor[u]]
  /\ rows' = Append(rows, [device |-> UploadFor[u],
                           key    |-> KeysOf[u][inserted[u] + 1],
                           state  |-> "unused"])
  /\ inserted' = [inserted EXCEPT ![u] = @ + 1]
  /\ UNCHANGED <<exists, upc, together, requestVars>>

\* The first INSERT that fails ends the upload: the foreign key when the device
\* was removed, the database or a crash at any time.  What is stored stays.
InsertError(u) ==
  /\ upc[u] = "insert"
  /\ upc' = [upc EXCEPT ![u] = "failed"]
  /\ UNCHANGED <<exists, rows, inserted, together, requestVars>>

InsertDone(u) ==
  /\ upc[u] = "insert" /\ inserted[u] = Len(KeysOf[u])
  /\ upc' = [upc EXCEPT ![u] = "done"]
  /\ UNCHANGED <<exists, rows, inserted, together, requestVars>>

\* Mutant: no cascade.
RemoveOrphaning(d) ==
  /\ exists[d]
  /\ exists' = [exists EXCEPT ![d] = FALSE]
  /\ UNCHANGED <<rows, uploadVars, requestVars>>

\* delete_account and delete_device: ON DELETE CASCADE, which waits for locked rows.
RemoveDevice(d) ==
  /\ exists[d]
  /\ \A i \in LockedRows : rows[i].device # d
  /\ exists' = [exists EXCEPT ![d] = FALSE]
  /\ rows' = [i \in DOMAIN rows |->
                IF rows[i].device = d THEN [rows[i] EXCEPT !.state = "deleted"] ELSE rows[i]]
  /\ UNCHANGED <<uploadVars, requestVars>>

-----------------------------------------------------------------------------
(* Bundles *)

\* The secret keys of a device, named by their public keys, and its bundle.
DeviceKeys(d) == [identity |-> <<"identity", d>>, signedPreKey |-> <<"signed", d>>,
                  kyber |-> <<"kyber", d>>]

BundleOf(d, oneTime) == [identity |-> DeviceKeys(d).identity,
                         signedPreKey |-> DeviceKeys(d).signedPreKey,
                         kyber |-> DeviceKeys(d).kyber, oneTime |-> oneTime]

\* get_pre_key_bundle reads the user and the device.
SelectDevice(r) ==
  /\ rpc[r] = "new"
  /\ rpc' = [rpc EXCEPT ![r] = IF exists[RequestFor[r]] THEN "claim" ELSE "failed"]
  /\ UNCHANGED <<exists, rows, uploadVars, locked, bundle>>

\* Mutant: without SKIP LOCKED and without the lock, the oldest row is read.
ClaimUnlocked(r) ==
  /\ rpc[r] = "claim"
  /\ \E i \in Unused(RequestFor[r]) :
       /\ \A j \in Unused(RequestFor[r]) : i <= j
       /\ locked' = [locked EXCEPT ![r] = i]
  /\ rpc' = [rpc EXCEPT ![r] = "locked"]
  /\ UNCHANGED <<exists, rows, uploadVars, bundle>>

\* claim_one_time_pre_key locks the oldest unused row nobody has locked.
Claim(r) ==
  LET free == Unused(RequestFor[r]) \ LockedRows
  IN  /\ rpc[r] = "claim"
      /\ \E i \in free : (\A j \in free : i <= j) /\ locked' = [locked EXCEPT ![r] = i]
      /\ rpc' = [rpc EXCEPT ![r] = "locked"]
      /\ UNCHANGED <<exists, rows, uploadVars, bundle>>

Commit(r) ==
  /\ rpc[r] = "locked"
  /\ rows' = [rows EXCEPT ![locked[r]].state = "used"]
  /\ bundle' = [bundle EXCEPT ![r] = BundleOf(RequestFor[r], rows[locked[r]].key)]
  /\ rpc' = [rpc EXCEPT ![r] = "done"]
  /\ UNCHANGED <<exists, uploadVars, locked>>

\* No row to claim: the bundle has no one-time pre-key.
ClaimNone(r) ==
  /\ rpc[r] = "claim" /\ Unused(RequestFor[r]) \ LockedRows = {}
  /\ bundle' = [bundle EXCEPT ![r] = BundleOf(RequestFor[r], NoPreKey)]
  /\ rpc' = [rpc EXCEPT ![r] = "done"]
  /\ UNCHANGED <<exists, rows, uploadVars, locked>>

\* The database fails or the process dies: the statement is rolled back.
RequestError(r) ==
  /\ rpc[r] \in {"claim", "locked"}
  /\ rpc' = [rpc EXCEPT ![r] = "failed"]
  /\ locked' = [locked EXCEPT ![r] = 0]
  /\ UNCHANGED <<exists, rows, uploadVars, bundle>>

\* The FFI's x3dh_initiate with a bundle, which drops used_one_time_key, ...
Hello(r) == X3dhInitiate(<<"initiator", r>>, <<"ephemeral", r>>, bundle[r])

\* ... and x3dh_respond at device d, with a one-time pre-key the application picks.
Respond(d, oneTime, hello) == X3dhRespond(DeviceKeys(d), oneTime, hello)

PreKeyNext ==
  \/ \E u \in Uploads :
       \/ RegisterUpload(u) \/ CountKeys(u)
       \/ InsertKey(u) \/ InsertError(u) \/ InsertDone(u)
  \/ \E d \in Devices : RemoveDevice(d)
  \/ \E r \in Requests :
       SelectDevice(r) \/ Claim(r) \/ Commit(r) \/ ClaimNone(r) \/ RequestError(r)

PreKeySpec == PreKeyInit /\ [][PreKeyNext]_preKeyVars

-----------------------------------------------------------------------------
UploadedKeys == UNION {{KeysOf[u][n] : n \in 1 .. Len(KeysOf[u])} : u \in Uploads}

PreKeyRows == [device : Devices, key : UploadedKeys, state : {"unused", "used", "deleted"}]

\* Type invariant: a request that holds a row has its number, a locked row is
\* unused and nobody else's, a row outlives its device only as deleted.
PreKeyTypeOK ==
  /\ exists \in [Devices -> BOOLEAN]
  /\ rows \in Seq(PreKeyRows)
  /\ \A i \in DOMAIN rows : rows[i].state = "deleted" \/ exists[rows[i].device]
  /\ upc \in [Uploads -> {"new", "insert", "refused", "failed", "done"}]
  /\ inserted \in [Uploads -> Nat]
  /\ \A u \in Uploads : inserted[u] <= Len(KeysOf[u])
  /\ together \in [Devices -> Nat]
  /\ rpc \in [Requests -> {"new", "claim", "locked", "failed", "done"}]
  /\ locked \in [Requests -> Nat]
  /\ bundle \in [Requests -> {<< >>} \cup
       {BundleOf(d, k) : d \in Devices, k \in UploadedKeys \cup {NoPreKey}}]
  /\ \A r \in Requests : rpc[r] = "locked" => locked[r] \in Unused(RequestFor[r])

\* ARCHITECTURE.md:115, "One-time pre-keys for X3DH, consumed on use": requests
\* that run at the same time, fail half way or race an upload or a removal
\* never get the same key, unless the client uploaded it twice (a retry of a
\* call that failed after some keys were stored).
KeyGivenOnce ==
  \A q, r \in Requests :
    /\ rpc[q] = "done" /\ rpc[r] = "done" /\ q # r
    /\ bundle[q].oneTime = bundle[r].oneTime /\ bundle[q].oneTime # NoPreKey
    => \E i, j \in DOMAIN rows : i # j /\ rows[i].key = rows[j].key
                                 /\ rows[i].key = bundle[q].oneTime

\* MAX_PRE_KEYS_PER_DEVICE, whatever is claimed meanwhile.  Nobody counts the keys of a
\* registration: n is the limit, or the size of the registration.  Uploads that overlap are
\* counted before either has stored: each but the first can add the limit once more.
WithinLimit ==
  \A d \in Devices :
    \E n \in {MaxPreKeys} \cup {Len(KeysOf[u]) : u \in {v \in Registering : UploadFor[v] = d}} :
      Cardinality(Unused(d)) <= n + MaxPreKeys * (together[d] - 1)

\* The responder is not told which one-time pre-key was claimed, or whether one
\* was: among those it generated and none at all, exactly one choice leads to
\* the initiator's secret.
RespondsUniquely ==
  \A r \in Requests : rpc[r] = "done" =>
    LET d       == RequestFor[r]
        choices == {NoPreKey} \cup
                   UNION {{KeysOf[u][i] : i \in DOMAIN KeysOf[u]} :
                          u \in {v \in Uploads : UploadFor[v] = d}}
    IN  {k \in choices : Respond(d, k, Hello(r)) = Hello(r).secret}
          = {bundle[r].oneTime}
=============================================================================
