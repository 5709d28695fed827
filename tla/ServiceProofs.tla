--------------------------- MODULE ServiceProofs ----------------------------
(***************************************************************************)
(* One-time codes, media, the VPN and logins, for any number of requests:  *)
(* a code is worth at most one token for each task that read it before the *)
(* first DEL, a medium that was answered with lives on for the short time  *)
(* only, the counters and sessions of the VPN are bounded, and so are the  *)
(* passwords that are tried in a window of time.                           *)
(*                                                                         *)
(* None is inductive. A code with a token is stored no longer, so nobody   *)
(* comes to hold it; a version is in one place, and the request that is    *)
(* about to answer with it has shortened its time to live; a call between  *)
(* two statements still stands for the session it ended; the entries of    *)
(* the rate limiter are those of the requests it let in, unless a crash    *)
(* emptied it, and a failure is counted late by no more than the lag.      *)
(*                                                                         *)
(* In the end, all services side by side: what is proved of each alone     *)
(* holds in their sum, since the steps of one are stutters of the others.  *)
(***************************************************************************)
EXTENDS MCServices, TableProofs, AppProofs

-----------------------------------------------------------------------------
(* One-time codes *)

TokensFor(c) == {k \in tokens : k.code = c}
HoldersOf(c) == {t \in OtpTasks : verify[t] # NoVerify /\ verify[t].code = c}

OtpTypeInv == OtpTypeOK /\ IsFiniteSet(tokens)

UsedInv ==
  /\ TokensBounded
  /\ \A k \in tokens : k.code # stored
  /\ \A t \in OtpTasks : verify[t].at = "token" => verify[t].code # stored

LEMMA OtpInitType == OtpInit => OtpTypeInv
  BY OtpAssumption, FS_EmptySet DEF OtpInit, OtpTypeInv, OtpTypeOK, NoCode

LEMMA OtpNextType == OtpTypeInv /\ [OtpNext]_otpVars => OtpTypeInv'
<1>. SUFFICES ASSUME OtpTypeInv, [OtpNext]_otpVars PROVE OtpTypeInv'
  OBVIOUS
<1>0. Cardinality(tokens) \in Nat
  BY FS_CardinalityType DEF OtpTypeInv
<1>1. CASE SendOtp
  BY <1>1, OtpAssumption DEF SendOtp, OtpTypeInv, OtpTypeOK
<1>2. CASE OtpExpires
  BY <1>2 DEF OtpExpires, OtpTypeInv, OtpTypeOK, NoCode
<1>3. ASSUME NEW c \in 1 .. MaxCodes, TextOtp(c) PROVE OtpTypeInv'
  BY <1>3 DEF TextOtp, OtpTypeInv, OtpTypeOK
<1>4. ASSUME NEW t \in OtpTasks, NEW c \in 1 .. MaxCodes, GetOtp(t, c) PROVE OtpTypeInv'
  BY <1>4 DEF GetOtp, OtpTypeInv, OtpTypeOK
<1>5. ASSUME NEW t \in OtpTasks, DelOtp(t) PROVE OtpTypeInv'
  BY <1>5 DEF DelOtp, OtpTypeInv, OtpTypeOK, NoCode, NoVerify
<1>6. ASSUME NEW t \in OtpTasks, StoreToken(t) PROVE OtpTypeInv'
  <2>1. verify[t].code \in texted
    BY <1>6 DEF StoreToken, OtpTypeInv, OtpTypeOK, NoVerify
  <2>2. Cardinality(tokens) + 1 \in 1 .. MaxTokens
    BY <1>0, <1>6, OtpAssumption DEF StoreToken
  <2>3. IsFiniteSet(tokens')
    BY <1>6, FS_AddElement DEF StoreToken, OtpTypeInv
  <2>. QED  BY <1>6, <2>1, <2>2, <2>3 DEF StoreToken, OtpTypeInv, OtpTypeOK
<1>7. ASSUME NEW t \in OtpTasks, OtpError(t) PROVE OtpTypeInv'
  BY <1>7, OtpAssumption DEF OtpError, OtpTypeInv, OtpTypeOK, NoCode
<1>8. CASE UNCHANGED otpVars
  BY <1>8 DEF otpVars, OtpTypeInv, OtpTypeOK
<1>. QED  BY <1>1, <1>2, <1>3, <1>4, <1>5, <1>6, <1>7, <1>8 DEF OtpNext

(* The sets TokensBounded counts are finite, and the tasks are no more than all. *)
LEMMA HoldersBounded ==
  ASSUME OtpTypeInv, NEW c
  PROVE  /\ IsFiniteSet(TokensFor(c)) /\ Cardinality(TokensFor(c)) \in Nat
         /\ IsFiniteSet(HoldersOf(c)) /\ Cardinality(HoldersOf(c)) \in Nat
         /\ Cardinality(HoldersOf(c)) <= Cardinality(OtpTasks)
<1>1. TokensFor(c) \in SUBSET tokens /\ HoldersOf(c) \in SUBSET OtpTasks
  BY DEF TokensFor, HoldersOf
<1>2. IsFiniteSet(tokens) /\ IsFiniteSet(OtpTasks)
  BY OtpAssumption DEF OtpTypeInv
<1>. QED  BY <1>1, <1>2, FS_Subset, FS_CardinalityType

(* A code without a token keeps the limit. *)
LEMMA NoTokenYet ==
  ASSUME OtpTypeInv, NEW c, \A k \in tokens : k.code # c
  PROVE  Cardinality(TokensFor(c)) + Cardinality(HoldersOf(c)) <= Cardinality(OtpTasks)
<1>1. TokensFor(c) = {}
  BY DEF TokensFor
<1>2. Cardinality(TokensFor(c)) = 0
  BY <1>1, FS_EmptySet
<1>. QED  BY <1>2, HoldersBounded

LEMMA UsedNext == OtpTypeInv /\ OtpTypeInv' /\ UsedInv /\ [OtpNext]_otpVars => UsedInv'
<1>. SUFFICES ASSUME OtpTypeInv, OtpTypeInv', UsedInv, [OtpNext]_otpVars PROVE UsedInv'
  OBVIOUS
<1>. DEFINE Uses(c) == Cardinality(TokensFor(c)) + Cardinality(HoldersOf(c))
<1>0. \A c \in 1 .. codes : Uses(c) <= Cardinality(OtpTasks)
  BY DEF UsedInv, TokensBounded, TokensFor, HoldersOf
<1>u. ASSUME \A c \in (1 .. codes)' : Uses(c)' <= Cardinality(OtpTasks) PROVE TokensBounded'
  BY <1>u DEF TokensBounded, TokensFor, HoldersOf
<1>. HIDE DEF Uses
<1>n. ASSUME tokens' = tokens, codes' = codes, NEW c \in 1 .. codes,
             HoldersOf(c)' \subseteq HoldersOf(c)
      PROVE  Uses(c)' <= Cardinality(OtpTasks)
  <2>1. TokensFor(c)' = TokensFor(c)
    BY <1>n DEF TokensFor
  <2>2. Cardinality(HoldersOf(c)') <= Cardinality(HoldersOf(c)) /\ Cardinality(HoldersOf(c)') \in Nat
    <3>1. IsFiniteSet(HoldersOf(c))
      BY HoldersBounded
    <3>2. IsFiniteSet(HoldersOf(c)')
      BY <1>n, <3>1, FS_Subset
    <3>. QED  BY <1>n, <3>1, <3>2, FS_Subset, FS_CardinalityType
  <2>3. Uses(c) <= Cardinality(OtpTasks) /\ Cardinality(OtpTasks) \in Nat
    BY <1>0, OtpAssumption, FS_CardinalityType
  <2>. QED  BY <2>1, <2>2, <2>3, HoldersBounded DEF Uses
<1>1. CASE SendOtp
  <2>0. (1 .. codes)' = 1 .. codes + 1 /\ codes \in Nat /\ codes + 1 # stored
    BY <1>1 DEF SendOtp, OtpTypeInv, OtpTypeOK
  <2>1. \A k \in tokens : k.code # codes + 1
    BY DEF OtpTypeInv, OtpTypeOK
  <2>2. ASSUME NEW c \in 1 .. codes + 1 PROVE Uses(c)' <= Cardinality(OtpTasks)
    <3>1. Uses(c)' = Uses(c)
      BY <1>1 DEF SendOtp, Uses, TokensFor, HoldersOf
    <3>2. CASE c \in 1 .. codes
      BY <1>0, <3>1, <3>2
    <3>3. CASE c = codes + 1
      BY <2>1, <3>1, <3>3, NoTokenYet DEF Uses
    <3>. QED  BY <2>0, <3>2, <3>3
  <2>3. TokensBounded'
    BY <1>u, <2>0, <2>2
  <2>4. \A t \in OtpTasks : verify[t].at = "token" => verify[t].code # codes + 1
    BY DEF OtpTypeInv, OtpTypeOK, NoVerify
  <2>. QED  BY <1>1, <2>1, <2>3, <2>4 DEF SendOtp, UsedInv
<1>2. CASE OtpExpires
  BY <1>2 DEF OtpExpires, OtpTypeInv, OtpTypeOK, UsedInv, TokensBounded, NoCode, NoVerify
<1>3. ASSUME NEW c \in 1 .. MaxCodes, TextOtp(c) PROVE UsedInv'
  BY <1>3 DEF TextOtp, UsedInv, TokensBounded
<1>4. ASSUME NEW t \in OtpTasks, NEW b \in 1 .. MaxCodes, GetOtp(t, b) PROVE UsedInv'
  <2>1. ASSUME NEW c \in 1 .. codes PROVE Uses(c)' <= Cardinality(OtpTasks)
    <3>1. CASE c = b
      <4>1. TokensFor(c)' = {}
        BY <1>4, <3>1 DEF GetOtp, UsedInv, TokensFor
      <4>2. HoldersOf(c)' \in SUBSET OtpTasks
        BY DEF HoldersOf
      <4>3. /\ Cardinality(HoldersOf(c)') <= Cardinality(OtpTasks)
            /\ Cardinality(HoldersOf(c)') \in Nat
        BY <4>2, OtpAssumption, FS_Subset, FS_CardinalityType
      <4>4. Cardinality(TokensFor(c)') = 0
        BY <4>1, FS_EmptySet
      <4>. QED  BY <4>3, <4>4 DEF Uses
    <3>2. CASE c # b
      <4>1. HoldersOf(c)' \subseteq HoldersOf(c)
        BY <1>4, <3>2 DEF GetOtp, HoldersOf, OtpTypeInv, OtpTypeOK, NoVerify
      <4>. QED  BY <1>4, <1>n, <4>1 DEF GetOtp
    <3>. QED  BY <3>1, <3>2
  <2>2. TokensBounded'
    BY <1>4, <1>u, <2>1 DEF GetOtp
  <2>. QED  BY <1>4, <2>2 DEF GetOtp, UsedInv, OtpTypeInv, OtpTypeOK
<1>5. ASSUME NEW t \in OtpTasks, DelOtp(t) PROVE UsedInv'
  <2>1. ASSUME NEW c \in 1 .. codes PROVE Uses(c)' <= Cardinality(OtpTasks)
    <3>1. HoldersOf(c)' \subseteq HoldersOf(c)
      BY <1>5 DEF DelOtp, HoldersOf, OtpTypeInv, OtpTypeOK, NoVerify
    <3>. QED  BY <1>5, <1>n, <3>1 DEF DelOtp
  <2>2. TokensBounded'
    BY <1>5, <1>u, <2>1 DEF DelOtp
  <2>. QED  BY <1>5, <2>2 DEF DelOtp, UsedInv, OtpTypeInv, OtpTypeOK, NoCode, NoVerify
<1>6. ASSUME NEW t \in OtpTasks, StoreToken(t) PROVE UsedInv'
  <2>. DEFINE token == [id |-> Cardinality(tokens) + 1, code |-> verify[t].code]
  <2>0. verify[t] # NoVerify
    BY <1>6 DEF StoreToken, NoVerify
  <2>1. ASSUME NEW c \in 1 .. codes PROVE Uses(c)' <= Cardinality(OtpTasks)
    <3>1. CASE c = verify[t].code
      <4>1. TokensFor(c)' = TokensFor(c) \cup {token}
        BY <1>6, <3>1 DEF StoreToken, TokensFor
      <4>2. HoldersOf(c)' = HoldersOf(c) \ {t} /\ t \in HoldersOf(c)
        BY <1>6, <2>0, <3>1 DEF StoreToken, HoldersOf, OtpTypeInv, OtpTypeOK
      <4>3. /\ Cardinality(TokensFor(c)') <= Cardinality(TokensFor(c)) + 1
            /\ Cardinality(HoldersOf(c)') = Cardinality(HoldersOf(c)) - 1
        <5>1. Cardinality(TokensFor(c) \cup {token}) <= Cardinality(TokensFor(c)) + 1
          <6>1. IsFiniteSet(TokensFor(c)) /\ Cardinality(TokensFor(c)) \in Nat
            BY HoldersBounded
          <6>2. Cardinality(TokensFor(c) \cup {token}) =
                  IF token \in TokensFor(c) THEN Cardinality(TokensFor(c))
                                            ELSE Cardinality(TokensFor(c)) + 1
            BY <6>1, FS_AddElement
          <6>. QED  BY <6>1, <6>2
        <5>2. Cardinality(HoldersOf(c) \ {t}) = Cardinality(HoldersOf(c)) - 1
          BY <4>2, HoldersBounded, FS_RemoveElement
        <5>. QED  BY <4>1, <4>2, <5>1, <5>2
      <4>4. Cardinality(TokensFor(c)') \in Nat
        BY <4>1, HoldersBounded, FS_AddElement, FS_CardinalityType
      <4>5. Cardinality(OtpTasks) \in Nat /\ Uses(c) <= Cardinality(OtpTasks)
        BY <1>0, OtpAssumption, FS_CardinalityType
      <4>. QED  BY <4>3, <4>4, <4>5, HoldersBounded DEF Uses
    <3>2. CASE c # verify[t].code
      <4>1. TokensFor(c)' = TokensFor(c)
        BY <1>6, <3>2 DEF StoreToken, TokensFor
      <4>2. HoldersOf(c)' = HoldersOf(c)
        BY <1>6, <3>2 DEF StoreToken, HoldersOf, OtpTypeInv, OtpTypeOK
      <4>. QED  BY <1>0, <4>1, <4>2 DEF Uses
    <3>. QED  BY <3>1, <3>2
  <2>2. TokensBounded'
    BY <1>6, <1>u, <2>1 DEF StoreToken
  <2>. QED  BY <1>6, <2>2 DEF StoreToken, UsedInv, OtpTypeInv, OtpTypeOK, NoVerify
<1>7. ASSUME NEW t \in OtpTasks, OtpError(t) PROVE UsedInv'
  <2>1. ASSUME NEW c \in 1 .. codes PROVE Uses(c)' <= Cardinality(OtpTasks)
    <3>1. HoldersOf(c)' \subseteq HoldersOf(c)
      BY <1>7 DEF OtpError, HoldersOf, OtpTypeInv, OtpTypeOK, NoVerify
    <3>. QED  BY <1>7, <1>n, <3>1 DEF OtpError
  <2>2. TokensBounded'
    BY <1>7, <1>u, <2>1 DEF OtpError
  <2>. QED  BY <1>7, <2>2 DEF OtpError, UsedInv, OtpTypeInv, OtpTypeOK, NoCode, NoVerify
<1>8. CASE UNCHANGED otpVars
  BY <1>8 DEF otpVars, UsedInv, TokensBounded
<1>. QED  BY <1>1, <1>2, <1>3, <1>4, <1>5, <1>6, <1>7, <1>8 DEF OtpNext

(* What a verifying call of routes/otp.rs holds, and the tokens issued, are of codes
   that were sent; the type invariant of the one-time codes. *)
THEOREM OtpTypeCorrect == OtpSpec => []OtpTypeOK
<1>1. OtpTypeInv => OtpTypeOK
  BY DEF OtpTypeInv
<1>. QED  BY <1>1, OtpInitType, OtpNextType, PTL DEF OtpSpec

(* The calls of verify_otp that read a code before one of them deleted it get a token each,
   and no other call ever does: not one token, but one for each call that overlaps. *)
THEOREM TokensStayBounded == OtpSpec => []TokensBounded
<1>1. OtpInit => UsedInv
  <2>. SUFFICES ASSUME OtpInit PROVE UsedInv
    OBVIOUS
  <2>1. 1 .. codes = {}
    BY DEF OtpInit
  <2>. QED  BY <2>1 DEF OtpInit, UsedInv, TokensBounded, NoVerify
<1>2. UsedInv => TokensBounded
  BY DEF UsedInv
<1>. QED  BY <1>1, <1>2, OtpInitType, OtpNextType, UsedNext, PTL DEF OtpSpec

-----------------------------------------------------------------------------
(* Media *)

Stores(t)  == serving[t] # Free /\ serving[t].at = "store"
Answering(t) == serving[t] # Free /\ serving[t].at # "store"

MediaTypeInv ==
  /\ MediaTypeOK
  /\ \A m \in MediaIds : meta[m] # Absent \/ blob[m] # NoBlob => m \in begun

SeenInv ==
  /\ SeenExpires
  \* What is about to be stored is nowhere yet.
  /\ \A t \in MediaTasks : Stores(t) =>
       /\ serving[t].version \notin seen
       /\ \A m \in MediaIds : blob[m].version # serving[t].version
       /\ \A u \in MediaTasks \ {t} :
            serving[u] # Free => serving[u].version # serving[t].version
  \* A version that is there, is there once; a download knows where.
  /\ \A m, n \in MediaIds : blob[m].version = blob[n].version /\ blob[m] # NoBlob => m = n
  /\ \A t \in MediaTasks, m \in MediaIds :
       Answering(t) /\ blob[m].version = serving[t].version =>
         /\ m = serving[t].medium
         /\ serving[t].at = "expireMeta" => blob[m].ttl = "short"

LEMMA MediaInitType == MediaInit => MediaTypeInv
  BY MediaAssumption DEF MediaInit, MediaTypeInv, MediaTypeOK

LEMMA MediaNextType == MediaTypeInv /\ [MediaNext]_mediaVars => MediaTypeInv'
<1>. SUFFICES ASSUME MediaTypeInv, [MediaNext]_mediaVars PROVE MediaTypeInv'
  OBVIOUS
<1>. USE DEF MediaTypeInv, MediaTypeOK, mediaGhosts, Absent
<1>1. ASSUME NEW m \in MediaIds, UploadInit(m) PROVE MediaTypeInv'
  BY <1>1 DEF UploadInit
<1>2. ASSUME NEW m \in MediaIds, DeleteBlob(m) PROVE MediaTypeInv'
  BY <1>2 DEF DeleteBlob
<1>3. ASSUME NEW m \in MediaIds, MetaExpires(m) PROVE MediaTypeInv'
  BY <1>3 DEF MetaExpires
<1>4. ASSUME NEW m \in MediaIds, BlobExpires(m) PROVE MediaTypeInv'
  BY <1>4 DEF BlobExpires
<1>5. ASSUME NEW t \in MediaTasks, NEW m \in MediaIds, UploadCheck(t, m) PROVE MediaTypeInv'
  BY <1>5, MediaAssumption DEF UploadCheck, Serves
<1>6. ASSUME NEW t \in MediaTasks, NEW m \in MediaIds, DownloadGet(t, m) PROVE MediaTypeInv'
  BY <1>6 DEF DownloadGet, Serves
<1>7. ASSUME NEW t \in MediaTasks, StoreBlob(t) PROVE MediaTypeInv'
  BY <1>7 DEF StoreBlob, Serves, Free
<1>8. ASSUME NEW t \in MediaTasks, ExpireBlob(t) PROVE MediaTypeInv'
  BY <1>8 DEF ExpireBlob, Serves, Free, Shortened, NoBlob
<1>9. ASSUME NEW t \in MediaTasks, ExpireMeta(t) PROVE MediaTypeInv'
  <2>1. /\ serving[t].medium \in MediaIds /\ serving[t].medium \in begun
        /\ serving[t].version \in 1 .. versions
    BY <1>9 DEF ExpireMeta, Free
  <2>2. meta' \in [MediaIds -> {Absent, "short", "long"}]
    BY <1>9, <2>1 DEF ExpireMeta, Shortened
  <2>. QED  BY <1>9, <2>1, <2>2 DEF ExpireMeta, Serves
<1>10. ASSUME NEW t \in MediaTasks, MediaError(t) PROVE MediaTypeInv'
  BY <1>10, MediaAssumption DEF MediaError, Serves
<1>11. CASE UNCHANGED mediaVars
  BY <1>11 DEF mediaVars
<1>. QED
  BY <1>1, <1>2, <1>3, <1>4, <1>5, <1>6, <1>7, <1>8, <1>9, <1>10, <1>11 DEF MediaNext

LEMMA SeenNext == MediaTypeInv /\ SeenInv /\ [MediaNext]_mediaVars => SeenInv'
<1>. SUFFICES ASSUME MediaTypeInv, SeenInv, [MediaNext]_mediaVars PROVE SeenInv'
  OBVIOUS
<1>. USE DEF MediaTypeInv, MediaTypeOK, SeenInv, SeenExpires, Stores, Answering, NoBlob
<1>1. ASSUME NEW m \in MediaIds, UploadInit(m) PROVE SeenInv'
  BY <1>1 DEF UploadInit, mediaGhosts
<1>2. ASSUME NEW m \in MediaIds, DeleteBlob(m) PROVE SeenInv'
  BY <1>2 DEF DeleteBlob
<1>3. ASSUME NEW m \in MediaIds, MetaExpires(m) PROVE SeenInv'
  BY <1>3 DEF MetaExpires, mediaGhosts
<1>4. ASSUME NEW m \in MediaIds, BlobExpires(m) PROVE SeenInv'
  BY <1>4 DEF BlobExpires, mediaGhosts
<1>5. ASSUME NEW t \in MediaTasks, NEW m \in MediaIds, UploadCheck(t, m) PROVE SeenInv'
  BY <1>5 DEF UploadCheck, Serves, mediaGhosts
<1>6. ASSUME NEW t \in MediaTasks, NEW m \in MediaIds, DownloadGet(t, m) PROVE SeenInv'
  BY <1>6 DEF DownloadGet, Serves, mediaGhosts
<1>7. ASSUME NEW t \in MediaTasks, StoreBlob(t) PROVE SeenInv'
  BY <1>7 DEF StoreBlob, Serves, mediaGhosts, Free
<1>8. ASSUME NEW t \in MediaTasks, ExpireBlob(t) PROVE SeenInv'
  BY <1>8 DEF ExpireBlob, Serves, mediaGhosts, Free, Shortened, Absent
<1>9. ASSUME NEW t \in MediaTasks, ExpireMeta(t) PROVE SeenInv'
  BY <1>9 DEF ExpireMeta, Serves, Free
<1>10. ASSUME NEW t \in MediaTasks, MediaError(t) PROVE SeenInv'
  BY <1>10 DEF MediaError, Serves
<1>11. CASE UNCHANGED mediaVars
  BY <1>11 DEF mediaVars
<1>. QED
  BY <1>1, <1>2, <1>3, <1>4, <1>5, <1>6, <1>7, <1>8, <1>9, <1>10, <1>11 DEF MediaNext

(* The keys of media_store.rs and the requests on them have the declared types; only
   media whose upload was initialized have any. *)
THEOREM MediaTypeCorrect == MediaSpec => []MediaTypeOK
<1>1. MediaTypeInv => MediaTypeOK
  BY DEF MediaTypeInv
<1>. QED  BY <1>1, MediaInitType, MediaNextType, PTL DEF MediaSpec

(* audio.rs, "auto-deletes after 3 minutes": whatever else happens between the GET and
   the EXPIRE of retrieve_and_expire, a blob that was answered with expires soon. *)
THEOREM AnsweredMediaExpire == MediaSpec => []SeenExpires
<1>1. MediaInit => SeenInv
  BY DEF MediaInit, SeenInv, SeenExpires, Stores, Answering
<1>2. SeenInv => SeenExpires
  BY DEF SeenInv
<1>. QED  BY <1>1, <1>2, MediaInitType, MediaNextType, SeenNext, PTL DEF MediaSpec

-----------------------------------------------------------------------------
(* VPN *)

(* Requests that are still to count a session, to uncount one, to make one. *)
Counting(s) == {c \in VpnCallers : call[c].at = "increment" /\ call[c].server = s}
Uncounting(s) == {c \in VpnCallers : /\ call[c].at = "decrement"
                                     /\ sessions[call[c].ending].server = s}
Starting(u) == {c \in VpnCallers :
  /\ \/ call[c].at \in {"keys", "store", "count", "insert"}
     \/ call[c].at = "decrement" /\ call[c].server # NoServer
  /\ call[c].user = u}

Covered(s) ==
  Cardinality(ActiveOn(s)) + Cardinality(Uncounting(s))
    <= load[s] + uncounted[s] + Cardinality(Counting(s))

LoadInv == \A s \in VpnServers : Covered(s)

Bounded(u) == Cardinality(ActiveOf(u)) + Cardinality(Starting(u)) <= Cardinality(VpnCallers)

UserInv == \A u \in VpnUsers : Bounded(u)

LEMMA MaxOfTwo ==
  ASSUME NEW a \in Int, NEW b \in Int
  PROVE  Max({a, b}) = IF a >= b THEN a ELSE b
<1>1. \E x \in {a, b} : \A y \in {a, b} : x >= y
  OBVIOUS
<1>2. Max({a, b}) \in {a, b} /\ \A y \in {a, b} : Max({a, b}) >= y
  BY <1>1 DEF Max
<1>. QED  BY <1>2

LEMMA AddressOctets ==
  ASSUME NEW n \in Nat
  PROVE  Address(n) \in (0 .. 255) \X (2 .. 255)
<1>1. ((n + 2) \div 256) % 256 \in 0 .. 255 /\ (n + 2) % 256 \in 0 .. 255
  OBVIOUS
<1>2. Max({(n + 2) % 256, 2}) \in 2 .. 255
  <2>1. (n + 2) % 256 \in Int /\ 2 \in Int
    BY <1>1
  <2>2. Max({(n + 2) % 256, 2}) = IF (n + 2) % 256 >= 2 THEN (n + 2) % 256 ELSE 2
    BY <2>1, MaxOfTwo
  <2>. QED  BY <1>1, <2>2
<1>. QED  BY <1>1, <1>2 DEF Address

LEMMA VpnFinite ==
  ASSUME VpnTypeOK
  PROVE  /\ DOMAIN sessions = 1 .. Len(sessions) /\ Len(sessions) \in Nat
         /\ \A i \in DOMAIN sessions : sessions[i] \in SessionRecords
         /\ \A s : IsFiniteSet(ActiveOn(s)) /\ Cardinality(ActiveOn(s)) \in Nat
         /\ \A u : IsFiniteSet(ActiveOf(u)) /\ Cardinality(ActiveOf(u)) \in Nat
<1>1. /\ DOMAIN sessions = 1 .. Len(sessions) /\ Len(sessions) \in Nat
      /\ \A i \in DOMAIN sessions : sessions[i] \in SessionRecords
  BY DEF VpnTypeOK
<1>2. IsFiniteSet(DOMAIN sessions)
  BY <1>1, FS_Interval
<1>3. \A s : ActiveOn(s) \in SUBSET DOMAIN sessions
  BY DEF ActiveOn
<1>4. \A u : ActiveOf(u) \in SUBSET DOMAIN sessions
  BY DEF ActiveOf
<1>5. \A S \in SUBSET DOMAIN sessions : IsFiniteSet(S) /\ Cardinality(S) \in Nat
  BY <1>2, FS_Subset, FS_CardinalityType
<1>. QED  BY <1>1, <1>3, <1>4, <1>5

(* Any set of callers is finite. *)
LEMMA CallersFinite ==
  ASSUME NEW S, S \subseteq VpnCallers
  PROVE  /\ IsFiniteSet(S) /\ Cardinality(S) \in Nat
         /\ Cardinality(S) <= Cardinality(VpnCallers) /\ Cardinality(VpnCallers) \in Nat
  BY VpnAssumption, FS_Subset, FS_CardinalityType

(* The sessions after one was ended. *)
LEMMA EndedSession ==
  ASSUME VpnTypeOK, NEW e \in DOMAIN sessions,
         sessions' = [sessions EXCEPT ![e].active = FALSE]
  PROVE  /\ sessions' \in Seq(SessionRecords) /\ DOMAIN sessions' = DOMAIN sessions
         /\ \A i \in DOMAIN sessions :
              /\ sessions'[i].user = sessions[i].user
              /\ sessions'[i].server = sessions[i].server
              /\ sessions'[i].active = (i # e /\ sessions[i].active)
<1>1. /\ DOMAIN sessions = 1 .. Len(sessions) /\ Len(sessions) \in Nat
      /\ \A i \in DOMAIN sessions : sessions[i] \in SessionRecords
  BY VpnFinite
<1>2. DOMAIN sessions' = DOMAIN sessions
  OBVIOUS
<1>3. ASSUME NEW i \in DOMAIN sessions
      PROVE  /\ sessions'[i] \in SessionRecords
             /\ sessions'[i].user = sessions[i].user
             /\ sessions'[i].server = sessions[i].server
             /\ sessions'[i].active = (i # e /\ sessions[i].active)
  <2>1. sessions[i] \in SessionRecords
    BY <1>1
  <2>2. CASE i = e
    <3>1. sessions'[i] = [sessions[i] EXCEPT !.active = FALSE]
      BY <2>2
    <3>. QED  BY ZenonT(40), <2>1, <2>2, <3>1 DEF SessionRecords
  <2>3. CASE i # e
    <3>1. sessions'[i] = sessions[i]
      BY <2>3
    <3>2. sessions[i].active \in BOOLEAN
      BY <2>1 DEF SessionRecords
    <3>. QED  BY <2>1, <2>3, <3>1, <3>2
  <2>. QED  BY <2>2, <2>3
<1>4. sessions' \in [1 .. Len(sessions) -> SessionRecords]
  BY <1>1, <1>2, <1>3
<1>5. sessions' \in Seq(SessionRecords)
  BY <1>1, <1>4
<1>. QED  BY <1>2, <1>3, <1>5

LEMMA VpnInitType == VpnInit => VpnTypeOK
<1>. SUFFICES ASSUME VpnInit PROVE VpnTypeOK
  OBVIOUS
<1>1. sessions \in Seq(SessionRecords) /\ DOMAIN sessions = {}
  BY DEF VpnInit
<1>. QED  BY <1>1, VpnAssumption DEF VpnInit, VpnTypeOK, IdleCall

(* The row create_session inserts, and the table with it. *)
LEMMA InsertedSession ==
  ASSUME VpnTypeOK, NEW c \in VpnCallers, InsertSession(c)
  PROVE  /\ sessions' \in Seq(SessionRecords)
         /\ DOMAIN sessions' = DOMAIN sessions \cup {Len(sessions) + 1}
         /\ Len(sessions) + 1 \notin DOMAIN sessions
         /\ \A i \in DOMAIN sessions : sessions'[i] = sessions[i]
         /\ sessions'[Len(sessions) + 1].user = call[c].user
         /\ sessions'[Len(sessions) + 1].server = call[c].server
         /\ sessions'[Len(sessions) + 1].active
<1>. DEFINE row == [user |-> call[c].user, server |-> call[c].server, key |-> call[c].key,
                    address |-> Address(call[c].counted), active |-> TRUE]
<1>1. row \in SessionRecords
  <2>1. /\ call[c].user \in VpnUsers /\ call[c].server \in VpnServers
        /\ call[c].key \in VpnCallers /\ call[c].counted \in Nat
    BY DEF InsertSession, VpnTypeOK, Calls, IdleCall
  <2>. QED  BY <2>1, AddressOctets DEF SessionRecords
<1>2. sessions' = Append(sessions, row)
  BY DEF InsertSession
<1>3. /\ row.user = call[c].user /\ row.server = call[c].server /\ row.active
  OBVIOUS
<1>. HIDE DEF row
<1>4. sessions \in Seq(SessionRecords) /\ DOMAIN sessions = 1 .. Len(sessions)
      /\ Len(sessions) \in Nat
  BY VpnFinite DEF VpnTypeOK
<1>5. /\ Append(sessions, row) \in Seq(SessionRecords)
      /\ Len(Append(sessions, row)) = Len(sessions) + 1
      /\ \A i \in 1 .. Len(sessions) : Append(sessions, row)[i] = sessions[i]
      /\ Append(sessions, row)[Len(sessions) + 1] = row
  BY <1>1, <1>4, AppendProperties
<1>. QED  BY <1>2, <1>3, <1>4, <1>5

(* What a request works with at each step. *)
RequestOK(r) ==
  /\ r \in Calls \cup {IdleCall}
  /\ r.at \in {"end", "decrement"} =>
       r.ending \in DOMAIN sessions /\ sessions[r.ending].user = r.user
  /\ r.at \in {"keys", "store", "count", "insert", "increment"} => r.server \in VpnServers
  /\ r.at \in {"store", "count", "insert"} => r.key \in VpnCallers

(* A step of one request, which takes no session away. *)
LEMMA RequestStep ==
  ASSUME VpnTypeOK, NEW c \in VpnCallers, NEW r, RequestOK(r),
         call' = [call EXCEPT ![c] = r],
         sessions' \in Seq(SessionRecords), DOMAIN sessions \subseteq DOMAIN sessions',
         \A i \in DOMAIN sessions : sessions'[i].user = sessions[i].user,
         load' \in [VpnServers -> Nat], uncounted' \in [VpnServers -> Nat],
         vpnKey' \in [VpnUsers -> VpnCallers \cup {NoVpnKey}],
         vpnErrors' \in 0 .. MaxVpnErrors
  PROVE  VpnTypeOK'
<1>1. call' \in [VpnCallers -> Calls \cup {IdleCall}]
  BY DEF VpnTypeOK, RequestOK
<1>2. ASSUME NEW b \in VpnCallers
      PROVE  /\ call'[b].at \in {"end", "decrement"} =>
                  /\ call'[b].ending \in DOMAIN sessions'
                  /\ sessions'[call'[b].ending].user = call'[b].user
             /\ call'[b].at \in {"keys", "store", "count", "insert", "increment"} =>
                  call'[b].server \in VpnServers
             /\ call'[b].at \in {"store", "count", "insert"} => call'[b].key \in VpnCallers
  <2>1. CASE b = c
    <3>1. call'[b] = r
      BY <2>1 DEF VpnTypeOK
    <3>. QED  BY <3>1 DEF RequestOK
  <2>2. CASE b # c
    <3>1. call'[b] = call[b]
      BY <2>2 DEF VpnTypeOK
    <3>2. /\ call[b].at \in {"end", "decrement"} =>
               call[b].ending \in DOMAIN sessions /\ sessions[call[b].ending].user = call[b].user
          /\ call[b].at \in {"keys", "store", "count", "insert", "increment"} =>
               call[b].server \in VpnServers
          /\ call[b].at \in {"store", "count", "insert"} => call[b].key \in VpnCallers
      BY DEF VpnTypeOK
    <3>. QED  BY <3>1, <3>2
  <2>. QED  BY <2>1, <2>2
<1>. QED  BY <1>1, <1>2 DEF VpnTypeOK

(* Every step of a caller gives it a request that can do its next step. *)
LEMMA NextRequest ==
  ASSUME VpnTypeOK, NEW c \in VpnCallers
  PROVE  /\ RequestOK(IdleCall)
         /\ call[c].at \in {"active", "decrement"} /\ call[c].server # NoServer =>
              RequestOK([call[c] EXCEPT !.at = "keys", !.ending = 0])
         /\ \A i \in ActiveOf(call[c].user) :
              call[c].at = "active" => RequestOK([call[c] EXCEPT !.at = "end", !.ending = i])
         /\ call[c].at = "end" => RequestOK([call[c] EXCEPT !.at = "decrement"])
         /\ \A k \in VpnCallers : call[c].at = "keys" =>
              /\ RequestOK([call[c] EXCEPT !.at = "count", !.key = k])
              /\ RequestOK([call[c] EXCEPT !.at = "store", !.key = k])
         /\ call[c].at = "store" => RequestOK([call[c] EXCEPT !.at = "count"])
         /\ \A n \in Nat : call[c].at = "count" =>
              RequestOK([call[c] EXCEPT !.at = "insert", !.counted = n])
         /\ call[c].at = "insert" =>
              RequestOK([call[c] EXCEPT !.at = "increment", !.key = NoVpnKey, !.counted = 0])
<1>1. RequestOK(IdleCall)
  BY DEF RequestOK, IdleCall
<1>2. ASSUME call[c] # IdleCall PROVE call[c] \in Calls /\ RequestOK(call[c])
  BY <1>2 DEF VpnTypeOK, RequestOK
<1>3. \A i \in ActiveOf(call[c].user) :
        i \in Nat /\ i \in DOMAIN sessions /\ sessions[i].user = call[c].user
  BY VpnFinite DEF ActiveOf
<1>4. call[c] = IdleCall => call[c].at = "idle"
  BY DEF IdleCall
<1>5. call[c].at \in {"active", "decrement"} /\ call[c].server # NoServer =>
        RequestOK([call[c] EXCEPT !.at = "keys", !.ending = 0])
  BY <1>2, <1>4 DEF RequestOK, Calls, IdleCall
<1>6. \A i \in ActiveOf(call[c].user) :
        call[c].at = "active" => RequestOK([call[c] EXCEPT !.at = "end", !.ending = i])
  BY <1>2, <1>3, <1>4 DEF RequestOK, Calls, IdleCall
<1>7. call[c].at = "end" => RequestOK([call[c] EXCEPT !.at = "decrement"])
  BY <1>2, <1>4 DEF RequestOK, Calls, IdleCall
<1>8. \A k \in VpnCallers : call[c].at = "keys" =>
        /\ RequestOK([call[c] EXCEPT !.at = "count", !.key = k])
        /\ RequestOK([call[c] EXCEPT !.at = "store", !.key = k])
  BY <1>2, <1>4 DEF RequestOK, Calls, IdleCall
<1>9. call[c].at = "store" => RequestOK([call[c] EXCEPT !.at = "count"])
  BY <1>2, <1>4 DEF RequestOK, Calls, IdleCall
<1>10. \A n \in Nat : call[c].at = "count" =>
         RequestOK([call[c] EXCEPT !.at = "insert", !.counted = n])
  BY <1>2, <1>4 DEF RequestOK, Calls, IdleCall
<1>11. call[c].at = "insert" =>
         RequestOK([call[c] EXCEPT !.at = "increment", !.key = NoVpnKey, !.counted = 0])
  BY <1>2, <1>4 DEF RequestOK, Calls, IdleCall
<1>. QED  BY <1>1, <1>5, <1>6, <1>7, <1>8, <1>9, <1>10, <1>11

LEMMA VpnNextType == VpnTypeOK /\ [VpnNext]_vpnVars => VpnTypeOK'
<1>. SUFFICES ASSUME VpnTypeOK, [VpnNext]_vpnVars PROVE VpnTypeOK'
  OBVIOUS
<1>. USE DEF Becomes, Answered, Go, vpnGhosts
<1>f. /\ DOMAIN sessions = 1 .. Len(sessions) /\ Len(sessions) \in Nat
      /\ \A i \in DOMAIN sessions : sessions[i] \in SessionRecords
  BY VpnFinite
<1>t. /\ sessions \in Seq(SessionRecords)
      /\ load \in [VpnServers -> Nat] /\ uncounted \in [VpnServers -> Nat]
      /\ vpnKey \in [VpnUsers -> VpnCallers \cup {NoVpnKey}]
      /\ vpnErrors \in 0 .. MaxVpnErrors
  BY DEF VpnTypeOK
<1>1. ASSUME NEW c \in VpnCallers, NEW u \in VpnUsers,
             NEW s \in VpnServers \cup {NoServer}, VpnBegin(c, u, s)
      PROVE  VpnTypeOK'
  BY <1>1 DEF VpnBegin, VpnTypeOK, Calls, IdleCall
<1>2. ASSUME NEW c \in VpnCallers, GoOn(c), call[c].at \in {"active", "decrement"},
             UNCHANGED <<sessions, vpnKey, vpnGhosts>>, load' \in [VpnServers -> Nat]
      PROVE  VpnTypeOK'
  <2>1. CASE call[c].server = NoServer
    BY <1>2, <1>t, <2>1, NextRequest, RequestStep DEF GoOn
  <2>2. CASE call[c].server # NoServer
    BY <1>2, <1>t, <2>2, NextRequest, RequestStep DEF GoOn
  <2>. QED  BY <2>1, <2>2
<1>3. ASSUME NEW c \in VpnCallers, GetActiveSession(c) PROVE VpnTypeOK'
  <2>1. CASE GoOn(c)
    BY <1>2, <1>3, <2>1 DEF GetActiveSession, VpnTypeOK
  <2>2. ASSUME NEW i \in ActiveOf(call[c].user), Ends(c, i) PROVE VpnTypeOK'
    <3>1. RequestOK([call[c] EXCEPT !.at = "end", !.ending = i])
      BY <1>3, NextRequest DEF GetActiveSession
    <3>. QED  BY <1>3, <1>t, <2>2, <3>1, RequestStep DEF GetActiveSession, Ends
  <2>. QED  BY <1>3, <2>1, <2>2 DEF GetActiveSession
<1>4. ASSUME NEW c \in VpnCallers, EndSession(c) PROVE VpnTypeOK'
  <2>1. call[c].ending \in DOMAIN sessions
    BY <1>4 DEF EndSession, VpnTypeOK
  <2>2. /\ sessions' \in Seq(SessionRecords) /\ DOMAIN sessions' = DOMAIN sessions
        /\ \A i \in DOMAIN sessions : sessions'[i].user = sessions[i].user
    BY <1>4, <2>1, EndedSession DEF EndSession
  <2>3. PICK r \in {IdleCall, [call[c] EXCEPT !.at = "decrement"]} :
          call' = [call EXCEPT ![c] = r]
    BY <1>4 DEF EndSession
  <2>4. RequestOK(r)
    BY <1>4, NextRequest DEF EndSession
  <2>. QED  BY <1>4, <1>t, <2>2, <2>3, <2>4, RequestStep DEF EndSession
<1>5. ASSUME NEW c \in VpnCallers, Decrement(c) PROVE VpnTypeOK'
  <2>1. call[c].ending \in DOMAIN sessions
    BY <1>5 DEF Decrement, VpnTypeOK
  <2>2. sessions[call[c].ending].server \in VpnServers
    BY <1>f, <2>1 DEF SessionRecords
  <2>3. load' \in [VpnServers -> Nat]
    <3>1. ASSUME NEW n \in Nat PROVE Max({n - 1, 0}) \in Nat
      BY MaxOfTwo
    <3>. QED  BY <1>5, <2>2, <3>1 DEF Decrement, VpnTypeOK
  <2>. QED  BY <1>2, <1>5, <2>3 DEF Decrement
<1>6. ASSUME NEW c \in VpnCallers, GetVpnKeys(c) PROVE VpnTypeOK'
  <2>1. call[c] \in Calls /\ vpnKey[call[c].user] \in VpnCallers \cup {NoVpnKey}
    BY <1>6 DEF GetVpnKeys, VpnTypeOK, Calls, IdleCall
  <2>2. PICK r : RequestOK(r) /\ call' = [call EXCEPT ![c] = r]
    BY <1>6, <2>1, NextRequest DEF GetVpnKeys
  <2>. QED  BY <1>6, <1>t, <2>2, RequestStep DEF GetVpnKeys
<1>7. ASSUME NEW c \in VpnCallers, StoreVpnKeys(c) PROVE VpnTypeOK'
  <2>1. call[c].key \in VpnCallers
    BY <1>7 DEF StoreVpnKeys, VpnTypeOK
  <2>2. vpnKey' \in [VpnUsers -> VpnCallers \cup {NoVpnKey}]
    BY <1>7, <1>t, <2>1 DEF StoreVpnKeys
  <2>3. RequestOK([call[c] EXCEPT !.at = "count"])
    BY <1>7, NextRequest DEF StoreVpnKeys
  <2>. QED  BY <1>7, <1>t, <2>2, <2>3, RequestStep DEF StoreVpnKeys
<1>8. ASSUME NEW c \in VpnCallers, CountSessions(c) PROVE VpnTypeOK'
  <2>1. RequestOK([call[c] EXCEPT !.at = "insert",
                                  !.counted = Cardinality(ActiveOn(call[c].server))])
    BY <1>8, VpnFinite, NextRequest DEF CountSessions
  <2>. QED  BY <1>8, <1>t, <2>1, RequestStep DEF CountSessions
<1>9. ASSUME NEW c \in VpnCallers, InsertSession(c) PROVE VpnTypeOK'
  <2>1. RequestOK([call[c] EXCEPT !.at = "increment", !.key = NoVpnKey, !.counted = 0])
    BY <1>9, NextRequest DEF InsertSession
  <2>2. /\ sessions' \in Seq(SessionRecords) /\ DOMAIN sessions \subseteq DOMAIN sessions'
        /\ \A i \in DOMAIN sessions : sessions'[i].user = sessions[i].user
    BY <1>9, InsertedSession
  <2>3. call' = [call EXCEPT ![c] = [call[c] EXCEPT !.at = "increment", !.key = NoVpnKey,
                                                    !.counted = 0]]
        /\ UNCHANGED <<load, vpnKey, vpnGhosts>>
    BY <1>9 DEF InsertSession
  <2>. QED  BY <1>t, <2>1, <2>2, <2>3, RequestStep
<1>10. ASSUME NEW c \in VpnCallers, Increment(c) PROVE VpnTypeOK'
  BY <1>10 DEF Increment, VpnTypeOK, Calls, IdleCall
<1>11. ASSUME NEW c \in VpnCallers, VpnError(c) PROVE VpnTypeOK'
  BY <1>11, VpnAssumption DEF VpnError, VpnTypeOK, Calls, IdleCall
<1>12. CASE UNCHANGED vpnVars
  BY <1>12 DEF vpnVars, VpnTypeOK
<1>. QED
  BY <1>1, <1>3, <1>4, <1>5, <1>6, <1>7, <1>8, <1>9, <1>10, <1>11, <1>12
     DEF VpnNext, VpnConnect, VpnDisconnect

LEMMA OneMore ==
  ASSUME NEW S, NEW x, IsFiniteSet(S), x \notin S
  PROVE  Cardinality(S \cup {x}) = Cardinality(S) + 1
  BY FS_AddElement

LEMMA OneLess ==
  ASSUME NEW S, NEW x, IsFiniteSet(S), x \in S
  PROVE  Cardinality(S \ {x}) = Cardinality(S) - 1
  BY FS_RemoveElement

LEMMA RequestSetsFinite ==
  ASSUME NEW s, NEW u
  PROVE  /\ Counting(s) \subseteq VpnCallers /\ IsFiniteSet(Counting(s))
         /\ Cardinality(Counting(s)) \in Nat
         /\ Uncounting(s) \subseteq VpnCallers /\ IsFiniteSet(Uncounting(s))
         /\ Cardinality(Uncounting(s)) \in Nat
         /\ Starting(u) \subseteq VpnCallers /\ IsFiniteSet(Starting(u))
         /\ Cardinality(Starting(u)) \in Nat
<1>1. /\ Counting(s) \subseteq VpnCallers /\ Uncounting(s) \subseteq VpnCallers
      /\ Starting(u) \subseteq VpnCallers
  BY DEF Counting, Uncounting, Starting
<1>. QED  BY <1>1, CallersFinite

(* A step that neither touches sessions nor leads to or from a counter. *)
LEMMA QuietStep ==
  ASSUME NEW c \in VpnCallers, \A b \in VpnCallers : b # c => call'[b] = call[b],
         call[c].at \notin {"decrement", "increment"},
         call'[c].at \notin {"decrement", "increment"}, sessions' = sessions, NEW s
  PROVE  /\ ActiveOn(s)' = ActiveOn(s)
         /\ Counting(s)' = Counting(s) /\ Uncounting(s)' = Uncounting(s)
  BY DEF ActiveOn, Counting, Uncounting

(* Where GoOn leads. *)
LEMMA GoesOn ==
  ASSUME VpnTypeOK, NEW c \in VpnCallers, call[c] \in Calls, GoOn(c)
  PROVE  /\ \A b \in VpnCallers : b # c => call'[b] = call[b]
         /\ IF call[c].server = NoServer THEN call'[c].at = "idle"
            ELSE call'[c].at = "keys" /\ call'[c].user = call[c].user
<1>1. call \in [VpnCallers -> Calls \cup {IdleCall}]
  BY DEF VpnTypeOK
<1>2. CASE call[c].server = NoServer
  BY <1>1, <1>2 DEF GoOn, Answered, Becomes, IdleCall
<1>3. CASE call[c].server # NoServer
  BY <1>1, <1>3 DEF GoOn, Becomes, Calls
<1>. QED  BY <1>2, <1>3

LEMMA LoadNext == VpnTypeOK /\ LoadInv /\ [VpnNext]_vpnVars => LoadInv'
<1>. SUFFICES ASSUME VpnTypeOK, LoadInv, [VpnNext]_vpnVars, NEW s \in VpnServers
              PROVE  Covered(s)'
  BY DEF LoadInv
<1>. USE DEF Becomes, Answered, Go, vpnGhosts
<1>a. Covered(s) /\ load[s] \in Nat /\ uncounted[s] \in Nat
      /\ Cardinality(ActiveOn(s)) \in Nat
  BY VpnFinite DEF LoadInv, VpnTypeOK
<1>b. /\ Cardinality(Counting(s)) \in Nat /\ Cardinality(Uncounting(s)) \in Nat
      /\ IsFiniteSet(Counting(s)) /\ IsFiniteSet(Uncounting(s)) /\ IsFiniteSet(ActiveOn(s))
  BY RequestSetsFinite, VpnFinite
<1>c. ASSUME NEW c \in VpnCallers, \A b \in VpnCallers : b # c => call'[b] = call[b],
             call[c].at \notin {"decrement", "increment"},
             call'[c].at \notin {"decrement", "increment"},
             UNCHANGED <<sessions, load, uncounted>>
      PROVE  Covered(s)'
  BY <1>a, <1>c, QuietStep DEF Covered
<1>1. ASSUME NEW c \in VpnCallers, NEW u \in VpnUsers,
             NEW d \in VpnServers \cup {NoServer}, VpnBegin(c, u, d)
      PROVE  Covered(s)'
  <2>1. call'[c].at = "active" /\ \A b \in VpnCallers : b # c => call'[b] = call[b]
    BY <1>1 DEF VpnBegin, VpnTypeOK
  <2>. QED  BY <1>1, <1>c, <2>1 DEF VpnBegin, IdleCall
<1>2. ASSUME NEW c \in VpnCallers, GetActiveSession(c) PROVE Covered(s)'
  <2>1. call[c] \in Calls
    BY <1>2 DEF GetActiveSession, VpnTypeOK, IdleCall
  <2>2. /\ call'[c].at \in {"idle", "end", "keys"}
        /\ \A b \in VpnCallers : b # c => call'[b] = call[b]
    <3>1. CASE GoOn(c)
      BY <2>1, <3>1, GoesOn
    <3>2. ASSUME NEW i \in ActiveOf(call[c].user), Ends(c, i)
          PROVE  /\ call'[c].at = "end"
                 /\ \A b \in VpnCallers : b # c => call'[b] = call[b]
      BY <2>1, <3>2 DEF Ends, VpnTypeOK, Calls
    <3>. QED  BY <1>2, <3>1, <3>2 DEF GetActiveSession
  <2>. QED  BY <1>2, <1>c, <2>2 DEF GetActiveSession
<1>3. ASSUME NEW c \in VpnCallers, EndSession(c) PROVE Covered(s)'
  <2>. DEFINE e == call[c].ending
  <2>1. e \in DOMAIN sessions /\ call[c] \in Calls
    BY <1>3 DEF EndSession, VpnTypeOK, IdleCall
  <2>2. /\ DOMAIN sessions' = DOMAIN sessions
        /\ \A i \in DOMAIN sessions :
             /\ sessions'[i].server = sessions[i].server
             /\ sessions'[i].active = (i # e /\ sessions[i].active)
    BY <1>3, <2>1, EndedSession DEF EndSession
  <2>3. /\ call'[c] = IF sessions[e].active THEN [call[c] EXCEPT !.at = "decrement"] ELSE IdleCall
        /\ \A b \in VpnCallers : b # c => call'[b] = call[b]
    BY <1>3 DEF EndSession, VpnTypeOK
  <2>t. \A b \in VpnCallers : call[b].at = "decrement" => call[b].ending \in DOMAIN sessions
    BY DEF VpnTypeOK
  <2>4. Counting(s)' = Counting(s)
    BY <1>3, <2>1, <2>3 DEF Counting, EndSession, IdleCall, Calls
  <2>5. CASE sessions[e].active /\ sessions[e].server = s
    <3>1. ActiveOn(s)' = ActiveOn(s) \ {e} /\ e \in ActiveOn(s)
      <4>1. e \in ActiveOn(s)
        BY <2>1, <2>5 DEF ActiveOn
      <4>2. \A i : i \in ActiveOn(s)' <=> i \in ActiveOn(s) /\ i # e
        BY ZenonT(40), <2>2 DEF ActiveOn
      <4>. QED  BY ZenonT(40), <4>1, <4>2
    <3>2. call'[c].at = "decrement" /\ call'[c].ending = e
      BY <2>1, <2>3, <2>5 DEF Calls
    <3>3. Uncounting(s)' = Uncounting(s) \cup {c} /\ c \notin Uncounting(s)
      <4>0. sessions'[e].server = s
        BY <2>1, <2>2, <2>5
      <4>1. c \in Uncounting(s)'
        BY <3>2, <4>0 DEF Uncounting
      <4>2. \A b \in VpnCallers \ {c} : b \in Uncounting(s)' <=> b \in Uncounting(s)
        BY <2>2, <2>3, <2>t DEF Uncounting
      <4>. QED  BY <1>3, <4>1, <4>2 DEF Uncounting, EndSession
    <3>. QED  BY <1>3, <1>a, <1>b, <2>4, <3>1, <3>3, OneMore, OneLess DEF Covered, EndSession
  <2>6. CASE ~(sessions[e].active /\ sessions[e].server = s)
    <3>1. ActiveOn(s)' = ActiveOn(s)
      BY <2>1, <2>2, <2>6 DEF ActiveOn
    <3>2. call'[c].at = "decrement" => call'[c].ending = e /\ sessions[e].server # s
      BY <2>1, <2>3, <2>6 DEF Calls, IdleCall
    <3>3. Uncounting(s)' = Uncounting(s)
      <4>1. \A b \in VpnCallers : b \in Uncounting(s)' <=> b \in Uncounting(s)
        BY <1>3, <2>1, <2>2, <2>3, <2>t, <3>2 DEF Uncounting, EndSession
      <4>. QED  BY <4>1 DEF Uncounting
    <3>. QED  BY <1>3, <1>a, <2>4, <3>1, <3>3 DEF Covered, EndSession
  <2>. QED  BY <2>5, <2>6
<1>4. ASSUME NEW c \in VpnCallers, Decrement(c) PROVE Covered(s)'
  <2>. DEFINE d == sessions[call[c].ending].server
  <2>1. d \in VpnServers
    BY <1>4, VpnFinite DEF Decrement, VpnTypeOK, SessionRecords
  <2>2. /\ call'[c].at \in {"idle", "keys"}
        /\ \A b \in VpnCallers : b # c => call'[b] = call[b]
    <3>1. call[c] \in Calls
      BY <1>4 DEF Decrement, VpnTypeOK, IdleCall
    <3>. QED  BY <1>4, <3>1, GoesOn DEF Decrement
  <2>3. Counting(s)' = Counting(s) /\ ActiveOn(s)' = ActiveOn(s)
    BY <1>4, <2>2 DEF Decrement, Counting, ActiveOn
  <2>4. CASE d = s
    <3>1. Uncounting(s)' = Uncounting(s) \ {c} /\ c \in Uncounting(s)
      BY <1>4, <2>2, <2>4 DEF Decrement, Uncounting
    <3>2. load'[s] = IF load[s] - 1 >= 0 THEN load[s] - 1 ELSE 0
      <4>1. load'[s] = Max({load[s] - 1, 0})
        BY <1>4, <2>4 DEF Decrement, VpnTypeOK
      <4>. QED  BY <1>a, <4>1, MaxOfTwo
    <3>3. Cardinality(Uncounting(s)') = Cardinality(Uncounting(s)) - 1
      BY <1>b, <3>1, OneLess
    <3>. QED  BY <1>4, <1>a, <1>b, <2>3, <3>2, <3>3 DEF Covered, Decrement
  <2>5. CASE d # s
    <3>1. Uncounting(s)' = Uncounting(s)
      BY <1>4, <2>2, <2>5 DEF Decrement, Uncounting
    <3>2. load'[s] = load[s]
      BY <1>4, <2>5 DEF Decrement, VpnTypeOK
    <3>. QED  BY <1>4, <1>a, <2>3, <3>1, <3>2 DEF Covered, Decrement
  <2>. QED  BY <2>4, <2>5
<1>5. ASSUME NEW c \in VpnCallers, GetVpnKeys(c) \/ StoreVpnKeys(c) \/ CountSessions(c)
      PROVE  Covered(s)'
  <2>1. call[c] \in Calls /\ call[c].at \in {"keys", "store", "count"}
    BY <1>5 DEF GetVpnKeys, StoreVpnKeys, CountSessions, VpnTypeOK, IdleCall
  <2>2. /\ call'[c].at \in {"store", "count", "insert"}
        /\ \A b \in VpnCallers : b # c => call'[b] = call[b]
    <3>0. call \in [VpnCallers -> Calls \cup {IdleCall}]
      BY DEF VpnTypeOK
    <3>1. CASE GetVpnKeys(c)
      BY <2>1, <3>0, <3>1 DEF GetVpnKeys, Calls
    <3>2. CASE StoreVpnKeys(c)
      BY <2>1, <3>0, <3>2 DEF StoreVpnKeys, Calls
    <3>3. CASE CountSessions(c)
      BY <2>1, <3>0, <3>3 DEF CountSessions, Calls
    <3>. QED  BY <1>5, <3>1, <3>2, <3>3
  <2>. QED  BY <1>5, <1>c, <2>1, <2>2 DEF GetVpnKeys, StoreVpnKeys, CountSessions
<1>6. ASSUME NEW c \in VpnCallers, InsertSession(c) PROVE Covered(s)'
  <2>. DEFINE n == Len(sessions) + 1
  <2>1. /\ DOMAIN sessions' = DOMAIN sessions \cup {n} /\ n \notin DOMAIN sessions
        /\ \A i \in DOMAIN sessions : sessions'[i] = sessions[i]
        /\ sessions'[n].server = call[c].server /\ sessions'[n].active
    BY <1>6, InsertedSession
  <2>. HIDE DEF n
  <2>2. call[c] \in Calls /\ call[c].at = "insert"
    BY <1>6 DEF InsertSession, VpnTypeOK, IdleCall
  <2>3. /\ call'[c].at = "increment" /\ call'[c].server = call[c].server
        /\ \A b \in VpnCallers : b # c => call'[b] = call[b]
    BY <1>6, <2>2 DEF InsertSession, VpnTypeOK, Calls
  <2>4. Uncounting(s)' = Uncounting(s)
    BY <2>1, <2>2, <2>3 DEF Uncounting, VpnTypeOK
  <2>5. CASE call[c].server = s
    <3>1. ActiveOn(s)' = ActiveOn(s) \cup {n} /\ n \notin ActiveOn(s)
      BY <2>1, <2>5 DEF ActiveOn
    <3>2. Counting(s)' = Counting(s) \cup {c} /\ c \notin Counting(s)
      BY <2>2, <2>3, <2>5 DEF Counting
    <3>3. /\ Cardinality(ActiveOn(s)') = Cardinality(ActiveOn(s)) + 1
          /\ Cardinality(Counting(s)') = Cardinality(Counting(s)) + 1
      BY <1>b, <3>1, <3>2, OneMore
    <3>4. UNCHANGED <<load, uncounted>>
      BY <1>6 DEF InsertSession
    <3>. QED  BY <1>a, <1>b, <2>4, <3>3, <3>4 DEF Covered
  <2>6. CASE call[c].server # s
    <3>1. ActiveOn(s)' = ActiveOn(s)
      BY <2>1, <2>6 DEF ActiveOn
    <3>2. Counting(s)' = Counting(s)
      BY <2>2, <2>3, <2>6 DEF Counting
    <3>. QED  BY <1>6, <1>a, <2>4, <3>1, <3>2 DEF Covered, InsertSession
  <2>. QED  BY <2>5, <2>6
<1>7. ASSUME NEW c \in VpnCallers, Increment(c) PROVE Covered(s)'
  <2>1. call'[c].at = "idle" /\ \A b \in VpnCallers : b # c => call'[b] = call[b]
    BY <1>7 DEF Increment, VpnTypeOK, IdleCall
  <2>2. ActiveOn(s)' = ActiveOn(s) /\ Uncounting(s)' = Uncounting(s)
    BY <1>7, <2>1 DEF Increment, ActiveOn, Uncounting
  <2>3. CASE call[c].server = s
    <3>1. Counting(s)' = Counting(s) \ {c} /\ c \in Counting(s)
      BY <1>7, <2>1, <2>3 DEF Increment, Counting
    <3>2. load'[s] = load[s] + 1
      BY <1>7, <2>3 DEF Increment, VpnTypeOK
    <3>. QED  BY <1>7, <1>a, <1>b, <2>2, <3>1, <3>2, OneLess DEF Covered, Increment
  <2>4. CASE call[c].server # s
    <3>1. Counting(s)' = Counting(s) /\ load'[s] = load[s]
      BY <1>7, <2>1, <2>4 DEF Increment, Counting, VpnTypeOK
    <3>. QED  BY <1>7, <1>a, <2>2, <3>1 DEF Covered, Increment
  <2>. QED  BY <2>3, <2>4
<1>8. ASSUME NEW c \in VpnCallers, VpnError(c) PROVE Covered(s)'
  <2>1. call'[c].at = "idle" /\ \A b \in VpnCallers : b # c => call'[b] = call[b]
    BY <1>8 DEF VpnError, VpnTypeOK, IdleCall
  <2>2. ActiveOn(s)' = ActiveOn(s) /\ Uncounting(s)' = Uncounting(s) \ {c}
        /\ Counting(s)' = Counting(s) \ {c}
    BY <1>8, <2>1 DEF VpnError, ActiveOn, Uncounting, Counting
  <2>3. /\ Cardinality(Uncounting(s)') \in Nat
        /\ Cardinality(Uncounting(s)') <= Cardinality(Uncounting(s))
    BY <1>b, <2>2, FS_Subset, FS_CardinalityType
  <2>4. CASE c \in Counting(s)
    <3>1. uncounted'[s] = uncounted[s] + 1 /\ load' = load
      BY <1>8, <2>4 DEF VpnError, Counting, VpnTypeOK
    <3>2. Cardinality(Counting(s)') = Cardinality(Counting(s)) - 1
      BY <1>b, <2>2, <2>4, OneLess
    <3>3. /\ Cardinality(ActiveOn(s)') = Cardinality(ActiveOn(s))
          /\ load'[s] = load[s]
      BY <2>2, <3>1
    <3>. QED  BY <1>a, <1>b, <2>3, <3>1, <3>2, <3>3 DEF Covered
  <2>5. CASE c \notin Counting(s)
    <3>1. uncounted'[s] = uncounted[s] /\ load' = load
      BY <1>8, <2>5 DEF VpnError, Counting, VpnTypeOK
    <3>2. Counting(s)' = Counting(s)
      BY <2>2, <2>5
    <3>3. /\ Cardinality(ActiveOn(s)') = Cardinality(ActiveOn(s))
          /\ load'[s] = load[s] /\ Cardinality(Counting(s)') = Cardinality(Counting(s))
      BY <2>2, <3>1, <3>2
    <3>. QED  BY <1>a, <1>b, <2>3, <3>1, <3>3 DEF Covered
  <2>. QED  BY <2>4, <2>5
<1>9. CASE UNCHANGED vpnVars
  BY <1>9, <1>a DEF vpnVars, Covered, ActiveOn, Uncounting, Counting
<1>. QED
  BY <1>1, <1>2, <1>3, <1>4, <1>5, <1>6, <1>7, <1>8, <1>9
     DEF VpnNext, VpnConnect, VpnDisconnect

LEMMA UserNext == VpnTypeOK /\ UserInv /\ [VpnNext]_vpnVars => UserInv'
<1>. SUFFICES ASSUME VpnTypeOK, UserInv, [VpnNext]_vpnVars, NEW u \in VpnUsers
              PROVE  Bounded(u)'
  BY DEF UserInv
<1>. USE DEF Becomes, Answered, Go, vpnGhosts
<1>a. Bounded(u) /\ Cardinality(ActiveOf(u)) \in Nat /\ IsFiniteSet(ActiveOf(u))
      /\ call \in [VpnCallers -> Calls \cup {IdleCall}]
  BY VpnFinite DEF UserInv, VpnTypeOK
<1>b. /\ Cardinality(Starting(u)) \in Nat /\ IsFiniteSet(Starting(u))
      /\ Starting(u) \subseteq VpnCallers
  BY RequestSetsFinite
<1>c. ASSUME sessions' = sessions, Starting(u)' \subseteq Starting(u)
      PROVE  Bounded(u)'
  <2>1. ActiveOf(u)' = ActiveOf(u)
    BY <1>c DEF ActiveOf
  <2>2. /\ Cardinality(Starting(u)') <= Cardinality(Starting(u))
        /\ Cardinality(Starting(u)') \in Nat
    BY <1>b, <1>c, FS_Subset, FS_CardinalityType
  <2>3. Cardinality(VpnCallers) \in Nat
    BY CallersFinite
  <2>. QED  BY <1>a, <1>b, <2>1, <2>2, <2>3 DEF Bounded
<1>1. ASSUME NEW c \in VpnCallers, NEW v \in VpnUsers,
             NEW d \in VpnServers \cup {NoServer}, VpnBegin(c, v, d)
      PROVE  Bounded(u)'
  <2>1. call'[c].at = "active" /\ \A b \in VpnCallers : b # c => call'[b] = call[b]
    BY <1>1 DEF VpnBegin, VpnTypeOK
  <2>2. Starting(u)' \subseteq Starting(u)
    BY <2>1 DEF Starting
  <2>. QED  BY <1>1, <1>c, <2>2 DEF VpnBegin
<1>2. ASSUME NEW c \in VpnCallers, GetActiveSession(c) PROVE Bounded(u)'
  <2>1. call[c] \in Calls /\ sessions' = sessions
    BY <1>2 DEF GetActiveSession, VpnTypeOK, IdleCall
  <2>2. ASSUME NEW i \in ActiveOf(call[c].user), Ends(c, i) PROVE Bounded(u)'
    <3>1. call'[c].at = "end" /\ \A b \in VpnCallers : b # c => call'[b] = call[b]
      BY <1>a, <2>1, <2>2 DEF Ends, Calls
    <3>2. Starting(u)' \subseteq Starting(u)
      BY <3>1 DEF Starting
    <3>. QED  BY <1>c, <2>1, <3>2
  <2>3. ASSUME ActiveOf(call[c].user) = {}, GoOn(c) PROVE Bounded(u)'
    <3>1. /\ \A b \in VpnCallers : b # c => call'[b] = call[b]
          /\ call'[c].at = "idle" \/ (call'[c].at = "keys" /\ call'[c].user = call[c].user)
      BY <2>1, <2>3, GoesOn
    <3>2. CASE call[c].user = u
      <4>1. ActiveOf(u)' = {}
        BY <2>1, <2>3, <3>2 DEF ActiveOf
      <4>2. Cardinality(ActiveOf(u)') = 0
        BY <4>1, FS_EmptySet
      <4>3. Starting(u)' \subseteq VpnCallers
        BY DEF Starting
      <4>4. /\ Cardinality(Starting(u)') <= Cardinality(VpnCallers)
            /\ Cardinality(Starting(u)') \in Nat
        BY <4>3, CallersFinite
      <4>. QED  BY <4>2, <4>4 DEF Bounded
    <3>3. CASE call[c].user # u
      <4>1. Starting(u)' \subseteq Starting(u)
        BY <3>1, <3>3 DEF Starting
      <4>. QED  BY <1>c, <2>1, <4>1
    <3>. QED  BY <3>2, <3>3
  <2>. QED  BY <1>2, <2>2, <2>3 DEF GetActiveSession
<1>3. ASSUME NEW c \in VpnCallers, EndSession(c) PROVE Bounded(u)'
  <2>. DEFINE e == call[c].ending
  <2>1. e \in DOMAIN sessions /\ sessions[e].user = call[c].user /\ call[c] \in Calls
    BY <1>3 DEF EndSession, VpnTypeOK, IdleCall
  <2>2. /\ DOMAIN sessions' = DOMAIN sessions
        /\ \A i \in DOMAIN sessions :
             /\ sessions'[i].user = sessions[i].user
             /\ sessions'[i].active = (i # e /\ sessions[i].active)
    BY <1>3, <2>1, EndedSession DEF EndSession
  <2>3. /\ call'[c] = IF sessions[e].active THEN [call[c] EXCEPT !.at = "decrement"] ELSE IdleCall
        /\ \A b \in VpnCallers : b # c => call'[b] = call[b]
    BY <1>3 DEF EndSession, VpnTypeOK
  <2>4. CASE sessions[e].active /\ call[c].user = u
    <3>1. ActiveOf(u)' = ActiveOf(u) \ {e} /\ e \in ActiveOf(u)
      <4>1. e \in ActiveOf(u)
        BY <2>1, <2>4 DEF ActiveOf
      <4>2. \A i : i \in ActiveOf(u)' <=> i \in ActiveOf(u) /\ i # e
        BY ZenonT(40), <2>2 DEF ActiveOf
      <4>. QED  BY ZenonT(40), <4>1, <4>2
    <3>2. Cardinality(ActiveOf(u)') = Cardinality(ActiveOf(u)) - 1
      BY <1>a, <3>1, OneLess
    <3>3. Starting(u)' \subseteq Starting(u) \cup {c} /\ c \notin Starting(u)
      BY <1>3, <2>3 DEF Starting, EndSession
    <3>4. Cardinality(Starting(u)') <= Cardinality(Starting(u)) + 1
          /\ Cardinality(Starting(u)') \in Nat
      <4>1. IsFiniteSet(Starting(u) \cup {c})
        BY <1>b, FS_AddElement
      <4>2. Cardinality(Starting(u) \cup {c}) = Cardinality(Starting(u)) + 1
        BY <1>b, <3>3, OneMore
      <4>3. Starting(u)' \in SUBSET (Starting(u) \cup {c})
        BY <3>3
      <4>. QED  BY <4>1, <4>2, <4>3, FS_Subset, FS_CardinalityType
    <3>. QED  BY <1>a, <1>b, <3>2, <3>4, CallersFinite DEF Bounded
  <2>5. CASE ~(sessions[e].active /\ call[c].user = u)
    <3>1. ActiveOf(u)' = ActiveOf(u)
      BY <2>1, <2>2, <2>5 DEF ActiveOf
    <3>2. call'[c].at = "idle" \/ (call'[c].at = "decrement" /\ call'[c].user # u)
      BY <2>1, <2>3, <2>5 DEF Calls, IdleCall
    <3>3. Starting(u)' = Starting(u)
      <4>1. c \notin Starting(u) /\ c \notin Starting(u)'
        BY <1>3, <3>2 DEF Starting, EndSession
      <4>2. \A b \in VpnCallers \ {c} : b \in Starting(u)' <=> b \in Starting(u)
        BY <2>3 DEF Starting
      <4>. QED  BY <4>1, <4>2 DEF Starting
    <3>. QED  BY <1>a, <3>1, <3>3 DEF Bounded
  <2>. QED  BY <2>4, <2>5
<1>4. ASSUME NEW c \in VpnCallers, Decrement(c) PROVE Bounded(u)'
  <2>1. call[c] \in Calls
    BY <1>4 DEF Decrement, VpnTypeOK, IdleCall
  <2>2. /\ \A b \in VpnCallers : b # c => call'[b] = call[b]
        /\ IF call[c].server = NoServer THEN call'[c].at = "idle"
           ELSE call'[c].at = "keys" /\ call'[c].user = call[c].user
    BY <1>4, <2>1, GoesOn DEF Decrement
  <2>3. Starting(u)' \subseteq Starting(u)
    BY <1>4, <2>2 DEF Starting, Decrement
  <2>. QED  BY <1>4, <1>c, <2>3 DEF Decrement
<1>5. ASSUME NEW c \in VpnCallers, GetVpnKeys(c) \/ StoreVpnKeys(c) \/ CountSessions(c)
      PROVE  Bounded(u)'
  <2>1. call[c] \in Calls /\ call[c].at \in {"keys", "store", "count"}
    BY <1>5 DEF GetVpnKeys, StoreVpnKeys, CountSessions, VpnTypeOK, IdleCall
  <2>2. /\ call'[c].user = call[c].user
        /\ \A b \in VpnCallers : b # c => call'[b] = call[b]
    <3>1. CASE GetVpnKeys(c)
      BY <1>a, <2>1, <3>1 DEF GetVpnKeys, Calls
    <3>2. CASE StoreVpnKeys(c)
      BY <1>a, <2>1, <3>2 DEF StoreVpnKeys, Calls
    <3>3. CASE CountSessions(c)
      BY <1>a, <2>1, <3>3 DEF CountSessions, Calls
    <3>. QED  BY <1>5, <3>1, <3>2, <3>3
  <2>3. Starting(u)' \subseteq Starting(u)
    BY <2>1, <2>2 DEF Starting
  <2>. QED  BY <1>5, <1>c, <2>3 DEF GetVpnKeys, StoreVpnKeys, CountSessions
<1>6. ASSUME NEW c \in VpnCallers, InsertSession(c) PROVE Bounded(u)'
  <2>. DEFINE n == Len(sessions) + 1
  <2>1. /\ DOMAIN sessions' = DOMAIN sessions \cup {n} /\ n \notin DOMAIN sessions
        /\ \A i \in DOMAIN sessions : sessions'[i] = sessions[i]
        /\ sessions'[n].user = call[c].user /\ sessions'[n].active
    BY <1>6, InsertedSession
  <2>. HIDE DEF n
  <2>2. call[c] \in Calls /\ call[c].at = "insert"
    BY <1>6 DEF InsertSession, VpnTypeOK, IdleCall
  <2>3. /\ call'[c].at = "increment"
        /\ \A b \in VpnCallers : b # c => call'[b] = call[b]
    BY <1>6, <2>2 DEF InsertSession, VpnTypeOK, Calls
  <2>4. Starting(u)' = Starting(u) \ {c}
    BY <2>3 DEF Starting
  <2>5. CASE call[c].user = u
    <3>1. ActiveOf(u)' = ActiveOf(u) \cup {n} /\ n \notin ActiveOf(u)
      BY <2>1, <2>5 DEF ActiveOf
    <3>2. c \in Starting(u)
      BY <2>2, <2>5 DEF Starting
    <3>. QED  BY <1>a, <1>b, <2>4, <3>1, <3>2, OneMore, OneLess, CallersFinite DEF Bounded
  <2>6. CASE call[c].user # u
    <3>1. ActiveOf(u)' = ActiveOf(u)
      BY <2>1, <2>6 DEF ActiveOf
    <3>2. Starting(u)' = Starting(u)
      BY <2>4, <2>6 DEF Starting
    <3>. QED  BY <1>a, <3>1, <3>2 DEF Bounded
  <2>. QED  BY <2>5, <2>6
<1>7. ASSUME NEW c \in VpnCallers, Increment(c) \/ VpnError(c) PROVE Bounded(u)'
  <2>1. call'[c].at = "idle" /\ \A b \in VpnCallers : b # c => call'[b] = call[b]
    BY <1>7 DEF Increment, VpnError, VpnTypeOK, IdleCall
  <2>2. Starting(u)' \subseteq Starting(u)
    BY <2>1 DEF Starting
  <2>. QED  BY <1>7, <1>c, <2>2 DEF Increment, VpnError
<1>8. CASE UNCHANGED vpnVars
  <2>1. Starting(u)' = Starting(u)
    BY <1>8 DEF vpnVars, Starting
  <2>. QED  BY <1>8, <1>c, <2>1 DEF vpnVars
<1>. QED
  BY <1>1, <1>2, <1>3, <1>4, <1>5, <1>6, <1>7, <1>8 DEF VpnNext, VpnConnect, VpnDisconnect

(* The tables of hysj-db/src/vpn.rs and the requests of routes/vpn.rs: what a request
   is about to end exists and is its user's own session. *)
THEOREM VpnTypeCorrect == VpnSpec => []VpnTypeOK
  BY VpnInitType, VpnNextType, PTL DEF VpnSpec

(* end_session and create_session keep current_connections at or above the number of
   active sessions, whatever overlaps, up to the increments that failed or are to come:
   a call between its two UPDATEs in end_session is still covered. *)
THEOREM LoadIsSafe == VpnSpec => []LoadCoversSessions
<1>1. VpnInit => LoadInv
  <2>. SUFFICES ASSUME VpnInit, NEW s \in VpnServers PROVE Covered(s)
    BY DEF LoadInv
  <2>1. ActiveOn(s) = {} /\ Uncounting(s) = {} /\ Counting(s) = {}
    BY DEF VpnInit, ActiveOn, Uncounting, Counting, IdleCall
  <2>2. Cardinality({}) = 0
    BY FS_EmptySet
  <2>. QED  BY <2>1, <2>2 DEF VpnInit, Covered
<1>2. VpnTypeOK /\ LoadInv => LoadCoversSessions
  <2>. SUFFICES ASSUME VpnTypeOK, LoadInv, NEW s \in VpnServers
                PROVE  Cardinality(ActiveOn(s)) <=
                         load[s] + uncounted[s] + Cardinality(Counting(s))
    BY DEF LoadCoversSessions, Counting
  <2>1. Covered(s) /\ load[s] \in Nat /\ uncounted[s] \in Nat
        /\ Cardinality(ActiveOn(s)) \in Nat
    BY VpnFinite DEF LoadInv, VpnTypeOK
  <2>. QED  BY <2>1, RequestSetsFinite DEF Covered
<1>. QED  BY <1>1, <1>2, VpnInitType, VpnNextType, LoadNext, PTL DEF VpnSpec

(* connect and disconnect leave a user with no more active sessions than there are
   callers, with those sessions that calls are about to start: a call that ended one
   and goes on to start another counts as the session it ended. *)
THEOREM SessionsStayBounded == VpnSpec => []SessionsBounded
<1>1. VpnInit => UserInv
  <2>. SUFFICES ASSUME VpnInit, NEW u \in VpnUsers PROVE Bounded(u)
    BY DEF UserInv
  <2>1. ActiveOf(u) = {} /\ Starting(u) = {}
    BY DEF VpnInit, ActiveOf, Starting, IdleCall
  <2>2. Cardinality({}) = 0
    BY FS_EmptySet
  <2>. QED  BY <2>1, <2>2, CallersFinite DEF Bounded
<1>2. VpnTypeOK /\ UserInv => SessionsBounded
  <2>. DEFINE Begins(u) == {c \in VpnCallers : /\ call[c].at \in {"keys", "store", "count", "insert"}
                                               /\ call[c].user = u}
  <2>. SUFFICES ASSUME VpnTypeOK, UserInv, NEW u \in VpnUsers
                PROVE  Cardinality(ActiveOf(u)) + Cardinality(Begins(u)) <= Cardinality(VpnCallers)
    BY DEF SessionsBounded
  <2>1. Begins(u) \in SUBSET Starting(u)
    BY DEF Starting
  <2>. HIDE DEF Begins
  <2>2. Cardinality(Begins(u)) <= Cardinality(Starting(u)) /\ Cardinality(Begins(u)) \in Nat
    BY <2>1, RequestSetsFinite, FS_Subset, FS_CardinalityType
  <2>3. Bounded(u) /\ Cardinality(ActiveOf(u)) \in Nat /\ Cardinality(Starting(u)) \in Nat
    BY VpnFinite, RequestSetsFinite DEF UserInv
  <2>. QED  BY <2>2, <2>3, CallersFinite DEF Bounded
<1>. QED  BY <1>1, <1>2, VpnInitType, VpnNextType, UserNext, PTL DEF VpnSpec

-----------------------------------------------------------------------------
(* Rate limiter and login lockout *)

LEMMA LoginInitType == LoginInit => LoginTypeOK
  BY LoginAssumption DEF LoginInit, LoginTypeOK, NoLogin, Times

LEMMA LoginNextType == LoginTypeOK /\ [LoginNext]_loginVars => LoginTypeOK'
<1> SUFFICES ASSUME LoginTypeOK, [LoginNext]_loginVars PROVE LoginTypeOK'
  OBVIOUS
<1> USE LoginAssumption DEF LoginTypeOK, At, NoLogin
<1>0. Times = 0 .. clock /\ clock \in Nat /\ Times \subseteq Nat
  BY DEF Times
<1>1. ASSUME NEW t \in LoginTasks, LoginArrives(t) PROVE LoginTypeOK'
  BY <1>1 DEF LoginArrives, Times
<1>2. ASSUME NEW t \in LoginTasks, CheckRateLimit(t) PROVE LoginTypeOK'
  <2> DEFINE kept == Within(entries, login[t].now, Window)
  <2>1. Times' = Times
    BY <1>2 DEF CheckRateLimit, Times
  <2>2. login[t].now \in Times
    BY <1>2 DEF CheckRateLimit
  <2>3. kept \in Seq(Times) /\ Len(kept) <= Len(entries) /\ Len(kept) \in Nat
    BY RetainProperties, CountedFinite DEF Within
  <2> HIDE DEF kept
  <2>4. CASE Len(kept) >= LoginMax
    <3>1. entries' = kept /\ At(t, NoLogin) /\ UNCHANGED <<allowed, clock, failures, crashes>>
      BY <1>2, <2>3, <2>4 DEF CheckRateLimit, kept
    <3>. QED  BY <2>1, <2>3, <3>1
  <2>5. CASE ~(Len(kept) >= LoginMax)
    <3>1. /\ entries' = Append(kept, login[t].now) /\ At(t, [at |-> "count"])
          /\ allowed' = Append(allowed, clock) /\ UNCHANGED <<clock, failures, crashes>>
      BY <1>2, <2>5 DEF CheckRateLimit, kept
    <3>2. entries' \in Seq(Times) /\ Len(entries') <= LoginMax
      BY <2>2, <2>3, <2>5, <3>1
    <3>3. allowed' \in Seq(Times)
      BY <1>0, <3>1
    <3>. QED  BY <2>1, <3>1, <3>2, <3>3
  <2>. QED  BY <2>4, <2>5
<1>3. ASSUME NEW t \in LoginTasks, IsLockedOut(t) PROVE LoginTypeOK'
  BY <1>3 DEF IsLockedOut, Times
<1>4. ASSUME NEW t \in LoginTasks, RecordFailure(t) PROVE LoginTypeOK'
  BY <1>4 DEF RecordFailure, Times
<1>5. ASSUME NEW t \in LoginTasks, LoginEnds(t) PROVE LoginTypeOK'
  BY <1>5 DEF LoginEnds, Times
<1>6. CASE CleanupLimiter
  <2>1. Times' = Times
    BY <1>6 DEF CleanupLimiter, Times
  <2>2. entries' \in Seq(Times) /\ Len(entries') <= Len(entries) /\ Len(entries') \in Nat
    BY <1>6, RetainProperties, CountedFinite DEF CleanupLimiter, Within
  <2>. QED  BY <1>6, <2>1, <2>2 DEF CleanupLimiter
<1>7. CASE LoginTick
  <2>1. Times \subseteq Times' /\ clock' \in 0 .. MaxTime
    BY <1>7, <1>0 DEF LoginTick, Times
  <2>2. UNCHANGED <<entries, login, failures, allowed, crashes>>
    BY <1>7 DEF LoginTick
  <2>3. Seq(Times) \subseteq Seq(Times')
    BY <2>1
  <2>4. login \in [LoginTasks -> [at : {"check"}, now : Times'] \cup [at : {"none", "count", "verify"}]]
    BY <2>1
  <2> HIDE DEF Times
  <2>. QED  BY <2>1, <2>2, <2>3, <2>4
<1>8. CASE LoginCrash
  BY <1>8 DEF LoginCrash, Times
<1>9. CASE UNCHANGED loginVars
  BY <1>9 DEF loginVars, Times
<1>. QED  BY <1>1, <1>2, <1>3, <1>4, <1>5, <1>6, <1>7, <1>8, <1>9 DEF LoginNext


After(window, now) == {x \in Nat : x + window > now}
Verifying == {t \in LoginTasks : login[t].at = "verify"}

(* Whoever is past the count found fewer failures than the limit. *)
GuessInv ==
  /\ LoginTypeOK /\ GuessesBounded
  /\ RecentFailures + Cardinality(Verifying) <= LoginMax - 1 + Cardinality(LoginTasks)

LEMMA VerifyingFinite ==
  /\ IsFiniteSet(Verifying) /\ Cardinality(Verifying) \in Nat
  /\ Cardinality(Verifying) <= Cardinality(LoginTasks) /\ Cardinality(LoginTasks) \in Nat
<1>1. Verifying \subseteq LoginTasks /\ IsFiniteSet(LoginTasks)
  BY LoginAssumption DEF Verifying
<1>. QED  BY <1>1, FS_Subset, FS_CardinalityType

LEMMA RecentCounted ==
  ASSUME LoginTypeOK
  PROVE  /\ RecentFailures = Cardinality(Counted(failures, After(Window, clock)))
         /\ RecentFailures \in Nat
         /\ Cardinality(InWindow(failures, clock, Window)) = RecentFailures
<1>1. failures \in Seq(Times) /\ clock \in Nat /\ Times = 0 .. clock
  BY DEF LoginTypeOK, Times
<1>2. \A i \in DOMAIN failures : failures[i] \in Nat /\ failures[i] <= clock
  BY <1>1
<1>3. /\ {i \in DOMAIN failures : failures[i] + Window > clock} = Counted(failures, After(Window, clock))
      /\ InWindow(failures, clock, Window) = Counted(failures, After(Window, clock))
  BY <1>2 DEF Counted, After, InWindow
<1>4. Cardinality(Counted(failures, After(Window, clock))) \in Nat
  BY <1>1, CountedFinite
<1>. QED  BY <1>3, <1>4 DEF RecentFailures

LEMMA GuessInit == LoginInit => GuessInv
<1> SUFFICES ASSUME LoginInit PROVE GuessInv
  OBVIOUS
<1>1. LoginTypeOK
  BY LoginInitType
<1>2. Verifying = {}
  BY DEF LoginInit, Verifying, NoLogin
<1>3. failures = << >> /\ DOMAIN failures = {}
  BY DEF LoginInit
<1>4. RecentFailures = 0 /\ Cardinality(Verifying) = 0
  <2>1. {i \in DOMAIN failures : failures[i] + Window > clock} = {}
    BY <1>3
  <2>. QED  BY <1>2, <2>1, FS_EmptySet DEF RecentFailures
<1>5. GuessesBounded
  <2>1. \A end : InWindow(failures, end, Window) = {}
    BY <1>3 DEF InWindow
  <2>. QED  BY <2>1, FS_EmptySet, VerifyingFinite, LoginAssumption DEF GuessesBounded
<1>. QED  BY <1>1, <1>4, <1>5, VerifyingFinite, LoginAssumption DEF GuessInv

(* A step that adds no failure and leaves the clock keeps all that was counted. *)
LEMMA GuessNext == GuessInv /\ [LoginNext]_loginVars => GuessInv'
<1> SUFFICES ASSUME GuessInv, [LoginNext]_loginVars PROVE GuessInv'
  OBVIOUS
<1> DEFINE Limit == LoginMax - 1 + Cardinality(LoginTasks)
           V == Cardinality(Verifying)
<1>1. LoginTypeOK /\ LoginTypeOK'
  BY LoginNextType DEF GuessInv
<1>2. /\ V \in Nat /\ V' \in Nat /\ V' <= Cardinality(LoginTasks) /\ Cardinality(LoginTasks) \in Nat
      /\ IsFiniteSet(Verifying) /\ IsFiniteSet(Verifying') /\ LoginMax \in Nat \ {0}
      /\ IsFiniteSet(LoginTasks) /\ Limit \in Nat
  <2>1. V \in Nat /\ IsFiniteSet(Verifying) /\ Cardinality(LoginTasks) \in Nat
    BY VerifyingFinite
  <2>2. Verifying' \subseteq LoginTasks
    BY DEF Verifying
  <2>. QED  BY <2>1, <2>2, LoginAssumption, FS_Subset, FS_CardinalityType
<1>3. /\ RecentFailures \in Nat /\ RecentFailures' \in Nat
      /\ RecentFailures = Cardinality(Counted(failures, After(Window, clock)))
      /\ RecentFailures' = Cardinality(Counted(failures', After(Window, clock')))
      /\ Cardinality(InWindow(failures', clock', Window)) = RecentFailures'
  <2>1. RecentFailures' = Cardinality(Counted(failures', After(Window, clock')))
        /\ RecentFailures' \in Nat
        /\ Cardinality(InWindow(failures', clock', Window)) = RecentFailures'
    <3>1. failures' \in Seq(Times') /\ clock' \in Nat /\ Times' = 0 .. clock'
      BY <1>1 DEF LoginTypeOK, Times
    <3>2. \A i \in DOMAIN failures' : failures'[i] \in Nat /\ failures'[i] <= clock'
      BY <3>1
    <3>3. /\ {i \in DOMAIN failures' : failures'[i] + Window > clock'} = Counted(failures', After(Window, clock'))
          /\ InWindow(failures', clock', Window) = Counted(failures', After(Window, clock'))
      BY <3>2 DEF Counted, After, InWindow
    <3>4. Cardinality(Counted(failures', After(Window, clock'))) \in Nat
      BY <3>1, CountedFinite
    <3>. QED  BY <3>3, <3>4 DEF RecentFailures
  <2>. QED  BY <1>1, <2>1, RecentCounted
<1>4. RecentFailures + V <= Limit /\ GuessesBounded
  BY DEF GuessInv
<1>5. clock \in Nat /\ failures \in Seq(Nat) /\ Window \in Nat /\ \A i \in DOMAIN failures : failures[i] <= clock
  <2>1. clock \in Nat /\ failures \in Seq(0 .. clock)
    BY <1>1 DEF LoginTypeOK, Times
  <2>. QED  BY <2>1, LoginAssumption
<1> HIDE DEF Limit, V
<1>6. ASSUME RecentFailures' + V' <= Limit,
             \A end \in 0 .. clock' : end # clock' =>
               /\ end \in 0 .. clock
               /\ InWindow(failures', end, Window) = InWindow(failures, end, Window)
      PROVE  GuessInv'
  <2>1. ASSUME NEW end \in Times'
        PROVE  Cardinality(InWindow(failures', end, Window)) <= Limit
    <3>1. CASE end = clock'
      BY <1>2, <1>3, <1>6, <3>1
    <3>2. CASE end # clock'
      BY <1>4, <1>6, <2>1, <3>2 DEF GuessesBounded, Times, Limit
    <3>. QED  BY <3>1, <3>2
  <2>2. GuessesBounded'
    BY <2>1 DEF GuessesBounded, Limit
  <2>. QED  BY <1>1, <1>6, <2>2 DEF GuessInv, Limit, V
<1>7. ASSUME UNCHANGED <<failures, clock>>, Verifying' \subseteq Verifying \/ RecentFailures < LoginMax
      PROVE  GuessInv'
  <2>1. RecentFailures' = RecentFailures
    BY <1>7 DEF RecentFailures
  <2>2. CASE Verifying' \subseteq Verifying
    <3>1. V' <= V
      BY <1>2, <2>2, FS_Subset DEF V
    <3>. QED  BY <1>2, <1>3, <1>4, <1>6, <1>7, <2>1, <3>1
  <2>3. CASE RecentFailures < LoginMax
    BY <1>2, <1>3, <1>6, <1>7, <2>1, <2>3 DEF Limit
  <2>. QED  BY <1>7, <2>2, <2>3
<1> USE DEF At, NoLogin
<1>8. ASSUME NEW t \in LoginTasks, LoginArrives(t) \/ CheckRateLimit(t) \/ LoginEnds(t)
      PROVE  GuessInv'
  <2>1. UNCHANGED <<failures, clock>>
    BY <1>8 DEF LoginArrives, CheckRateLimit, LoginEnds
  <2>2. ASSUME NEW w, login' = [login EXCEPT ![t] = w], w.at # "verify"
        PROVE  Verifying' \subseteq Verifying
    BY <1>1, <2>2 DEF Verifying, LoginTypeOK
  <2>3. Verifying' \subseteq Verifying
    <3>1. CASE LoginArrives(t)
      <4>1. login' = [login EXCEPT ![t] = [at |-> "check", now |-> clock]]
        BY <3>1 DEF LoginArrives
      <4>2. [at |-> "check", now |-> clock].at # "verify"
        OBVIOUS
      <4>. QED  BY <2>2, <4>1, <4>2
    <3>2. CASE CheckRateLimit(t)
      BY <2>2, <3>2 DEF CheckRateLimit
    <3>3. CASE LoginEnds(t)
      <4>1. login' = [login EXCEPT ![t] = NoLogin] /\ NoLogin.at # "verify"
        BY <3>3 DEF LoginEnds
      <4>. QED  BY <2>2, <4>1
    <3>. QED  BY <1>8, <3>1, <3>2, <3>3
  <2>. QED  BY <1>7, <2>1, <2>3
<1>9. ASSUME NEW t \in LoginTasks, IsLockedOut(t) PROVE GuessInv'
  <2>1. UNCHANGED <<failures, clock>>
    BY <1>9 DEF IsLockedOut
  <2>2. CASE RecentFailures >= LoginMax
    <3>1. Verifying' \subseteq Verifying
      BY <1>1, <1>9, <2>2 DEF IsLockedOut, Verifying, LoginTypeOK
    <3>. QED  BY <1>7, <2>1, <3>1
  <2>3. CASE ~(RecentFailures >= LoginMax)
    BY <1>2, <1>3, <1>7, <2>1, <2>3
  <2>. QED  BY <2>2, <2>3
<1>10. ASSUME NEW t \in LoginTasks, RecordFailure(t) PROVE GuessInv'
  <2>1. /\ failures' = Append(failures, clock) /\ clock' = clock
        /\ t \in Verifying /\ Verifying' = Verifying \ {t}
    BY <1>1, <1>10 DEF RecordFailure, Verifying, LoginTypeOK
  <2>2. V' = V - 1
    BY <1>2, <2>1, FS_RemoveElement DEF V
  <2>3. RecentFailures' <= RecentFailures + 1
    BY <1>3, <1>5, <2>1, CountedAppend
  <2>4. RecentFailures' + V' <= Limit
    BY <1>2, <1>3, <1>4, <2>2, <2>3
  <2>5. ASSUME NEW end \in 0 .. clock', end # clock'
        PROVE  InWindow(failures', end, Window) = InWindow(failures, end, Window)
    <3>1. /\ DOMAIN failures' = DOMAIN failures \cup {Len(failures) + 1}
          /\ \A i \in DOMAIN failures : failures'[i] = failures[i]
          /\ failures'[Len(failures) + 1] = clock
      BY <1>5, <2>1
    <3>2. ~(clock <= end)
      BY <1>5, <2>1, <2>5
    <3>. QED  BY <3>1, <3>2 DEF InWindow
  <2>. QED  BY <1>6, <2>1, <2>4, <2>5
<1>11. CASE CleanupLimiter
  <2>1. UNCHANGED <<failures, clock, login>>
    BY <1>11 DEF CleanupLimiter
  <2>. QED  BY <1>7, <2>1 DEF Verifying
<1>12. CASE LoginTick
  <2>1. UNCHANGED <<failures, login>> /\ clock' = clock + 1
    BY <1>12 DEF LoginTick
  <2>2. V' = V
    BY <2>1 DEF V, Verifying
  <2>3. RecentFailures' <= RecentFailures
    <3>1. Counted(failures', After(Window, clock')) \subseteq Counted(failures, After(Window, clock))
      BY <1>5, <2>1 DEF Counted, After
    <3>2. IsFiniteSet(Counted(failures, After(Window, clock)))
      BY <1>5, CountedFinite
    <3>. QED  BY <1>3, <3>1, <3>2, FS_Subset
  <2>4. RecentFailures' + V' <= Limit
    BY <1>2, <1>3, <1>4, <2>2, <2>3
  <2>. QED  BY <1>5, <1>6, <2>1, <2>4
<1>13. CASE LoginCrash
  <2>1. UNCHANGED <<failures, clock>> /\ Verifying' \subseteq Verifying
    BY <1>13 DEF LoginCrash, Verifying
  <2>. QED  BY <1>7, <2>1
<1>14. CASE UNCHANGED loginVars
  <2>1. UNCHANGED <<failures, clock, login>>
    BY <1>14 DEF loginVars
  <2>. QED  BY <1>7, <2>1 DEF Verifying
<1>. QED  BY <1>8, <1>9, <1>10, <1>11, <1>12, <1>13, <1>14 DEF LoginNext

(* What rate_limit.rs and the login route keep has the declared types: no stamp is ahead
   of the clock, and the limiter never holds more entries than it allows. *)
THEOREM LoginTypeCorrect == LoginSpec => []LoginTypeOK
BY LoginInitType, LoginNextType, PTL DEF LoginSpec

(* count_recent_failures across restarts: however the calls of login overlap, and
   wherever the server crashes, a window holds fewer failed passwords than the limit
   and one more for each task. *)
THEOREM LockoutHolds == LoginSpec => []GuessesBounded
<1>1. GuessInv => GuessesBounded
  BY DEF GuessInv
<1>. QED  BY <1>1, GuessInit, GuessNext, PTL DEF LoginSpec

(* What passed in the last window is still recorded, and so is as little as that. *)
WindowInv ==
  /\ LoginTypeOK /\ WindowLimit
  /\ \A t \in LoginTasks : login[t].at = "check" => clock <= login[t].now + Lag
  /\ \A now \in Nat : now >= clock =>
       Cardinality(Counted(allowed, After(Window - Lag, now)))
         <= Cardinality(Counted(entries, After(Window, now)))

LEMMA WindowInit == LoginInit => WindowInv
<1> SUFFICES ASSUME LoginInit PROVE WindowInv
  OBVIOUS
<1>1. LoginTypeOK
  BY LoginInitType
<1>2. allowed = << >> /\ entries = << >> /\ DOMAIN << >> = {}
  BY DEF LoginInit
<1>3. \A S : Counted(allowed, S) = {} /\ Counted(entries, S) = {}
  BY <1>2 DEF Counted
<1>4. \A end : InWindow(allowed, end, Window - Lag) = {}
  BY <1>2 DEF InWindow
<1>5. WindowLimit
  BY <1>4, FS_EmptySet, LoginAssumption DEF WindowLimit
<1>6. \A t \in LoginTasks : login[t].at # "check"
  BY DEF LoginInit, NoLogin
<1>7. \A S : Cardinality(Counted(allowed, S)) = 0 /\ Cardinality(Counted(entries, S)) = 0
  BY <1>3, FS_EmptySet
<1>. QED  BY <1>1, <1>5, <1>6, <1>7 DEF WindowInv

(* Pruning with a clock that is not ahead keeps what counts later. *)
LEMMA PrunedKeeps ==
  ASSUME NEW s \in Seq(Nat), NEW now \in Nat, NEW later \in Nat, now <= later,
         NEW window \in Nat, Window <= window
  PROVE  Cardinality(Counted(Within(s, now, window), After(Window, later)))
           = Cardinality(Counted(s, After(Window, later)))
<1> DEFINE S == {x \in Nat : x + window > now}
           T == After(Window, later)
<1>1. S \cap T = T
  BY LoginAssumption DEF After
<1> HIDE DEF S, T
<1>2. Cardinality(Counted(Retain(s, S), T)) = Cardinality(Counted(s, S \cap T))
  BY RetainProperties
<1>. QED  BY <1>1, <1>2 DEF Within, S, T

LEMMA WindowNext == WindowInv /\ [LoginNext]_loginVars => WindowInv'
<1> SUFFICES ASSUME WindowInv, [LoginNext]_loginVars PROVE WindowInv'
  OBVIOUS
<1> DEFINE Let(now)  == Cardinality(Counted(allowed, After(Window - Lag, now)))
           Kept(now) == Cardinality(Counted(entries, After(Window, now)))
           Waits == \A t \in LoginTasks : login[t].at = "check" => clock <= login[t].now + Lag
           NoneMissed == \A now \in Nat : now >= clock => Let(now) <= Kept(now)
<1>1. LoginTypeOK /\ LoginTypeOK' /\ WindowLimit /\ Waits /\ NoneMissed
  BY LoginNextType DEF WindowInv
<1>2. /\ clock \in Nat /\ clock' \in Nat /\ Times = 0 .. clock /\ Times' = 0 .. clock'
      /\ entries \in Seq(Nat) /\ entries' \in Seq(Nat) /\ allowed \in Seq(Nat) /\ allowed' \in Seq(Nat)
      /\ Len(entries') <= LoginMax
      /\ \A i \in DOMAIN allowed : allowed[i] <= clock
  <2>1. /\ clock \in Nat /\ clock' \in Nat /\ Times = 0 .. clock /\ Times' = 0 .. clock'
        /\ entries \in Seq(Times) /\ entries' \in Seq(Times') /\ allowed \in Seq(Times) /\ allowed' \in Seq(Times')
        /\ Len(entries') <= LoginMax
    BY <1>1 DEF LoginTypeOK, Times
  <2>. QED  BY <2>1
<1>3. Window \in Nat /\ Lag \in Nat /\ Window - Lag \in Nat /\ MaxAge \in Nat /\ Window <= MaxAge /\ LoginMax \in Nat
  BY LoginAssumption
<1>4. \A now : /\ Let(now) \in Nat /\ Kept(now) \in Nat /\ Let(now)' \in Nat /\ Kept(now)' \in Nat
               /\ Kept(now)' <= Len(entries') /\ Len(entries') \in Nat
  BY <1>2, CountedFinite
<1>5. \A i \in DOMAIN allowed' : allowed'[i] \in Nat /\ allowed'[i] <= clock'
  <2>1. allowed' \in Seq(Times')
    BY <1>1 DEF LoginTypeOK
  <2>. QED  BY <1>2, <2>1
<1> HIDE DEF Waits
<1>6. ASSUME Waits', NoneMissed',
             \A end \in 0 .. clock' : end # clock' =>
               /\ end \in 0 .. clock
               /\ InWindow(allowed', end, Window - Lag) \subseteq InWindow(allowed, end, Window - Lag)
      PROVE  WindowInv'
  <2>1. Cardinality(InWindow(allowed', clock', Window - Lag)) <= LoginMax
    <3>1. InWindow(allowed', clock', Window - Lag) = Counted(allowed', After(Window - Lag, clock'))
      BY <1>5 DEF InWindow, Counted, After
    <3>2. Let(clock)' <= Kept(clock)'
      BY <1>2, <1>6
    <3>. QED  BY <1>2, <1>3, <1>4, <3>1, <3>2
  <2>2. ASSUME NEW end \in 0 .. clock', end # clock'
        PROVE  Cardinality(InWindow(allowed', end, Window - Lag)) <= LoginMax
    <3>1. Cardinality(InWindow(allowed, end, Window - Lag)) <= LoginMax
      BY <1>1, <1>2, <1>6, <2>2 DEF WindowLimit
    <3>2. IsFiniteSet(InWindow(allowed, end, Window - Lag))
      <4>1. InWindow(allowed, end, Window - Lag) \subseteq DOMAIN allowed /\ IsFiniteSet(DOMAIN allowed)
        <5>1. DOMAIN allowed = 1 .. Len(allowed) /\ Len(allowed) \in Nat
          BY <1>2
        <5>. QED  BY <5>1, FS_Interval DEF InWindow
      <4>. QED  BY <4>1, FS_Subset
    <3>3. /\ Cardinality(InWindow(allowed', end, Window - Lag)) \in Nat
          /\ Cardinality(InWindow(allowed, end, Window - Lag)) \in Nat
          /\ Cardinality(InWindow(allowed', end, Window - Lag)) <= Cardinality(InWindow(allowed, end, Window - Lag))
      BY <1>6, <2>2, <3>2, FS_Subset, FS_CardinalityType
    <3>. QED  BY <1>3, <3>1, <3>3
  <2>3. WindowLimit'
    BY <1>2, <2>1, <2>2 DEF WindowLimit
  <2>. QED  BY <1>1, <1>6, <2>3 DEF WindowInv, Waits
<1> USE DEF At, NoLogin
<1>7. ASSUME UNCHANGED <<clock, entries, allowed>>, Waits'
      PROVE  WindowInv'
  <2>1. NoneMissed'
    BY <1>1, <1>7
  <2>. QED  BY <1>6, <1>7, <2>1
<1>8. ASSUME NEW t \in LoginTasks, NEW w, login' = [login EXCEPT ![t] = w],
             w.at = "check" => w.now = clock, UNCHANGED clock
      PROVE  Waits'
  BY <1>1, <1>2, <1>3, <1>8 DEF Waits, LoginTypeOK
<1>9. ASSUME NEW t \in LoginTasks, LoginArrives(t)
      PROVE  WindowInv'
  BY <1>7, <1>8, <1>9 DEF LoginArrives
<1>10. ASSUME NEW t \in LoginTasks, IsLockedOut(t)
       PROVE  WindowInv'
  <2>1. Waits'
    BY <1>8, <1>10 DEF IsLockedOut
  <2>. QED  BY <1>7, <1>10, <2>1 DEF IsLockedOut
<1>11. ASSUME NEW t \in LoginTasks, RecordFailure(t) \/ LoginEnds(t)
       PROVE  WindowInv'
  <2>1. UNCHANGED <<clock, entries, allowed>> /\ login' = [login EXCEPT ![t] = NoLogin]
    BY <1>11 DEF RecordFailure, LoginEnds
  <2>. QED  BY <1>7, <1>8, <2>1
<1>12. ASSUME NEW t \in LoginTasks, CheckRateLimit(t)
       PROVE  WindowInv'
  <2> DEFINE now == login[t].now
             kept == Within(entries, now, Window)
  <2>1. now \in Nat /\ now <= clock /\ clock <= now + Lag
    <3>1. login[t].at = "check" /\ login[t] \in [at : {"check"}, now : Times] \cup [at : {"none", "count", "verify"}]
      BY <1>1, <1>12 DEF CheckRateLimit, LoginTypeOK
    <3>2. now \in Times
      BY <3>1
    <3>. QED  BY <1>1, <1>2, <3>1, <3>2 DEF Waits
  <2>2. \A later \in Nat : later >= clock =>
          Cardinality(Counted(kept, After(Window, later))) = Kept(later)
    <3>1. Window <= Window
      BY <1>3
    <3> HIDE DEF now
    <3>. QED  BY <1>2, <1>3, <2>1, <3>1, PrunedKeeps
  <2>3. kept \in Seq(Nat) /\ clock' = clock
    BY <1>2, <1>12, RetainProperties DEF Within, CheckRateLimit
  <2>4. CASE Len(kept) >= LoginMax
    <3>1. entries' = kept /\ login' = [login EXCEPT ![t] = NoLogin] /\ allowed' = allowed
      BY <1>12, <2>4 DEF CheckRateLimit
    <3> HIDE DEF kept
    <3>2. Waits'
      BY <1>8, <2>3, <3>1
    <3>3. NoneMissed'
      BY <1>1, <2>2, <2>3, <3>1
    <3>. QED  BY <1>6, <2>3, <3>1, <3>2, <3>3
  <2>5. CASE ~(Len(kept) >= LoginMax)
    <3>1. /\ entries' = Append(kept, now) /\ login' = [login EXCEPT ![t] = [at |-> "count"]]
          /\ allowed' = Append(allowed, clock)
      BY <1>12, <2>5 DEF CheckRateLimit
    <3> HIDE DEF kept, now
    <3>2. Waits'
      BY <1>8, <2>3, <3>1
    <3>3. ASSUME NEW later \in Nat, later >= clock
          PROVE  Let(later)' <= Kept(later)'
      <4>1. Let(later)' = Let(later) + (IF clock \in After(Window - Lag, later) THEN 1 ELSE 0)
        BY <1>2, <3>1, CountedAppend
      <4>2. Kept(later)' = Kept(later) + (IF now \in After(Window, later) THEN 1 ELSE 0)
        <5>1. Cardinality(Counted(Append(kept, now), After(Window, later)))
                = Cardinality(Counted(kept, After(Window, later))) + (IF now \in After(Window, later) THEN 1 ELSE 0)
          BY <2>1, <2>3, CountedAppend
        <5>. QED  BY <2>2, <3>1, <3>3, <5>1
      <4>3. clock \in After(Window - Lag, later) => now \in After(Window, later)
        BY <1>2, <1>3, <2>1 DEF After
      <4>4. Let(later) <= Kept(later) /\ Let(later) \in Nat /\ Kept(later) \in Nat
        BY <1>1, <1>4, <3>3
      <4> HIDE DEF Let, Kept
      <4>. QED  BY <4>1, <4>2, <4>3, <4>4
    <3>4. NoneMissed'
      BY <2>3, <3>3
    <3>5. ASSUME NEW end \in 0 .. clock', end # clock'
          PROVE  InWindow(allowed', end, Window - Lag) \subseteq InWindow(allowed, end, Window - Lag)
      <4>1. /\ DOMAIN allowed' = DOMAIN allowed \cup {Len(allowed) + 1}
            /\ \A i \in DOMAIN allowed : allowed'[i] = allowed[i]
            /\ allowed'[Len(allowed) + 1] = clock
        BY <1>2, <3>1
      <4>2. ~(clock <= end)
        BY <1>2, <2>3, <3>5
      <4>. QED  BY <4>1, <4>2 DEF InWindow
    <3>. QED  BY <1>6, <2>3, <3>2, <3>4, <3>5
  <2>. QED  BY <2>4, <2>5
<1>13. CASE CleanupLimiter
  <2>1. entries' = Within(entries, clock, MaxAge) /\ UNCHANGED <<clock, login, allowed>>
    BY <1>13 DEF CleanupLimiter
  <2>2. Waits'
    BY <1>1, <2>1 DEF Waits
  <2>3. \A later \in Nat : later >= clock => Kept(later)' = Kept(later)
    BY <1>2, <1>3, <2>1, PrunedKeeps
  <2>4. NoneMissed'
    BY <1>1, <2>1, <2>3
  <2>. QED  BY <1>6, <2>1, <2>2, <2>4
<1>14. CASE LoginTick
  <2>1. clock' = clock + 1 /\ UNCHANGED <<entries, login, allowed>>
    BY <1>14 DEF LoginTick
  <2>2. Waits'
    <3>1. \A t \in LoginTasks : login[t].at = "check" => login[t].now \in Nat /\ clock < login[t].now + Lag
      <4>1. ASSUME NEW t \in LoginTasks, login[t].at = "check" PROVE login[t].now \in Nat
        <5>1. login[t] \in [at : {"check"}, now : Times] \cup [at : {"none", "count", "verify"}]
          BY <1>1 DEF LoginTypeOK
        <5>. QED  BY <1>2, <4>1, <5>1
      <4>. QED  BY <1>14, <4>1 DEF LoginTick
    <3>. QED  BY <1>2, <1>3, <2>1, <3>1 DEF Waits
  <2>3. NoneMissed'
    BY <1>1, <1>2, <2>1
  <2>4. \A end \in 0 .. clock' : end # clock' => end \in 0 .. clock
    BY <1>2, <2>1
  <2>. QED  BY <1>6, <2>1, <2>2, <2>3, <2>4
<1>15. CASE LoginCrash
  <2>1. entries' = << >> /\ allowed' = << >> /\ clock' = clock /\ \A t \in LoginTasks : login'[t].at = "none"
    BY <1>15 DEF LoginCrash
  <2>2. Waits'
    BY <2>1 DEF Waits
  <2>3. \A S : Counted(allowed', S) = {} /\ Counted(entries', S) = {}
    BY <2>1 DEF Counted
  <2>4. NoneMissed'
    BY <2>3, FS_EmptySet
  <2>5. \A end : InWindow(allowed', end, Window - Lag) = {}
    BY <2>1 DEF InWindow
  <2>. QED  BY <1>6, <2>1, <2>2, <2>4, <2>5
<1>16. CASE UNCHANGED loginVars
  <2>1. UNCHANGED <<clock, entries, allowed, login>>
    BY <1>16 DEF loginVars
  <2>2. Waits'
    BY <1>1, <2>1 DEF Waits
  <2>. QED  BY <1>7, <2>1, <2>2
<1>. QED  BY <1>9, <1>10, <1>11, <1>12, <1>13, <1>14, <1>15, <1>16 DEF LoginNext

(* RateLimiter::check: between restarts no window, shortened by the lag, has more
   requests that passed than the limit, whatever is pruned and cleaned up. *)
THEOREM SlidingWindow == LoginSpec => []WindowLimit
<1>1. WindowInv => WindowLimit
  BY DEF WindowInv
<1>. QED  BY <1>1, WindowInit, WindowNext, PTL DEF LoginSpec

-----------------------------------------------------------------------------
(* All of them side by side *)

\* Side by side each part behaves as it does alone: its own steps, or none.
LEMMA PartsAlone ==
  ServicesSpec => /\ VpnSpec /\ MediaSpec /\ LoginSpec /\ OtpSpec /\ GroupSpec /\ ContactSpec
                  /\ AccountSpec /\ PreKeySpec /\ OnionSpec /\ Spec
<1>1. ServicesInit => /\ VpnInit /\ MediaInit /\ LoginInit /\ OtpInit /\ GroupInit /\ ContactInit
                      /\ AccountInit /\ PreKeyInit /\ OnionInit /\ Init
  BY DEF ServicesInit
<1>. USE DEF ServicesNext, servicesVars
<1>2. [ServicesNext]_servicesVars => [VpnNext]_vpnVars
  OBVIOUS
<1>3. [ServicesNext]_servicesVars => [MediaNext]_mediaVars
  OBVIOUS
<1>4. [ServicesNext]_servicesVars => [LoginNext]_loginVars
  OBVIOUS
<1>5. [ServicesNext]_servicesVars => [OtpNext]_otpVars
  OBVIOUS
<1>6. [ServicesNext]_servicesVars => [GroupNext]_groupVars
  OBVIOUS
<1>7. [ServicesNext]_servicesVars => [ContactNext]_contactVars
  OBVIOUS
<1>8. [ServicesNext]_servicesVars => [AccountNext]_accountVars
  OBVIOUS
<1>9. [ServicesNext]_servicesVars => [PreKeyNext]_preKeyVars
  OBVIOUS
<1>10. [ServicesNext]_servicesVars => [OnionNext]_onionVars
  OBVIOUS
<1>11. [ServicesNext]_servicesVars => [Next]_vars
  OBVIOUS
<1>. QED  BY <1>1, <1>2, <1>3, <1>4, <1>5, <1>6, <1>7, <1>8, <1>9, <1>10, <1>11,
             PTL DEF ServicesSpec, VpnSpec, MediaSpec, LoginSpec, OtpSpec, GroupSpec, ContactSpec,
                     AccountSpec, PreKeySpec, OnionSpec, Spec

(* The types of the services, of the tables, of the onions and of the FFI's sessions, in
   every state of a behaviour that takes the steps of one of them. *)
THEOREM ServicesTypeCorrect == ServicesSpec => []ServicesTypeOK
<1>1. /\ VpnTypeOK /\ MediaTypeOK /\ LoginTypeOK /\ OtpTypeOK
      /\ GroupTypeOK /\ ContactTypeOK /\ AccountTypeOK /\ PreKeyTypeOK
      /\ OnionTypeOK /\ TypeOK
      => ServicesTypeOK
  BY DEF ServicesTypeOK
<1>. QED  BY <1>1, PartsAlone, VpnTypeCorrect, MediaTypeCorrect, LoginTypeCorrect, OtpTypeCorrect,
             GroupTypeCorrect, ContactTypeCorrect, AccountTypeCorrect, PreKeyTypeCorrect,
             OnionTypeCorrect, NativeTypeCorrect, PTL
=============================================================================
