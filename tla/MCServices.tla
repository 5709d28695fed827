------------------------------- MODULE MCServices ------------------------------
(***************************************************************************)
(* The services beside the relay and the operations of the clients, side   *)
(* by side.  They share no state, so a behaviour takes the steps of one of *)
(* them, chosen at the start.  The same names of users and tasks serve in  *)
(* all of them.                                                            *)
(***************************************************************************)
EXTENDS Vpn, Media, Login, Otp, Groups, Contacts, Accounts, PreKeys, Onion,
        NativeSession, TLC

CONSTANTS vera, vito,            \* users
          t1, t2,                \* tasks
          phone, reg, up, again, k1, k2, k3

VARIABLE part                    \* whose steps are taken

TaskSymmetry == Permutations({vera, vito}) \cup Permutations({t1, t2})

\* A device registers with more keys than the limit, replenishes when they are claimed, and
\* repeats that upload.
OneDevice == [r \in Requests |-> phone]
ForPhone == [u \in Uploads |-> phone]
KeyBatches == reg :> <<k1, k2>> @@ up :> <<k3>> @@ again :> <<k3>>

ServicesInit ==
  /\ VpnInit /\ MediaInit /\ LoginInit /\ OtpInit /\ GroupInit /\ ContactInit
  /\ AccountInit /\ PreKeyInit /\ OnionInit /\ Init
  /\ part \in {"vpn", "media", "login", "otp", "groups", "contacts", "accounts",
                  "prekeys", "onion", "native"}

ServicesNext ==
  /\ UNCHANGED part
  /\ IF part = "vpn" THEN VpnNext ELSE UNCHANGED vpnVars
  /\ IF part = "media" THEN MediaNext ELSE UNCHANGED mediaVars
  /\ IF part = "login" THEN LoginNext ELSE UNCHANGED loginVars
  /\ IF part = "otp" THEN OtpNext ELSE UNCHANGED otpVars
  /\ IF part = "groups" THEN GroupNext ELSE UNCHANGED groupVars
  /\ IF part = "contacts" THEN ContactNext ELSE UNCHANGED contactVars
  /\ IF part = "accounts" THEN AccountNext ELSE UNCHANGED accountVars
  /\ IF part = "prekeys" THEN PreKeyNext ELSE UNCHANGED preKeyVars
  /\ IF part = "onion" THEN OnionNext ELSE UNCHANGED onionVars
  /\ IF part = "native" THEN Next ELSE UNCHANGED vars

servicesVars == <<vpnVars, mediaVars, loginVars, otpVars, groupVars, contactVars,
                  accountVars, preKeyVars, onionVars, vars, part>>

ServicesSpec == ServicesInit /\ [][ServicesNext]_servicesVars

\* The type invariants of the parts.
ServicesTypeOK ==
  /\ VpnTypeOK /\ MediaTypeOK /\ LoginTypeOK /\ OtpTypeOK
  /\ GroupTypeOK /\ ContactTypeOK /\ AccountTypeOK /\ PreKeyTypeOK
  /\ OnionTypeOK /\ TypeOK
=============================================================================
