----------------------------------- MODULE Otp ---------------------------------
(***************************************************************************)
(* One-time codes by SMS (routes/otp.rs, hysj-messaging/src/otp.rs): Redis *)
(* keeps the latest code of a phone number; a call that submits it deletes *)
(* it and is answered with a verification token.  Every Redis command is a *)
(* step.  One phone number: nothing relates two.                           *)
(*                                                                         *)
(* Codes are names, new at each call; that six digits can be the same by   *)
(* chance is left out.  The limits on the number of calls are the rate     *)
(* limiter of Login.                                                       *)
(***************************************************************************)
EXTENDS Naturals, FiniteSets

CONSTANTS OtpTasks,              \* tasks that serve verify_otp
          MaxCodes,              \* bound on the codes sent
          MaxTokens,             \* bound on the tokens issued
          MaxOtpErrors           \* bound on the commands that fail

ASSUME OtpAssumption ==
  {MaxCodes, MaxTokens, MaxOtpErrors} \subseteq Nat /\ IsFiniteSet(OtpTasks)

VARIABLES codes,                 \* how many codes were generated
          stored,                \* otp:{phone}, 0 when there is none
          texted,                \* codes whose SMS was sent
          verify,                \* the request of each task and how far it is
          tokens,                \* verification tokens, each with the code it is for
          otpErrors

otpVars == <<codes, stored, texted, verify, tokens, otpErrors>>

NoCode == 0
NoVerify == [at |-> "none"]

OtpInit ==
  /\ codes = 0 /\ stored = NoCode /\ texted = {}
  /\ verify = [t \in OtpTasks |-> NoVerify]
  /\ tokens = {}
  /\ otpErrors = 0

-----------------------------------------------------------------------------
\* send_otp: the code replaces the one before.
SendOtp ==
  /\ codes < MaxCodes
  /\ codes' = codes + 1
  /\ stored' = codes + 1
  /\ UNCHANGED <<texted, verify, tokens, otpErrors>>

\* send_sms_twilio, later than the code was stored, for each code or for none.
TextOtp(c) ==
  /\ c \in (1 .. codes) \ texted
  /\ texted' = texted \cup {c}
  /\ UNCHANGED <<codes, stored, verify, tokens, otpErrors>>

\* verify_otp: the GET, and the comparison with the code submitted.  Any other
\* code is answered with verified = false.
GetOtp(t, c) ==
  /\ verify[t] = NoVerify
  /\ c \in texted /\ stored = c
  /\ verify' = [verify EXCEPT ![t] = [at |-> "del", code |-> c]]
  /\ UNCHANGED <<codes, stored, texted, tokens, otpErrors>>

\* Mutant: the code stays.
DelOtpForgotten(t) ==
  /\ verify[t].at = "del"
  /\ verify' = [verify EXCEPT ![t].at = "token"]
  /\ UNCHANGED <<codes, stored, texted, tokens, otpErrors>>

\* The DEL, of whatever code is stored by now.
DelOtp(t) ==
  /\ verify[t].at = "del"
  /\ stored' = NoCode
  /\ verify' = [verify EXCEPT ![t].at = "token"]
  /\ UNCHANGED <<codes, texted, tokens, otpErrors>>

\* store_verification_token.
StoreToken(t) ==
  /\ verify[t].at = "token"
  /\ Cardinality(tokens) < MaxTokens
  /\ tokens' = tokens \cup {[id |-> Cardinality(tokens) + 1, code |-> verify[t].code]}
  /\ verify' = [verify EXCEPT ![t] = NoVerify]
  /\ UNCHANGED <<codes, stored, texted, otpErrors>>

\* The code's five minutes are over, or it is evicted.
OtpExpires ==
  /\ stored # NoCode
  /\ stored' = NoCode
  /\ UNCHANGED <<codes, texted, verify, tokens, otpErrors>>

\* A command fails.  The DEL may have been carried out all the same.
OtpError(t) ==
  /\ otpErrors < MaxOtpErrors
  /\ verify[t] # NoVerify
  /\ otpErrors' = otpErrors + 1
  /\ verify' = [verify EXCEPT ![t] = NoVerify]
  /\ stored' \in IF verify[t].at = "del" THEN {stored, NoCode} ELSE {stored}
  /\ UNCHANGED <<codes, texted, tokens>>

OtpNext ==
  \/ SendOtp \/ OtpExpires
  \/ \E c \in 1 .. MaxCodes : TextOtp(c)
  \/ \E t \in OtpTasks : \/ \E c \in 1 .. MaxCodes : GetOtp(t, c)
                         \/ DelOtp(t) \/ StoreToken(t) \/ OtpError(t)

OtpSpec == OtpInit /\ [][OtpNext]_otpVars

-----------------------------------------------------------------------------
(* Properties *)

OtpTypeOK ==
  /\ codes \in 0 .. MaxCodes /\ stored \in 0 .. codes /\ texted \subseteq 1 .. codes
  /\ verify \in [OtpTasks -> {NoVerify} \cup [at : {"del", "token"}, code : texted]]
  /\ tokens \subseteq [id : 1 .. MaxTokens, code : texted]
  /\ otpErrors \in 0 .. MaxOtpErrors

\* GET and DEL are two commands, so calls that overlap can all succeed; but only those: a
\* code is worth no more tokens than there are tasks, and none to a call that comes after
\* one of them deleted it.
TokensBounded == \A c \in 1 .. codes :
  Cardinality({k \in tokens : k.code = c}) + Cardinality({t \in OtpTasks :
                                     verify[t] # NoVerify /\ verify[t].code = c})
    <= Cardinality(OtpTasks)

\* otp.rs:34, "Delete OTP after successful verification (one-time use)": a code is worth one
\* token.
OneTimeUse == \A k, l \in tokens : k.code = l.code => k = l
=============================================================================
