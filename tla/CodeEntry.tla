----------------------------- MODULE CodeEntry -----------------------------
(***************************************************************************)
(* What is accepted as the access code, of whatever is keyed in or         *)
(* configured.                                                             *)
(***************************************************************************)
EXTENDS OtpVerifier, Typing

CONSTANT Code   \* the access code

ASSUME CodeAssumption == Code \in Seq(Digits) /\ Code # <<>>

\* Blanks, terminator keys, blanks: what may surround a code.
Padding(s) ==
    \E i, j \in 0..Len(s) :
        /\ i <= j
        /\ ToSet(SubSeq(s, 1, i)) \subseteq Spaces
        /\ ToSet(SubSeq(s, i + 1, j)) \subseteq TerminatorKeys
        /\ ToSet(SubSeq(s, j + 1, Len(s))) \subseteq Spaces

(***************************************************************************)
(* An entry is accepted if and only if it is the code, the whole code and  *)
(* nothing but the code, between terminator keys and blanks.               *)
(***************************************************************************)
AcceptsExactly ==
    IsCorrect(Code, Len(Code), WebhookDigits(typed)) <=>
        \E i, j \in 1..Len(typed) :
            /\ SubSeq(typed, i, j) = Code
            /\ Padding(SubSeq(typed, 1, i - 1))
            /\ Padding(SubSeq(typed, j + 1, Len(typed)))

(***************************************************************************)
(* Every code the service starts with can be entered: whoever keys in the  *)
(* digits of OTP_CODE, with or without the terminator, is let in.          *)
(***************************************************************************)
OwnCodeAccepted ==
    \A otp_length \in 0..MaxTyped :
        SettingsAccept(typed, otp_length) =>
            \A terminator \in {<<>>, <<"#">>} :
                IsCorrect(ConfiguredCode(typed), otp_length,
                          Kept(typed, Digits) \o terminator)
=============================================================================
