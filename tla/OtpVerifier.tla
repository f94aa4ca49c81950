----------------------------- MODULE OtpVerifier -----------------------------
(***************************************************************************)
(* The access code, character by character: what the settings make of      *)
(* OTP_CODE (app/core/config.py), what a webhook makes of its Digits       *)
(* (app/routers/webhook_context.py) and what the verifier makes of both    *)
(* (app/services/otp_verifier.py).  CallFlow keeps four kinds of entry of  *)
(* all this: the code, the code with its terminator, a wrong entry and a   *)
(* lone terminator.                                                        *)
(***************************************************************************)
EXTENDS Texts

TerminatorKeys == {"#", "*"}

\* Bug: the code is taken as it stands in the environment.
ConfiguredCodeRaw(otp_code) == otp_code

\* _otp_must_be_digits: what the validator returns.
ConfiguredCode(otp_code) == Strip(otp_code, Spaces)

\* The settings load: _otp_must_be_digits and _check_otp_length_matches.
SettingsAccept(otp_code, otp_length) ==
    /\ IsDigit(Strip(otp_code, Spaces))
    /\ Len(ConfiguredCode(otp_code)) = otp_length

\* PlivoWebhook.digits
WebhookDigits(digits) == Strip(digits, Spaces)

\* Bug: terminator keys are dropped wherever they are.
NormalizeDtmfInputAnywhere(raw_digits) ==
    SelectSeq(raw_digits, LAMBDA c : c \notin TerminatorKeys \cup Spaces)

NormalizeDtmfInput(raw_digits) ==
    Strip(Strip(Strip(raw_digits, Spaces), TerminatorKeys), Spaces)

\* The verifier is built with the settings' code and length.
IsCorrect(expected_code, code_length, raw_digits) ==
    LET entered_code == NormalizeDtmfInput(raw_digits)
    IN  /\ Len(entered_code) = code_length
        /\ IsDigit(entered_code)
        /\ entered_code = Strip(expected_code, Spaces)
=============================================================================
