------------------------------- MODULE IvrXml -------------------------------
(***************************************************************************)
(* What the server answers a webhook with: the Plivo XML documents of      *)
(* app/ivr/xml_builder.py and the callback URLs they carry                 *)
(* (app/ivr/callback_urls.py, app/ivr/routes.py).                          *)
(*                                                                         *)
(* A document keeps what decides the rest of the call: what is said, in    *)
(* which language, where digits are posted (<GetDigits action>), where the *)
(* outcome of a transfer is posted (<Dial action>), where the call         *)
(* continues when nothing else consumed it (<Redirect>), and <Hangup/>.    *)
(* Wording, voices, pauses and timeouts are left out, and so is the prompt *)
(* reason of the document just spoken, which only picks the wording; the   *)
(* reason in a URL is kept, because handlers branch on it.                 *)
(***************************************************************************)
EXTENDS CallSession

Routes == {"ANSWER", "OTP_PROMPT", "OTP_VERIFY", "LANGUAGE_MENU",
           "LANGUAGE_SELECT", "MAIN_MENU", "MAIN_MENU_SELECT",
           "ASSOCIATE_DIAL_STATUS", "HANGUP_EVENT", "FALLBACK"}

Url == [route : Routes,
        session_id : SessionIds,
        lang : Languages \cup {None},
        reason : {"no_input", None}]

\* A parameter that is None is left out of the query string.
CallbackUrl(route, session_id, lang, reason) ==
    [route |-> route, session_id |-> session_id, lang |-> lang, reason |-> reason]

\* What a handler reads back from a URL without a reason.
ParseReason(reason) == IF reason = None THEN "first_attempt" ELSE reason

Speeches == {"otp_prompt", "otp_accepted", "language_menu", "main_menu",
             "audio", "connecting", "unavailable", "goodbye",
             "exhausted", "technical", "nothing"}

Document == [says : Speeches,
             language : Languages \cup {None},
             get_digits : Url \cup {None},
             dial : Url \cup {None},
             redirect : Url \cup {None},
             hangup : BOOLEAN]

ASSUME DocumentAssumption ==
    /\ None # "no_input"
    /\ None \notin Url
    /\ None \notin Document

\* Speaks, and falls through whatever is added to it.
Speak(says, language) ==
    [says |-> says, language |-> language, get_digits |-> None,
     dial |-> None, redirect |-> None, hangup |-> FALSE]

BuildOtpPrompt(session_id) ==
    [Speak("otp_prompt", None) EXCEPT
        !.get_digits = CallbackUrl("OTP_VERIFY", session_id, None, None),
        !.redirect = CallbackUrl("OTP_PROMPT", session_id, None, "no_input")]

BuildOtpAccepted(session_id) ==
    [Speak("otp_accepted", None) EXCEPT
        !.redirect = CallbackUrl("LANGUAGE_MENU", session_id, None, None)]

BuildLanguageMenu(session_id) ==
    [Speak("language_menu", None) EXCEPT
        !.get_digits = CallbackUrl("LANGUAGE_SELECT", session_id, None, None),
        !.redirect = CallbackUrl("LANGUAGE_MENU", session_id, None, "no_input")]

BuildMainMenu(session_id, language) ==
    [Speak("main_menu", language) EXCEPT
        !.get_digits = CallbackUrl("MAIN_MENU_SELECT", session_id, language, None),
        !.redirect = CallbackUrl("MAIN_MENU", session_id, language, "no_input")]

BuildPlayAudioMessage(session_id, language) ==
    [Speak("audio", language) EXCEPT
        !.redirect = CallbackUrl("MAIN_MENU", session_id, language, None)]

BuildConnectToAssociate(session_id, language) ==
    [Speak("connecting", language) EXCEPT
        !.dial = CallbackUrl("ASSOCIATE_DIAL_STATUS", session_id, language, None)]

\* Bug: after a failed transfer the caller starts over at the access code.
BuildAssociateUnavailableStartsOver(session_id, language) ==
    [Speak("unavailable", language) EXCEPT
        !.redirect = CallbackUrl("OTP_PROMPT", session_id, None, None)]

BuildAssociateUnavailable(session_id, language) ==
    [Speak("unavailable", language) EXCEPT
        !.redirect = CallbackUrl("MAIN_MENU", session_id, language, None)]

BuildGoodbye(language) == [Speak("goodbye", language) EXCEPT !.hangup = TRUE]

BuildTerminatingMessage(message) == [Speak(message, None) EXCEPT !.hangup = TRUE]

BuildEmptyResponse == Speak("nothing", None)
=============================================================================
