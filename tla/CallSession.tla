---------------------------- MODULE CallSession ----------------------------
(***************************************************************************)
(* The record one call keeps on the server and the methods that change it  *)
(* (app/core/models.py).  A method that mutates the object in the code is  *)
(* an operator here from the old record to the new one.                    *)
(*                                                                         *)
(* Data the flow never branches on is left out: phone numbers, the Plivo   *)
(* request id, created_at and the details of events.  What is abstracted:  *)
(*   - updated_at is `idle', the clock ticks since it was last set;        *)
(*   - the audit trail is the set of noted event types it contains;        *)
(*   - the two counters stop at the threshold the handlers compare them    *)
(*     with (always by >=), which no comparison can tell from counting on. *)
(*                                                                         *)
(* Definitions introduced by `Bug:', here and in the other modules, are    *)
(* not part of the model.  Each is a mistake that could be made in the     *)
(* definition below it; PROJECT.json names the property that catches it.   *)
(***************************************************************************)
EXTENDS Integers, FiniteSets

CONSTANTS
    SessionIds,        \* ids new_session_id() may return
    CallUuids,         \* ids Plivo gives to calls
    None,              \* Python's None
    MaxInvalidInputs,  \* settings.max_consecutive_invalid_inputs
    MaxOtpAttempts,    \* settings.otp_max_attempts, 0 for no cap
    TTL                \* settings.call_session_ttl_seconds, in clock ticks

Languages == {"en", "es"}

Stages == {"initiated", "answered", "awaiting_otp", "authenticated",
           "language_menu", "main_menu", "playing_audio",
           "connecting_associate", "completed", "failed"}

TerminalStages == {"completed", "failed"}

\* The event types the properties look for in an audit trail.
NotedEvents == {"session_recreated", "call_ended"}

Session ==
    [call_uuid : CallUuids \cup {None},
     stage : Stages,
     language : Languages \cup {None},
     is_authenticated : BOOLEAN,
     otp_attempts : 0..MaxOtpAttempts,
     consecutive_unrecognized_inputs : 0..MaxInvalidInputs,
     idle : 0..(TTL + 1),
     events : SUBSET NotedEvents]

(***************************************************************************)
(* MaxInvalidInputs >= 1, MaxOtpAttempts >= 0 and a positive time to live  *)
(* are the bounds the settings' validators enforce.                        *)
(***************************************************************************)
ASSUME SessionAssumption ==
    /\ MaxInvalidInputs \in Nat \ {0}
    /\ MaxOtpAttempts \in Nat
    /\ TTL \in Nat \ {0}
    /\ None \notin SessionIds
    /\ None \notin CallUuids
    /\ None \notin Languages
    /\ None \notin Session

\* Bug: a session already attached to a call is trusted.
NewCallSessionTrusted(call_uuid) ==
    [call_uuid |-> call_uuid,
     stage |-> "initiated",
     language |-> None,
     is_authenticated |-> call_uuid # None,
     otp_attempts |-> 0,
     consecutive_unrecognized_inputs |-> 0,
     idle |-> 0,
     events |-> {}]

NewCallSession(call_uuid) ==
    [call_uuid |-> call_uuid,
     stage |-> "initiated",
     language |-> None,
     is_authenticated |-> FALSE,
     otp_attempts |-> 0,
     consecutive_unrecognized_inputs |-> 0,
     idle |-> 0,
     events |-> {}]

\* One more, stopping at the threshold: the bound of both counters.
CountUpTo(n, threshold) == IF n < threshold THEN n + 1 ELSE n

Touch(session) == [session EXCEPT !.idle = 0]

RecordEvent(session, type) ==
    [Touch(session) EXCEPT !.events = @ \cup ({type} \cap NotedEvents)]

AdvanceTo(session, stage) ==
    IF session.stage # stage
    THEN RecordEvent([session EXCEPT !.stage = stage], "stage_changed")
    ELSE Touch(session)

\* Bug: a wrong code leaves the count of unrecognised inputs standing.
RegisterFailedOtpAttemptKeepingCount(session) ==
    RecordEvent([session EXCEPT !.otp_attempts = CountUpTo(@, MaxOtpAttempts)], "otp_rejected")

RegisterFailedOtpAttempt(session) ==
    RecordEvent([session EXCEPT !.otp_attempts = CountUpTo(@, MaxOtpAttempts),
                                !.consecutive_unrecognized_inputs = 0],
                "otp_rejected")

RegisterSuccessfulOtp(session) ==
    RecordEvent([session EXCEPT !.is_authenticated = TRUE,
                                !.consecutive_unrecognized_inputs = 0],
                "otp_accepted")

\* Bug: silence forgives the wrong codes before it.
RegisterNoInputForgiving(session) ==
    RecordEvent([session EXCEPT !.otp_attempts = 0,
                                !.consecutive_unrecognized_inputs =
                                    CountUpTo(@, MaxInvalidInputs)],
                "no_input")

RegisterNoInput(session) ==
    RecordEvent([session EXCEPT !.consecutive_unrecognized_inputs =
                                    CountUpTo(@, MaxInvalidInputs)],
                "no_input")

\* Bug: stray keys are noted and not counted.
RegisterInvalidSelectionUncounted(session) == RecordEvent(session, "invalid_selection")

RegisterInvalidSelection(session) ==
    RecordEvent([session EXCEPT !.consecutive_unrecognized_inputs =
                                    CountUpTo(@, MaxInvalidInputs)],
                "invalid_selection")

\* Bug: a recognised key does not clear the count.
ResetUnrecognizedInputsMissing(session) == session

ResetUnrecognizedInputs(session) ==
    [session EXCEPT !.consecutive_unrecognized_inputs = 0]

SelectLanguage(session, language) ==
    RecordEvent(ResetUnrecognizedInputs([session EXCEPT !.language = language]),
                "language_selected")

\* Bug: an unknown digit falls through unchanged.
FromMenuDigitUnchecked(digit) ==
    CASE digit = "1" -> "en"
      [] digit = "2" -> "es"
      [] OTHER -> digit

\* The level-1 keypad: the language a digit stands for, if any.
FromMenuDigit(digit) ==
    CASE digit = "1" -> "en"
      [] digit = "2" -> "es"
      [] OTHER -> None
=============================================================================
