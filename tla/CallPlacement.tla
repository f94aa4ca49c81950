---------------------------- MODULE CallPlacement ----------------------------
(***************************************************************************)
(* Placing, transferring and ending one call, with every way in which a    *)
(* number, a setting or Plivo's API may fail: app/routers/calls.py over    *)
(* app/services/plivo_call_service.py, the numbers in app/core/config.py,  *)
(* the last resort in app/main.py, and what the handlers of                *)
(* app/routers/ivr.py do to a call's stage while its line is up or when it *)
(* drops.  Webhooks handled late and lost sessions are CallFlow's.         *)
(*                                                                         *)
(* CallFlow knows of a placement whether Plivo queued it.  Here it is what *)
(* the client is told (the HTTP status) against what was done: whether a   *)
(* session was left, in which stage, and whether a phone rings.  A number  *)
(* is reduced to its value and how it is spelled; PhoneNumbers has the     *)
(* spellings themselves.                                                   *)
(***************************************************************************)
CONSTANTS
    None,        \* Python's None, or a blank field
    Numbers,     \* numbers there are, in E.164
    ApiErrors    \* which of the failures of Plivo's API may happen

ApiFailures == {"authentication", "invalid", "not_found", "other",
                "no_uuid",        \* queued, but the reply has no request UUID
                "unreachable"}    \* no reply: not one of the SDK's own errors

\* Something typed into a field; garbage has no number.
Entry == [number : Numbers \cup {None}, spelling : {"e164", "national"}]

\* Stage "answered" stands for all the stages of the prompts and menus.
Session == [stage : {"initiated", "answered", "connecting_associate", "completed", "failed"},
            call_uuid : BOOLEAN,
            failure_noted : BOOLEAN,      \* "call_request_failed" is in the trail
            ended_by_operator : BOOLEAN]  \* "call_ended_by_operator" is

\* What the API answers its client.
StatusCodes == {201, 204, 400, 404, 409, 422, 500, 502}

ASSUME PlacementAssumption ==
    /\ ApiErrors \subseteq ApiFailures
    /\ None \notin Numbers \cup Entry \cup Session \cup StatusCodes

VARIABLES
    settings,   \* what the service was started with
    session,    \* the call's session, None when there is none
    line,       \* the call
    status,     \* the API's last answer to its client, None before the first
    dialled,    \* the number place_call gave to Plivo, None before
    bridged     \* the number of the last <Dial> in a document, None before

vars == <<settings, session, line, status, dialled, bridged>>

\* The settings are read and kept as they are: no validator looks at a number.
Init ==
    /\ settings \in [plivo_caller_number : Entry,
                     live_associate_number : Entry,
                     default_destination_number : Entry \cup {None}]
    /\ session = None
    /\ line = "idle"
    /\ status = None
    /\ dialled = None
    /\ bridged = None

\* Bug: a number is used as it was typed.
NormalizeNothing(entry) == entry

\* normalize_phone_number: None where it raises.
Normalize(entry) == entry.number

CallerNumberE164 == Normalize(settings.plivo_caller_number)
AssociateNumberE164 == Normalize(settings.live_associate_number)

-----------------------------------------------------------------------------
(* POST /api/calls *)

NewSession == [stage |-> "initiated", call_uuid |-> FALSE,
               failure_noted |-> FALSE, ended_by_operator |-> FALSE]

\* Bug: the failure is reported but not recorded.
FailedSessionUnmarked == NewSession

FailedSession == [NewSession EXCEPT !.stage = "failed", !.failure_noted = TRUE]

Answers(code) == status' = code /\ UNCHANGED <<settings, bridged>>

\* Refused before there is a session.
RefusedAtOnce(code) == Answers(code) /\ UNCHANGED <<session, line, dialled>>

Destination(to_number) ==
    IF to_number # None THEN to_number ELSE settings.default_destination_number

\* Bug: numbers are compared as they were typed.
CallsItselfUnnormalized(destination) == destination = settings.plivo_caller_number

\* Compared after both are normalised.
CallsItself(destination) == Normalize(destination) = CallerNumberE164

\* The status of each OutboundCallError.
StatusOf(failure) ==
    CASE failure \in {"authentication", "other", "no_uuid"} -> 502
      [] failure \in {"invalid", "not_found"} -> 400

PlivoRefuses(destination) ==
    \E failure \in ApiErrors \ {"unreachable"} :
        /\ session' = FailedSession
        /\ line' = IF failure = "no_uuid" THEN "ringing" ELSE line
        /\ dialled' = Normalize(destination)
        /\ Answers(StatusOf(failure))

\* The handler does not expect it: the session stays as created, the client
\* gets the application's 500, and the phone may ring all the same.
PlivoUnreachable(destination) ==
    /\ "unreachable" \in ApiErrors
    /\ session' = NewSession
    /\ line' \in {line, "ringing"}
    /\ dialled' = Normalize(destination)
    /\ Answers(500)

PlivoQueues(destination) ==
    /\ session' = NewSession
    /\ line' = "ringing"
    /\ dialled' = Normalize(destination)
    /\ Answers(201)

Dial(destination) ==
    \/ /\ CallsItself(destination)
       /\ session' = FailedSession
       /\ Answers(422)
       /\ UNCHANGED <<line, dialled>>
    \/ /\ ~CallsItself(destination)
       /\ \/ PlivoRefuses(destination)
          \/ PlivoUnreachable(destination)
          \/ PlivoQueues(destination)

PlaceOutboundCall ==
    /\ session = None
    /\ \E to_number \in Entry \cup {None} :
          LET destination == Destination(to_number)
          IN  \/ destination = None /\ RefusedAtOnce(422)
              \/ destination # None /\ Normalize(destination) = None /\ RefusedAtOnce(422)
              \/ /\ destination # None
                 /\ Normalize(destination) # None
                 /\ \/ CallerNumberE164 = None /\ RefusedAtOnce(500)
                    \/ CallerNumberE164 # None /\ Dial(destination)

-----------------------------------------------------------------------------
(* The call and its webhooks *)

\* What a webhook leaves to the API.
WebhookOnly == UNCHANGED <<settings, status, dialled>>

Answered ==
    /\ line = "ringing"
    /\ line' = "up"
    /\ session' = [session EXCEPT !.stage = "answered", !.call_uuid = TRUE]
    /\ WebhookOnly
    /\ UNCHANGED bridged

\* The hangup event closes the session unless it is closed; it may get lost.
HandleHangupEvent(s) ==
    [s EXCEPT !.call_uuid = TRUE,
              !.stage = IF s.stage = "failed" THEN "failed" ELSE "completed"]

\* Plivo got no answer to the answer webhook, whether or not it was handled.
Fallback ==
    /\ line = "ringing"
    /\ line' = "up"
    /\ \E attached \in {session.call_uuid, TRUE} :
          session' = [session EXCEPT !.stage = "failed", !.call_uuid = attached]
    /\ WebhookOnly
    /\ UNCHANGED bridged

\* A prompt or menu gives up, for silence, stray keys or wrong codes: the
\* session is closed and the goodbye spoken; the line is up until it drops.
GivesUp ==
    /\ line = "up"
    /\ session.stage = "answered"
    /\ \E stage \in {"completed", "failed"} : session' = [session EXCEPT !.stage = stage]
    /\ WebhookOnly
    /\ UNCHANGED <<line, bridged>>

\* The caller asks for the associate: the stage is set, then the document is
\* built, and with it the associate's number is looked at for the first time:
\* when it is none the answer is a 500 and Plivo drops the call.
Transfer ==
    /\ line = "up"
    /\ session.stage = "answered"
    /\ LET connecting == [session EXCEPT !.stage = "connecting_associate"]
       IN  \/ /\ AssociateNumberE164 # None
              /\ session' = connecting
              /\ bridged' = AssociateNumberE164
              /\ UNCHANGED line
           \/ /\ AssociateNumberE164 = None
              /\ session' \in {connecting, HandleHangupEvent(connecting)}
              /\ line' = "down"
              /\ UNCHANGED bridged
    /\ WebhookOnly

\* The associate's leg is over.  After a "completed" one the goodbye is spoken
\* on a closed session; after any other the caller is sent back to the menu.
HandleAssociateDialStatus ==
    /\ line = "up"
    /\ session.stage = "connecting_associate"
    /\ \E stage \in {"completed", "answered"} : session' = [session EXCEPT !.stage = stage]
    /\ WebhookOnly
    /\ UNCHANGED <<line, bridged>>

LineDrops ==
    /\ line \in {"ringing", "up"}
    /\ line' = "down"
    /\ session' \in {session, HandleHangupEvent(session)}
    /\ WebhookOnly
    /\ UNCHANGED bridged

-----------------------------------------------------------------------------
(* DELETE /api/calls/{session_id} *)

\* Bug: the session is closed before Plivo is asked.
EndCallRejectedClosed(code) ==
    /\ Answers(code)
    /\ session' = IF session = None THEN None
                  ELSE [session EXCEPT !.stage = "completed", !.ended_by_operator = TRUE]
    /\ UNCHANGED <<line, dialled>>

EndCallRejected(code) == Answers(code) /\ UNCHANGED <<session, line, dialled>>

EndCallFails ==
    \/ line = "down" /\ EndCallRejected(404)   \* "no longer active"
    \/ ApiErrors \cap {"authentication", "invalid", "other"} # {} /\ EndCallRejected(502)
    \/ /\ "unreachable" \in ApiErrors
       /\ line' \in {line, "down"}
       /\ Answers(500)
       /\ UNCHANGED <<session, dialled>>

EndCallSucceeds ==
    /\ line = "up"
    /\ line' = "down"
    /\ session' = [session EXCEPT !.stage = "completed", !.ended_by_operator = TRUE]
    /\ Answers(204)
    /\ UNCHANGED dialled

EndCall ==
    \/ session = None /\ EndCallRejected(404)
    \/ session # None /\ ~session.call_uuid /\ EndCallRejected(409)
    \/ session # None /\ session.call_uuid /\ (EndCallFails \/ EndCallSucceeds)

-----------------------------------------------------------------------------
Next ==
    \/ PlaceOutboundCall
    \/ Answered
    \/ Fallback
    \/ GivesUp
    \/ Transfer
    \/ HandleAssociateDialStatus
    \/ LineDrops
    \/ EndCall

Spec == Init /\ [][Next]_vars

-----------------------------------------------------------------------------
(***************************************************************************)
(* Every variable has a value of its kind; in particular only numbers in   *)
(* E.164 form are ever given to Plivo, however they were typed.            *)
(***************************************************************************)
TypeOK ==
    /\ settings \in [plivo_caller_number : Entry,
                      live_associate_number : Entry,
                      default_destination_number : Entry \cup {None}]
    /\ session \in Session \cup {None}
    /\ line \in {"idle", "ringing", "up", "down"}
    /\ status \in StatusCodes \cup {None}
    /\ dialled \in Numbers \cup {None}
    /\ bridged \in Numbers \cup {None}

(***************************************************************************)
(* place_call never has Plivo ring its own caller id, in whatever way the  *)
(* destination, the default and the caller's number are spelled, whatever  *)
(* Plivo replies and whatever becomes of the session: both sides of the    *)
(* comparison are normalised.  The number of a transfer is not compared.   *)
(***************************************************************************)
NeverDialsItself == dialled # None => dialled # CallerNumberE164

(***************************************************************************)
(* What a refused placement leaves behind: its session is failed and says  *)
(* so, whichever check or reply of Plivo refused it, and when it was the   *)
(* request that was wrong (4xx) no phone rings.                            *)
(***************************************************************************)
Placing == session = None /\ session' # None

RefusalOnRecord ==
    [][Placing /\ status' \notin {201, 500}
         => /\ session'.stage = "failed" /\ session'.failure_noted
            /\ status' # 502 => line' = "idle"]_vars

(***************************************************************************)
(* An operator's hangup is confirmed before it is told: once end_call      *)
(* answered 204, or the trail says that an operator ended the call, the    *)
(* line is down.  It does not hold of the stage: a session is completed by *)
(* a goodbye or a finished transfer while the line is still up.            *)
(***************************************************************************)
HangupConfirmed ==
    status = 204 \/ (session # None /\ session.ended_by_operator) => line = "down"
=============================================================================
