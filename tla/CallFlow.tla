------------------------------ MODULE CallFlow ------------------------------
(***************************************************************************)
(* The whole call flow: the webhook handlers of app/routers/ivr.py and the *)
(* call API of app/routers/calls.py working on the session store, composed *)
(* with the Plivo platform and the people on the line.                     *)
(*                                                                         *)
(* Grain.  Every handler is an `async def' that awaits nothing once the    *)
(* form is read, on one event loop, and the Plivo client it may call       *)
(* blocks that loop.  A handler is therefore one step, from _resolve_      *)
(* session to the last save.  What is concurrent is everything around it:  *)
(* webhooks of one call and of several reach the handlers in any order,    *)
(* late, or never; the operator's requests come in between; the process    *)
(* may restart and forget every session; the clock may run out on one.     *)
(*                                                                         *)
(* Plivo and the caller are external: their actions are what the documents *)
(* and the callback URLs of the code ask of them.                          *)
(***************************************************************************)
EXTENDS SessionStore, IvrXml

CONSTANTS
    Faults,     \* which of FaultKinds may happen
    MaxFaults   \* bound: restarts, losses and timeouts in one behaviour

FaultKinds == {"restart",   \* the process restarts, its sessions are gone
               "expiry",    \* the clock runs, sessions may outlive the TTL
               "loss",      \* a webhook never reaches the server
               "timeout",   \* Plivo stops waiting for a late answer
               "reply"}     \* the Plivo API's own reply is lost or odd

VARIABLES
    store,      \* the server's session store
    calls,      \* Plivo's side of every call, and the caller's
    inflight,   \* webhooks sent and not yet handled
    verified,   \* observer: calls whose caller entered the access code since
                \* the server last lost the call's session
    faults      \* how much of the budget of faults is spent

vars == <<store, calls, inflight, verified, faults>>

OtpEntries == {"code", "code#", "wrong", "#"}   \* "#": the terminator key alone
MenuKeys == {"1", "2", "9"}                     \* "9": any key off the menu
DialStatuses == {"completed", "unanswered"}     \* busy, no-answer, failed, cancel

Webhook == [url : Url,
            call_uuid : CallUuids,
            digits : OtpEntries \cup MenuKeys \cup {""},
            dial_status : DialStatuses \cup {""}]

(***************************************************************************)
(* A call as Plivo and its two ends know it.  `doc' is the document being  *)
(* played and `awaiting' the webhook whose answer will be played next.     *)
(* The last four fields are the caller's: a handset put down without       *)
(* hanging up, how many prompts in a row got no recognised input, how many *)
(* wrong codes were entered, and the language chosen.                      *)
(***************************************************************************)
Call == [status : {"unplaced", "ringing", "live", "ended"},
         session_id : SessionIds \cup {None},
         doc : Document \cup {None},
         awaiting : Webhook \cup {None},
         forgotten : BOOLEAN,
         streak : 0..MaxInvalidInputs,
         wrongs : 0..MaxOtpAttempts,
         chosen : Languages \cup {None}]

ASSUME FlowAssumption ==
    /\ Faults \subseteq FaultKinds
    /\ MaxFaults \in Nat
    /\ None \notin Webhook

NoCall == [status |-> "unplaced", session_id |-> None, doc |-> None,
           awaiting |-> None, forgotten |-> FALSE, streak |-> 0,
           wrongs |-> 0, chosen |-> None]

Init ==
    /\ store = EmptyStore
    /\ calls = [u \in CallUuids |-> NoCall]
    /\ inflight = {}
    /\ verified = {}
    /\ faults = 0

-----------------------------------------------------------------------------
(* Webhook handlers *)

\* Bug: a lost session is recreated under an id nobody knows.
RecreatedIdsMinted(w) == SessionIds \ Stored(store)

RecreatedIds(w) == {w.url.session_id}

(***************************************************************************)
(* _resolve_session: by the session id in the URL, else by Plivo's call    *)
(* id, else a new unauthenticated session under the id in the URL.  The    *)
(* lookups evict what has expired.  The result is a set because creating   *)
(* may have to choose what to evict.                                       *)
(***************************************************************************)
Resolve(w) ==
    LET st == EvictExpired(store)
        s == w.url.session_id
        by_call == GetByCallUuid(st, w.call_uuid)
        Found(id) == [store |-> st, session_id |-> id,
                      session |-> st.sessions[id], found |-> TRUE]
        recreated == RecordEvent(NewCallSession(w.call_uuid), "session_recreated")
    IN  IF s \in Stored(st) THEN {Found(s)}
        ELSE IF by_call # None THEN {Found(by_call)}
        ELSE UNION {{[store |-> room, session_id |-> id,
                      session |-> recreated, found |-> FALSE] :
                         room \in Create(st, id, recreated)} : id \in RecreatedIds(w)}

\* Bug: Plivo's call id is not kept.
AttachPlivoIdentifiersMissing(session, w) == session

AttachPlivoIdentifiers(session, w) == [session EXCEPT !.call_uuid = w.call_uuid]

\* Bug: the language threaded through the URL is ignored.
LanguageForSession(session, w) == IF session.language # None THEN session.language ELSE "en"

\* The URL's language first, then the session's, then English.
LanguageFor(session, w) ==
    IF w.url.lang # None THEN w.url.lang
    ELSE IF session.language # None THEN session.language
    ELSE "en"

\* What the verifier reduces raw DTMF to: terminator keys are stripped.
NormalizeDtmfInput(digits) ==
    CASE digits = "#" -> ""
      [] digits = "code#" -> "code"
      [] OTHER -> digits

\* Bug: any entry will do.
IsCorrectUncompared(digits) == NormalizeDtmfInput(digits) # ""

IsCorrect(digits) == NormalizeDtmfInput(digits) = "code"

\* The calls that keep their verified caller when the store becomes st.
StillVerified(st) ==
    {u \in verified : calls[u].session_id \in Stored(st)}

\* Observer: this webhook carries the right code, as the caller keyed it.
CodeEntered(w) == w.url.route = "OTP_VERIFY" /\ w.digits \in {"code", "code#"}

(***************************************************************************)
(* The end of every handler: the session is saved and the document         *)
(* returned.  Plivo plays it if the call still waits for this answer and   *)
(* drops it otherwise.                                                     *)
(***************************************************************************)
Respond(w, r, session, doc) ==
    LET u == w.call_uuid
        saved == Save(r.store, r.session_id, session)
    IN  /\ store' = saved
        /\ inflight' = inflight \ {w}
        /\ calls' = IF calls[u].awaiting = w
                    THEN [calls EXCEPT ![u].doc = doc, ![u].awaiting = None]
                    ELSE calls
        /\ verified' = (StillVerified(saved) \ (IF r.found THEN {} ELSE {u}))
                       \cup (IF CodeEntered(w) THEN {u} ELSE {})
        /\ UNCHANGED faults

Pending(u, route) == {w \in inflight : w.call_uuid = u /\ w.url.route = route}

\* Bug: the redirect after silence counts nothing.
CountSilenceMissing(session, w) == session

\* A prompt reached by the redirect after silence counts it.
CountSilence(session, w) ==
    IF ParseReason(w.url.reason) = "no_input" THEN RegisterNoInput(session) ELSE session

OutOfPatience(session) ==
    session.consecutive_unrecognized_inputs >= MaxInvalidInputs

RepeatedSilence(session, w) ==
    ParseReason(w.url.reason) = "no_input" /\ OutOfPatience(session)

\* Bug: the caller is asked for the code at the stage he was left in.
RedirectToAuthenticationUnstaged(w, r) ==
    Respond(w, r, RecordEvent(r.session, "authentication_required"),
            BuildOtpPrompt(r.session_id))

RedirectToAuthentication(w, r) ==
    Respond(w, r,
            AdvanceTo(RecordEvent(r.session, "authentication_required"), "awaiting_otp"),
            BuildOtpPrompt(r.session_id))

HandleCallAnswered(u) ==
    \E w \in Pending(u, "ANSWER") : \E r \in Resolve(w) :
        LET answered == AdvanceTo(AttachPlivoIdentifiers(r.session, w), "answered")
        IN  Respond(w, r,
                    AdvanceTo(RecordEvent(answered, "call_answered"), "awaiting_otp"),
                    BuildOtpPrompt(r.session_id))

PromptForOtp(u) ==
    \E w \in Pending(u, "OTP_PROMPT") : \E r \in Resolve(w) :
        LET session == CountSilence(r.session, w)
        IN  \/ /\ RepeatedSilence(session, w)
               /\ Respond(w, r, AdvanceTo(session, "failed"), BuildGoodbye(None))
            \/ /\ ~RepeatedSilence(session, w)
               /\ Respond(w, r, AdvanceTo(session, "awaiting_otp"),
                          BuildOtpPrompt(r.session_id))

\* Bug: one wrong code too many.
AttemptsExhaustedLate(session) ==
    MaxOtpAttempts # 0 /\ session.otp_attempts > MaxOtpAttempts

\* OTP_MAX_ATTEMPTS of 0 asks again for ever.
AttemptsExhausted(session) ==
    MaxOtpAttempts # 0 /\ session.otp_attempts >= MaxOtpAttempts

VerifyNothingEntered(w, r) ==
    LET session == RegisterNoInput(r.session)
    IN  /\ NormalizeDtmfInput(w.digits) = ""
        /\ \/ /\ OutOfPatience(session)
              /\ Respond(w, r, AdvanceTo(session, "failed"), BuildGoodbye(None))
           \/ /\ ~OutOfPatience(session)
              /\ Respond(w, r, session, BuildOtpPrompt(r.session_id))

VerifyAccepted(w, r) ==
    /\ IsCorrect(w.digits)
    /\ Respond(w, r, AdvanceTo(RegisterSuccessfulOtp(r.session), "authenticated"),
               BuildOtpAccepted(r.session_id))

VerifyRejected(w, r) ==
    LET session == RegisterFailedOtpAttempt(r.session)
    IN  /\ NormalizeDtmfInput(w.digits) # ""
        /\ ~IsCorrect(w.digits)
        /\ \/ /\ AttemptsExhausted(session)
              /\ Respond(w, r, AdvanceTo(session, "failed"),
                         BuildTerminatingMessage("exhausted"))
           \/ /\ ~AttemptsExhausted(session)
              /\ Respond(w, r, session, BuildOtpPrompt(r.session_id))

VerifyOtp(u) ==
    \E w \in Pending(u, "OTP_VERIFY") : \E r \in Resolve(w) :
        \/ VerifyNothingEntered(w, r)
        \/ VerifyAccepted(w, r)
        \/ VerifyRejected(w, r)

PresentLanguageMenu(u) ==
    \E w \in Pending(u, "LANGUAGE_MENU") : \E r \in Resolve(w) :
        LET session == CountSilence(r.session, w)
        IN  \/ /\ ~r.session.is_authenticated
               /\ RedirectToAuthentication(w, r)
            \/ /\ r.session.is_authenticated
               /\ RepeatedSilence(session, w)
               /\ Respond(w, r, AdvanceTo(session, "completed"), BuildGoodbye(None))
            \/ /\ r.session.is_authenticated
               /\ ~RepeatedSilence(session, w)
               /\ Respond(w, r, AdvanceTo(session, "language_menu"),
                          BuildLanguageMenu(r.session_id))

RepeatLanguageMenu(w, r) ==
    LET session == RegisterInvalidSelection(r.session)
    IN  \/ /\ OutOfPatience(session)
           /\ Respond(w, r, AdvanceTo(session, "completed"), BuildGoodbye(None))
        \/ /\ ~OutOfPatience(session)
           /\ Respond(w, r, session, BuildLanguageMenu(r.session_id))

HandleLanguageSelection(u) ==
    \E w \in Pending(u, "LANGUAGE_SELECT") : \E r \in Resolve(w) :
        LET language == FromMenuDigit(w.digits)
        IN  \/ /\ ~r.session.is_authenticated
               /\ RedirectToAuthentication(w, r)
            \/ /\ r.session.is_authenticated
               /\ language = None
               /\ RepeatLanguageMenu(w, r)
            \/ /\ r.session.is_authenticated
               /\ language # None
               /\ Respond(w, r, AdvanceTo(SelectLanguage(r.session, language), "main_menu"),
                          BuildMainMenu(r.session_id, language))

PresentMainMenu(u) ==
    \E w \in Pending(u, "MAIN_MENU") : \E r \in Resolve(w) :
        LET language == LanguageFor(r.session, w)
            spoken == IF r.session.language = None
                      THEN [r.session EXCEPT !.language = language] ELSE r.session
            session == CountSilence(spoken, w)
        IN  \/ /\ ~r.session.is_authenticated
               /\ RedirectToAuthentication(w, r)
            \/ /\ r.session.is_authenticated
               /\ RepeatedSilence(session, w)
               /\ Respond(w, r, AdvanceTo(session, "completed"), BuildGoodbye(language))
            \/ /\ r.session.is_authenticated
               /\ ~RepeatedSilence(session, w)
               /\ Respond(w, r, AdvanceTo(session, "main_menu"),
                          BuildMainMenu(r.session_id, language))

PlayAudio(w, r) ==
    Respond(w, r,
            RecordEvent(AdvanceTo(ResetUnrecognizedInputs(r.session), "playing_audio"),
                        "audio_message_started"),
            BuildPlayAudioMessage(r.session_id, LanguageFor(r.session, w)))

\* Bug: the transfer leaves the stage behind.
ConnectAssociateUnstaged(w, r) ==
    Respond(w, r,
            RecordEvent(ResetUnrecognizedInputs(r.session), "associate_transfer_started"),
            BuildConnectToAssociate(r.session_id, LanguageFor(r.session, w)))

ConnectAssociate(w, r) ==
    Respond(w, r,
            RecordEvent(AdvanceTo(ResetUnrecognizedInputs(r.session), "connecting_associate"),
                        "associate_transfer_started"),
            BuildConnectToAssociate(r.session_id, LanguageFor(r.session, w)))

RepeatMainMenu(w, r) ==
    LET session == RegisterInvalidSelection(r.session)
        language == LanguageFor(r.session, w)
    IN  \/ /\ OutOfPatience(session)
           /\ Respond(w, r, AdvanceTo(session, "completed"), BuildGoodbye(language))
        \/ /\ ~OutOfPatience(session)
           /\ Respond(w, r, session, BuildMainMenu(r.session_id, language))

HandleMainMenuSelection(u) ==
    \E w \in Pending(u, "MAIN_MENU_SELECT") : \E r \in Resolve(w) :
        \/ /\ ~r.session.is_authenticated
           /\ RedirectToAuthentication(w, r)
        \/ /\ r.session.is_authenticated
           /\ w.digits = "1"
           /\ PlayAudio(w, r)
        \/ /\ r.session.is_authenticated
           /\ w.digits = "2"
           /\ ConnectAssociate(w, r)
        \/ /\ r.session.is_authenticated
           /\ w.digits \notin {"1", "2"}
           /\ RepeatMainMenu(w, r)

\* The one flow endpoint past the access code that does not check for it.
HandleAssociateDialStatus(u) ==
    \E w \in Pending(u, "ASSOCIATE_DIAL_STATUS") : \E r \in Resolve(w) :
        LET session == RecordEvent(r.session, "associate_dial_finished")
            language == LanguageFor(r.session, w)
        IN  \/ /\ w.dial_status = "completed"
               /\ Respond(w, r, AdvanceTo(session, "completed"), BuildGoodbye(language))
            \/ /\ w.dial_status # "completed"
               /\ Respond(w, r, session, BuildAssociateUnavailable(r.session_id, language))

\* Bug: a call already closed is not looked at again.
HandleHangupEventOnce(u) ==
    \E w \in Pending(u, "HANGUP_EVENT") : \E r \in Resolve(w) :
        Respond(w, r,
                IF r.session.stage \in TerminalStages THEN r.session
                ELSE AdvanceTo(RecordEvent(AttachPlivoIdentifiers(r.session, w), "call_ended"),
                               "completed"),
                BuildEmptyResponse)

HandleHangupEvent(u) ==
    \E w \in Pending(u, "HANGUP_EVENT") : \E r \in Resolve(w) :
        LET session == RecordEvent(AttachPlivoIdentifiers(r.session, w), "call_ended")
        IN  Respond(w, r,
                    IF session.stage \in TerminalStages THEN session
                    ELSE AdvanceTo(session, "completed"),
                    BuildEmptyResponse)

HandleFallback(u) ==
    \E w \in Pending(u, "FALLBACK") : \E r \in Resolve(w) :
        Respond(w, r,
                RecordEvent(AdvanceTo(r.session, "failed"), "fallback_invoked"),
                BuildTerminatingMessage("technical"))

\* The server handles some webhook of the call.
Handle(u) ==
    \/ HandleCallAnswered(u)
    \/ PromptForOtp(u)
    \/ VerifyOtp(u)
    \/ PresentLanguageMenu(u)
    \/ HandleLanguageSelection(u)
    \/ PresentMainMenu(u)
    \/ HandleMainMenuSelection(u)
    \/ HandleAssociateDialStatus(u)
    \/ HandleHangupEvent(u)
    \/ HandleFallback(u)

-----------------------------------------------------------------------------
(* Plivo and the people on the line *)

Send(u, url, digits, dial_status, call) ==
    LET w == [url |-> url, call_uuid |-> u, digits |-> digits,
              dial_status |-> dial_status]
    IN  /\ calls' = [calls EXCEPT ![u] = [call EXCEPT !.doc = None, !.awaiting = w]]
        /\ inflight' = inflight \cup {w}
        /\ UNCHANGED <<store, verified>>

\* What is left of a call that is over, and the hangup_url webhook it causes.
Over(call) == [NoCall EXCEPT !.status = "ended", !.session_id = call.session_id]

HangupWebhook(u) ==
    [url |-> CallbackUrl("HANGUP_EVENT", calls[u].session_id, None, None),
     call_uuid |-> u, digits |-> "", dial_status |-> ""]

LineDrops(u) ==
    /\ calls' = [calls EXCEPT ![u] = Over(@)]
    /\ inflight' = inflight \cup {HangupWebhook(u)}

Playing(u) == calls[u].status = "live" /\ calls[u].doc # None

Answer(u) ==
    /\ calls[u].status = "ringing"
    /\ Send(u, CallbackUrl("ANSWER", calls[u].session_id, None, None), "", "",
            [calls[u] EXCEPT !.status = "live"])
    /\ UNCHANGED faults

NoAnswer(u) ==
    /\ calls[u].status = "ringing"
    /\ LineDrops(u)
    /\ UNCHANGED <<store, verified, faults>>

\* The caller's own account of an entry: recognised, wrong, a language choice.
AfterPressing(call, digits) ==
    LET route == call.doc.get_digits.route
        recognised == IF route = "OTP_VERIFY" THEN digits # "#" ELSE digits # "9"
    IN  [call EXCEPT
            !.streak = IF recognised THEN 0 ELSE CountUpTo(@, MaxInvalidInputs),
            !.wrongs = IF digits = "wrong" THEN CountUpTo(@, MaxOtpAttempts) ELSE @,
            !.chosen = IF route = "LANGUAGE_SELECT" /\ recognised
                       THEN FromMenuDigit(digits) ELSE @]

\* <GetDigits>: the caller keys something in.
CallerPresses(u) ==
    /\ Playing(u)
    /\ calls[u].doc.get_digits # None
    /\ ~calls[u].forgotten
    /\ \E digits \in IF calls[u].doc.get_digits.route = "OTP_VERIFY"
                     THEN OtpEntries ELSE MenuKeys :
           Send(u, calls[u].doc.get_digits, digits, "", AfterPressing(calls[u], digits))
    /\ UNCHANGED faults

\* Past the last element that speaks or collects: on to the redirect, and the
\* call is over if there is none.
FallThrough(u, call) ==
    IF call.doc.redirect # None
    THEN Send(u, call.doc.redirect, "", "", call)
    ELSE LineDrops(u) /\ UNCHANGED <<store, verified>>

\* <GetDigits>: nothing is keyed in before it times out.
CallerSilent(u) ==
    /\ Playing(u)
    /\ calls[u].doc.get_digits # None
    /\ FallThrough(u, [calls[u] EXCEPT !.streak = CountUpTo(@, MaxInvalidInputs)])
    /\ UNCHANGED faults

DocumentSpoken(u) ==
    /\ Playing(u)
    /\ calls[u].doc.get_digits = None
    /\ calls[u].doc.dial = None
    /\ ~calls[u].doc.hangup
    /\ FallThrough(u, calls[u])
    /\ UNCHANGED faults

\* <Dial>: the associate talked to the caller, or was never reached.
DialEnds(u) ==
    /\ Playing(u)
    /\ calls[u].doc.dial # None
    /\ \E status \in DialStatuses : Send(u, calls[u].doc.dial, "", status, calls[u])
    /\ UNCHANGED faults

\* <Hangup/>
HangsUp(u) ==
    /\ Playing(u)
    /\ calls[u].doc.hangup
    /\ LineDrops(u)
    /\ UNCHANGED <<store, verified, faults>>

CallerHangsUp(u) ==
    /\ calls[u].status = "live"
    /\ LineDrops(u)
    /\ UNCHANGED <<store, verified, faults>>

CallerWalksAway(u) ==
    /\ calls[u].status = "live"
    /\ ~calls[u].forgotten
    /\ calls' = [calls EXCEPT ![u].forgotten = TRUE]
    /\ UNCHANGED <<store, inflight, verified, faults>>

\* Plivo gives up an answer: on the answer URL it tries the fallback URL.
GivesUp(u) ==
    IF calls[u].awaiting.url.route = "ANSWER"
    THEN Send(u, CallbackUrl("FALLBACK", calls[u].session_id, None, None), "", "", calls[u])
    ELSE LineDrops(u) /\ UNCHANGED <<store, verified>>

WebhookFailed(u) ==
    /\ calls[u].awaiting # None
    /\ calls[u].awaiting \notin inflight
    /\ GivesUp(u)
    /\ UNCHANGED faults

-----------------------------------------------------------------------------
(* The operator: the control panel, the command line and the call API *)

Fresh(s) == s \notin Stored(store) /\ \A u \in CallUuids : calls[u].session_id # s

\* What the caller of Plivo's create-call API is told, and whether it rings.
Reply(outcome, rings) == [outcome |-> outcome, rings |-> rings]

PlaceReplies ==
    {Reply("queued", TRUE), Reply("refused", FALSE)} \cup
    (IF "reply" \in Faults
     THEN {Reply("no_uuid", TRUE), Reply("lost", TRUE), Reply("lost", FALSE)} ELSE {})

\* Bug: the session is cleaned up once the request is done.
AfterPlacingCleanedUp(st, s, outcome) == Delete(st, s)

\* A reply that never comes is not an OutboundCallError: the session stays.
AfterPlacing(st, s, outcome) ==
    CASE outcome = "queued" ->
            Save(st, s, RecordEvent(st.sessions[s], "call_queued"))
      [] outcome \in {"refused", "no_uuid"} ->
            Save(st, s, RecordEvent(AdvanceTo(st.sessions[s], "failed"),
                                    "call_request_failed"))
      [] outcome = "lost" -> st

PlaceOutboundCall(u) ==
    /\ calls[u].status = "unplaced"
    /\ \E s \in SessionIds, reply \in PlaceReplies :
          /\ Fresh(s)
          /\ \E st \in Create(store, s, RecordEvent(NewCallSession(None), "call_requested")) :
                /\ store' = AfterPlacing(st, s, reply.outcome)
                /\ verified' = StillVerified(st)
          /\ calls' = IF reply.rings
                      THEN [calls EXCEPT ![u].status = "ringing", ![u].session_id = s]
                      ELSE calls
    /\ UNCHANGED <<inflight, faults>>

\* No such session, or not answered yet, or Plivo will not end the call: the
\* lookup's eviction is all that happened.
EndCallRejected ==
    LET st == EvictExpired(store)
    IN  /\ store' = st
        /\ verified' = StillVerified(st)
        /\ UNCHANGED <<calls, inflight, faults>>

EndCallAccepted(s) ==
    LET st == EvictExpired(store)
        session == RecordEvent(st.sessions[s], "call_ended_by_operator")
        saved == Save(st, s, AdvanceTo(session, "completed"))
    IN  /\ s \in Stored(st)
        /\ \E u \in CallUuids :
              /\ st.sessions[s].call_uuid = u
              /\ calls[u].status = "live"
              /\ LineDrops(u)
        /\ \/ store' = saved
           \/ "reply" \in Faults /\ store' = st   \* ended, but the reply is lost
        /\ verified' = StillVerified(st)
        /\ UNCHANGED faults

\* DELETE /api/calls/{session_id}, for a session somebody was shown.
EndCall(s) ==
    /\ s \in Stored(store)
    /\ EndCallRejected \/ EndCallAccepted(s)

\* GET /api/calls and /api/calls/{session_id}: reading evicts too.
ReadCalls ==
    LET st == EvictExpired(store)
    IN  /\ store' = st
        /\ verified' = StillVerified(st)
        /\ UNCHANGED <<calls, inflight, faults>>

-----------------------------------------------------------------------------
(* What goes wrong *)

Spend(kind) ==
    /\ kind \in Faults
    /\ faults < MaxFaults
    /\ faults' = faults + 1

Restart ==
    /\ Spend("restart")
    /\ store' = EmptyStore
    /\ verified' = {}
    /\ UNCHANGED <<calls, inflight>>

Lose(u) ==
    /\ Spend("loss")
    /\ \E w \in inflight : w.call_uuid = u /\ inflight' = inflight \ {w}
    /\ UNCHANGED <<store, calls, verified>>

\* The webhook stays in flight: its handler may still run, unheard.
TimesOut(u) ==
    /\ Spend("timeout")
    /\ calls[u].awaiting \in inflight
    /\ GivesUp(u)

Tick ==
    /\ "expiry" \in Faults
    /\ store' = Age(store)
    /\ UNCHANGED <<calls, inflight, verified, faults>>

-----------------------------------------------------------------------------
\* Plivo moves the call on by itself.
PlivoProceeds(u) ==
    \/ CallerSilent(u)
    \/ DocumentSpoken(u)
    \/ DialEnds(u)
    \/ HangsUp(u)
    \/ WebhookFailed(u)

RingingEnds(u) == Answer(u) \/ NoAnswer(u)

Next ==
    \/ \E u \in CallUuids :
          \/ Handle(u)
          \/ RingingEnds(u)
          \/ PlivoProceeds(u)
          \/ CallerPresses(u)
          \/ CallerHangsUp(u)
          \/ CallerWalksAway(u)
          \/ PlaceOutboundCall(u)
          \/ Lose(u)
          \/ TimesOut(u)
    \/ \E s \in SessionIds : EndCall(s)
    \/ ReadCalls
    \/ Restart
    \/ Tick

Spec == Init /\ [][Next]_vars

Fairness ==
    \A u \in CallUuids :
        /\ WF_vars(Handle(u))
        /\ WF_vars(PlivoProceeds(u))
        /\ WF_vars(RingingEnds(u))

FairSpec == Spec /\ Fairness

-----------------------------------------------------------------------------
TypeOK ==
    /\ store \in Store
    /\ calls \in [CallUuids -> Call]
    /\ inflight \subseteq Webhook
    /\ verified \subseteq CallUuids
    /\ faults \in 0..MaxFaults
=============================================================================
