------------------------- MODULE CallFlowInvariants -------------------------
(***************************************************************************)
(* What the call flow keeps true between a call and its session, beyond    *)
(* Inv: the parts of an inductive invariant from which the properties of   *)
(* CallFlowProperties that speak of the caller, and the refinement of      *)
(* CallJourney, follow.                                                    *)
(***************************************************************************)
EXTENDS CallFlowProperties

-----------------------------------------------------------------------------
(* What a webhook reports *)

\* The input asked for did not come, or was not one of those asked for.
Unrecognised(w) ==
    \/ /\ w.url.route \in {"OTP_PROMPT", "LANGUAGE_MENU", "MAIN_MENU"}
       /\ w.url.reason = "no_input"
    \/ w.url.route = "OTP_VERIFY" /\ w.digits \in {"", "#"}
    \/ w.url.route \in {"LANGUAGE_SELECT", "MAIN_MENU_SELECT"} /\ w.digits \notin {"1", "2"}

Recognised(w) ==
    \/ w.url.route = "OTP_VERIFY" /\ w.digits \notin {"", "#"}
    \/ w.url.route \in {"LANGUAGE_SELECT", "MAIN_MENU_SELECT"} /\ w.digits \in {"1", "2"}

WrongCode(w) == w.url.route = "OTP_VERIFY" /\ w.digits \notin {"", "#", "code", "code#"}

\* The routes whose handlers check the access code before anything else.
GuardedRoutes == {"LANGUAGE_MENU", "LANGUAGE_SELECT", "MAIN_MENU", "MAIN_MENU_SELECT"}

-----------------------------------------------------------------------------
(* What a caller hears and is waiting for *)

\* Everything that may be played on a call: in the chosen language, once chosen.
DocumentsOf(session_id, chosen) ==
    {BuildOtpPrompt(session_id), BuildOtpAccepted(session_id),
     BuildLanguageMenu(session_id), BuildGoodbye(None),
     BuildTerminatingMessage("exhausted"), BuildTerminatingMessage("technical")}
    \cup
    (IF chosen = None THEN {}
     ELSE {BuildMainMenu(session_id, chosen), BuildPlayAudioMessage(session_id, chosen),
           BuildConnectToAssociate(session_id, chosen),
           BuildAssociateUnavailable(session_id, chosen), BuildGoodbye(chosen)})

\* Everything a call may be waiting for an answer to: what the documents ask
\* for, and past the level-1 menu in the language chosen there.
Awaitable(w, chosen) ==
    /\ w.url.route # "HANGUP_EVENT"
    /\ w.url.reason = "no_input" =>
          w.url.route \in {"OTP_PROMPT", "LANGUAGE_MENU", "MAIN_MENU"}
    /\ w.url.route = "OTP_VERIFY" => w.digits \in OtpEntries
    /\ w.url.route \in {"LANGUAGE_SELECT", "MAIN_MENU_SELECT"} => w.digits \in MenuKeys
    /\ w.url.route = "LANGUAGE_SELECT" /\ w.digits \in {"1", "2"} =>
          chosen = FromMenuDigit(w.digits)
    /\ w.url.route \in {"MAIN_MENU", "MAIN_MENU_SELECT", "ASSOCIATE_DIAL_STATUS"} =>
          w.url.lang = chosen /\ chosen # None
    /\ IF w.url.route = "ASSOCIATE_DIAL_STATUS"
       THEN w.dial_status \in DialStatuses ELSE w.dial_status = ""

-----------------------------------------------------------------------------
(* What the server knows of a live call, as long as it has its session *)

\* The operator's way to end it.
Attached(u, call, session) ==
    \/ session.call_uuid = u
    \/ call.doc # None /\ call.doc.says = "technical"
    \/ call.awaiting # None /\ call.awaiting.url.route \in {"ANSWER", "FALLBACK"}

\* That the access code was entered, while the caller is past it.
AuthKept(call, session) ==
    LET past == \/ call.doc # None /\ call.doc.says \in Protected
                \/ /\ call.awaiting # None
                   /\ call.awaiting.url.route \in
                         {"LANGUAGE_MENU", "LANGUAGE_SELECT", "MAIN_MENU_SELECT"}
    IN  past => session.is_authenticated

\* No more unrecognised inputs than there were, the one being reported included.
Counted(call, session) ==
    LET count == session.consecutive_unrecognized_inputs
    IN  IF call.awaiting # None /\ Unrecognised(call.awaiting)
        THEN CountUpTo(count, MaxInvalidInputs) <= call.streak
        ELSE \/ call.awaiting # None /\ Recognised(call.awaiting)
             \/ count <= call.streak

\* The wrong codes there were, unless the session was recreated since.
AttemptsFit(call, session) ==
    \/ "session_recreated" \in session.events
    \/ /\ call.wrongs = IF call.awaiting # None /\ WrongCode(call.awaiting)
                        THEN CountUpTo(session.otp_attempts, MaxOtpAttempts)
                        ELSE session.otp_attempts
       /\ \/ MaxOtpAttempts = 0
          \/ session.otp_attempts < MaxOtpAttempts
          \/ call.doc # None /\ call.doc.says = "exhausted"

\* A session that was there from the start knows the caller exactly: how many
\* unrecognised inputs there were, fewer than are tolerated unless the goodbye
\* is being said; past the code to the end; the attempts used up when told so.
Remembered(call, session) ==
    LET count == session.consecutive_unrecognized_inputs
        past == \/ call.doc # None /\ call.doc.says \in Protected \cup {"unavailable"}
                \/ /\ call.awaiting # None
                   /\ call.awaiting.url.route \in GuardedRoutes \cup {"ASSOCIATE_DIAL_STATUS"}
    IN  \/ "session_recreated" \in session.events
        \/ /\ past => session.is_authenticated
           /\ call.streak =
                 IF call.awaiting # None /\ Unrecognised(call.awaiting)
                 THEN CountUpTo(count, MaxInvalidInputs)
                 ELSE IF call.awaiting # None /\ Recognised(call.awaiting) THEN 0
                 ELSE count
           /\ count < MaxInvalidInputs \/ (call.doc # None /\ call.doc.says = "goodbye")
           /\ call.doc # None /\ call.doc.says = "exhausted" => AttemptsExhausted(session)

SessionFits(u, call, session) ==
    /\ Attached(u, call, session)
    /\ AuthKept(call, session)
    /\ Counted(call, session)
    /\ AttemptsFit(call, session)
    /\ Remembered(call, session)

-----------------------------------------------------------------------------
(* A call, its session if the server has one, and its webhooks in flight *)

\* Nobody has heard or pressed anything on it yet.
Unheard(call, flying) ==
    /\ flying = {}
    /\ call.streak = 0 /\ call.wrongs = 0 /\ call.chosen = None

\* A session nothing was counted in yet.
RingingOK(session) ==
    session # None =>
        /\ ~session.is_authenticated
        /\ session.otp_attempts = 0
        /\ session.consecutive_unrecognized_inputs = 0

LiveOK(u, call, flying, session) ==
    /\ (call.doc = None) <=> (call.awaiting # None)
    /\ call.doc # None => call.doc \in DocumentsOf(call.session_id, call.chosen)
    /\ call.awaiting # None =>
          /\ Awaitable(call.awaiting, call.chosen)
          /\ Unrecognised(call.awaiting) => call.streak > 0
    \* One webhook at a time, but for an answer webhook Plivo gave up.
    /\ \A w \in flying :
          \/ w = call.awaiting
          \/ /\ w.url.route = "ANSWER"
             /\ \/ call.doc # None /\ call.doc.says = "technical"
                \/ call.awaiting # None /\ call.awaiting.url.route = "FALLBACK"
    /\ session # None => SessionFits(u, call, session)

CallerOK(u, call, flying, session) ==
    /\ call.status \in {"unplaced", "ringing"} => Unheard(call, flying)
    /\ call.status = "ringing" => RingingOK(session)
    /\ call.status = "live" => LiveOK(u, call, flying, session)

SessionOf(u) ==
    IF calls[u].session_id = None THEN None ELSE store.sessions[calls[u].session_id]

FlyingOf(u) == {w \in inflight : w.call_uuid = u}

\* Whoever is verified has a session that says so.
KnownVerified ==
    \A u \in verified : SessionOf(u) # None /\ SessionOf(u).is_authenticated

(***************************************************************************)
(* With Inv this is inductive, in every interleaving of lost, late and     *)
(* repeated webhooks with restarts and evictions.                          *)
(***************************************************************************)
CallersInv ==
    /\ \A u \in CallUuids : CallerOK(u, calls[u], FlyingOf(u), SessionOf(u))
    /\ KnownVerified

-----------------------------------------------------------------------------
(* As long as no session is lost *)

\* The process runs on, nothing outlasts the TTL, and the store has room for
\* every session there is.
SessionsKept ==
    /\ Faults \cap {"restart", "expiry"} = {}
    /\ Cardinality(SessionIds) <= MaxSessions

\* Nothing is about to be evicted, and no call is without its session.
KeptInv ==
    /\ \A s \in Stored(store) :
          store.sessions[s].idle = 0 /\ "session_recreated" \notin store.sessions[s].events
    /\ \A u \in CallUuids : calls[u].status # "unplaced" => SessionOf(u) # None

-----------------------------------------------------------------------------
(* The stage, whatever is lost or late *)

\* The stages in which a handler that does not set one may find the session.
StagesAwaiting(route) ==
    CASE route = "OTP_VERIFY" -> {"awaiting_otp"}
      [] route = "LANGUAGE_SELECT" -> {"language_menu"}
      [] route = "MAIN_MENU_SELECT" -> {"main_menu"}
      [] route = "ASSOCIATE_DIAL_STATUS" -> {"connecting_associate"}
      [] OTHER -> Stages

\* The stage a session may be found at while this is said, and by the handler
\* of this route.  A late answer may move that of a call the fallback is ending.
StageSaying(session, says) ==
    \/ session.stage \in StagesOf(says)
    \/ Unstaged(session) /\ says \in {"otp_prompt", "unavailable"}
    \/ says = "technical" /\ "timeout" \in Faults

StageMet(session, route) ==
    \/ session.stage \in StagesAwaiting(route)
    \/ Unstaged(session) /\ route = "OTP_VERIFY"

StageFits(call, session) ==
    /\ call.doc # None => StageSaying(session, call.doc.says)
    /\ call.awaiting # None => StageMet(session, call.awaiting.url.route)

\* The session, if there is one, is at the stage its handler expects, and but
\* for answers given up there is one webhook at a time.
StageInv ==
    \A u \in CallUuids : calls[u].status = "live" =>
        /\ "timeout" \notin Faults => FlyingOf(u) \subseteq {calls[u].awaiting}
        /\ SessionOf(u) # None => StageFits(calls[u], SessionOf(u))
=============================================================================
