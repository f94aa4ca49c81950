------------------------- MODULE CallFlowProperties -------------------------
(***************************************************************************)
(* What the call flow must do and must never do.                           *)
(***************************************************************************)
EXTENDS CallFlow

\* A document starts playing on the call in this step.
Served(u) == calls'[u].doc # None /\ calls'[u].doc # calls[u].doc

Prompts == {"otp_prompt", "language_menu", "main_menu"}

Protected == {"otp_accepted", "language_menu", "main_menu", "audio", "connecting"}

-----------------------------------------------------------------------------
(* The access code *)

(***************************************************************************)
(* Nobody hears anything past the access code unless the right code was    *)
(* entered on this very call since the server last lost its session:       *)
(* whatever was restarted, evicted, expired, lost or answered late.        *)
(***************************************************************************)
OtpGate ==
    [][\A u \in CallUuids :
          Served(u) /\ calls'[u].doc.says \in Protected => u \in verified']_vars

(***************************************************************************)
(* app/routers/ivr.py:10-12, "No endpoint past the OTP will act for an     *)
(* unauthenticated session": no such caller is told that the associate is  *)
(* unavailable, instead of being asked for the code.  The dial-status      *)
(* endpoint does not check.                                                *)
(***************************************************************************)
ReauthenticatedOnEveryHop ==
    [][\A u \in CallUuids :
          Served(u) /\ calls'[u].doc.says = "unavailable" => u \in verified']_vars

(***************************************************************************)
(* A cap on wrong codes bounds what one caller may try: short of a lost    *)
(* session a caller who used the cap up is not asked again, and one who    *)
(* did not is not thrown out for it.                                       *)
(***************************************************************************)
OtpCapKept ==
    \A u \in CallUuids :
        Playing(u) /\ MaxOtpAttempts # 0 =>
           /\ (calls[u].doc.says = "otp_prompt" => calls[u].wrongs < MaxOtpAttempts)
           /\ (calls[u].doc.says = "exhausted" => calls[u].wrongs = MaxOtpAttempts)

(***************************************************************************)
(* The wrong codes are counted in the session, so a restart, an expiry or  *)
(* an eviction starts the count again.  Nothing less does: a caller who    *)
(* used the cap up and is asked again has a session that says it was       *)
(* recreated, or none, whatever was lost, timed out or handled late.       *)
(***************************************************************************)
CapForgottenOnlyWithSession ==
    \A u \in CallUuids :
        Playing(u) /\ calls[u].doc.says = "otp_prompt" /\ MaxOtpAttempts # 0 =>
            LET s == calls[u].session_id
            IN  s \in Stored(store) =>
                   \/ calls[u].wrongs < MaxOtpAttempts
                   \/ "session_recreated" \in store.sessions[s].events

-----------------------------------------------------------------------------
(* Silence and stray keys *)

(***************************************************************************)
(* A caller is asked again as long as, and only as long as, fewer than     *)
(* MaxInvalidInputs prompts in a row got no recognised input, counted over *)
(* every prompt of the flow whichever endpoint served it.                  *)
(***************************************************************************)
ToleranceKept ==
    \A u \in CallUuids :
        Playing(u) /\ calls[u].doc.says \in Prompts => calls[u].streak < MaxInvalidInputs

(***************************************************************************)
(* The goodbye is never premature, even when sessions are lost and         *)
(* webhooks handled late: it follows a full run of unrecognised input or a *)
(* finished transfer.                                                      *)
(***************************************************************************)
GoodbyeEarned ==
    [][\A u \in CallUuids :
          Served(u) /\ calls'[u].doc.says = "goodbye" =>
             \/ calls[u].streak = MaxInvalidInputs
             \/ calls[u].awaiting.dial_status = "completed"]_vars

(***************************************************************************)
(* Past the level-1 menu everything is said in the language the caller     *)
(* pressed there, across lost sessions and transfers.                      *)
(***************************************************************************)
LanguageHonoured ==
    \A u \in CallUuids : Playing(u) =>
        calls[u].doc.language \in {None, calls[u].chosen}

-----------------------------------------------------------------------------
(* The session and its call *)

\* The stages at which a document may be playing.
StagesOf(says) ==
    CASE says = "otp_prompt" -> {"awaiting_otp"}
      [] says = "otp_accepted" -> {"authenticated"}
      [] says \in {"language_menu", "main_menu"} -> {says}
      [] says = "audio" -> {"playing_audio"}
      [] says \in {"connecting", "unavailable"} -> {"connecting_associate"}
      [] says = "goodbye" -> {"completed", "failed"}
      [] OTHER -> {"failed"}

(***************************************************************************)
(* The stage shown to the operator is where the caller is: what is being   *)
(* played on a live call is what its session's stage stands for.           *)
(***************************************************************************)
StageTracksCaller ==
    \A u \in CallUuids : Playing(u) =>
        LET s == calls[u].session_id
        IN  s \in Stored(store) => store.sessions[s].stage \in StagesOf(calls[u].doc.says)

\* A session recreated by a handler that set no stage: it looks like one whose
\* call was never answered.
Unstaged(session) ==
    session.stage = "initiated" /\ "session_recreated" \in session.events

(***************************************************************************)
(* Whatever was lost or is late, every document is served with its session *)
(* at the stage the document stands for.  There is one exception: verify_  *)
(* otp and the dial-status endpoint count on the stage an earlier endpoint *)
(* set, so where they asked with their session recreated the panel shows a *)
(* call that was never answered.  The endpoints past the access code that  *)
(* send the caller back for it do not leave the stage behind.              *)
(***************************************************************************)
ServedInStage ==
    [][\A u \in CallUuids : Served(u) =>
          LET session == store'.sessions[calls[u].session_id]
          IN  \/ session.stage \in StagesOf(calls'[u].doc.says)
              \/ /\ Unstaged(session)
                 /\ calls[u].awaiting.url.route \in {"OTP_VERIFY", "ASSOCIATE_DIAL_STATUS"}]_vars

(***************************************************************************)
(* A session whose audit trail says the call ended stays closed.           *)
(***************************************************************************)
ClosedStaysClosed ==
    \A s \in Stored(store) :
        "call_ended" \in store.sessions[s].events => store.sessions[s].stage \in TerminalStages

(***************************************************************************)
(* The operator can end any answered call, one recreated in mid-call       *)
(* included: the session of a call that is playing knows Plivo's id for    *)
(* it.  (The fallback handler keeps no id, but its call is ending anyway.) *)
(***************************************************************************)
OperatorCanHangUp ==
    \A u \in CallUuids :
        Playing(u) /\ calls[u].doc.says # "technical" =>
            LET s == calls[u].session_id
            IN  s \in Stored(store) => store.sessions[s].call_uuid = u

(***************************************************************************)
(* The session exists before Plivo is told of it, so that no webhook ever  *)
(* finds it missing.                                                       *)
(***************************************************************************)
NeverRecreated ==
    \A s \in Stored(store) : "session_recreated" \notin store.sessions[s].events

(***************************************************************************)
(* One call, one session: no session is attached to a call other than the  *)
(* one that was placed with it, so the operator never ends another call,   *)
(* and no call is handed the URLs of another call's session.               *)
(***************************************************************************)
OwnSession ==
    /\ \A s \in Stored(store) :
          store.sessions[s].call_uuid # None =>
              calls[store.sessions[s].call_uuid].session_id = s
    /\ \A u \in CallUuids : Playing(u) =>
          \A url \in {calls[u].doc.get_digits, calls[u].doc.dial, calls[u].doc.redirect} :
              url # None => url.session_id = calls[u].session_id

(***************************************************************************)
(* The index from Plivo's call id finds exactly the stored sessions        *)
(* attached to that call: no stale entry outlives its session, and no      *)
(* session is reachable by one key only.                                   *)
(***************************************************************************)
IndexSound ==
    \A u \in CallUuids, s \in SessionIds :
        store.call_uuid_index[u] = s <=>
            s \in Stored(store) /\ store.sessions[s].call_uuid = u

\* However sessions come and go, saved, recreated or reborn late, the cap holds.
StoreBounded == Cardinality(Stored(store)) <= MaxSessions

-----------------------------------------------------------------------------
(* Progress *)

(***************************************************************************)
(* A forgotten handset cannot hold the line open for ever, whatever the    *)
(* finitely many faults do to its session.                                 *)
(***************************************************************************)
LineReleased ==
    \A u \in CallUuids : calls[u].forgotten ~> calls[u].status = "ended"

(***************************************************************************)
(* Every call that ends, answered or not, gets its end recorded in a       *)
(* session, whatever was lost before: unless one more fault, such as the   *)
(* loss of the hangup webhook itself, comes in between.                    *)
(***************************************************************************)
EndRecorded ==
    \A u \in CallUuids, spent \in 0..MaxFaults :
        calls[u].status # "ended" /\ faults = spent ~>
            \/ [](calls[u].status # "ended")
            \/ faults # spent
            \/ \E s \in Stored(store) : /\ store.sessions[s].call_uuid = u
                                        /\ "call_ended" \in store.sessions[s].events

-----------------------------------------------------------------------------
(* The inductive invariant *)

(***************************************************************************)
(* Why the gate holds: TypeOK and the parts of Inv together are inductive, *)
(* and no part is without the others.                                      *)
(***************************************************************************)
\* Whose session it is: the id each call was placed with.
Owner == [u \in CallUuids |-> calls[u].session_id]

\* Plivo's side holds together: only a placed call has a session, and only a
\* call somebody has answered waits for a document or plays one.
PlacedOK ==
    \A u \in CallUuids :
        /\ calls[u].status = "unplaced" <=> calls[u].session_id = None
        /\ calls[u].doc # None \/ calls[u].awaiting # None => calls[u].status = "live"

\* No two calls were placed with one session.
OwnersApart(owner) ==
    \A u, v \in CallUuids : owner[u] = owner[v] /\ owner[u] # None => u = v

\* Sessions and index entries lead to the call the session was created for.
StoreFits(st, owner) ==
    /\ \A s \in SessionIds :
          st.sessions[s] # None /\ st.sessions[s].call_uuid # None =>
              owner[st.sessions[s].call_uuid] = s
    /\ \A u \in CallUuids : st.call_uuid_index[u] \in {None, owner[u]}

\* An authenticated session belongs to a call whose caller is verified.
AuthFits(st, owner, ver) ==
    \A u \in CallUuids, s \in SessionIds :
        owner[u] = s /\ st.sessions[s] # None /\ st.sessions[s].is_authenticated
            => u \in ver

\* Every URL in the document leads back to the one session.
Carries(doc, session_id) ==
    /\ doc \in Document
    /\ \A url \in {doc.get_digits, doc.dial, doc.redirect} :
           url # None => url.session_id = session_id

\* Webhooks and documents carry the session of their call.
WebhooksFit == \A w \in inflight : w.url.session_id = calls[w.call_uuid].session_id

DocsFit == \A u \in CallUuids : calls[u].doc # None => Carries(calls[u].doc, calls[u].session_id)

(***************************************************************************)
(* One call, one session, in every place either is named: the store and    *)
(* its index, the webhooks in flight, the documents being played; and an   *)
(* authenticated session only where the caller proved to know the code.    *)
(***************************************************************************)
Inv ==
    /\ TypeOK
    /\ PlacedOK
    /\ OwnersApart(Owner)
    /\ StoreFits(store, Owner)
    /\ AuthFits(store, Owner, verified)
    /\ WebhooksFit
    /\ DocsFit
=============================================================================
