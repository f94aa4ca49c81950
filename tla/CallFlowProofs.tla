--------------------------- MODULE CallFlowProofs ---------------------------
(***************************************************************************)
(* Proofs about the call flow, for every number of calls and sessions and  *)
(* every setting: what every webhook handler does, proved once for all the *)
(* theorems - the session it works on (_resolve_session), what it makes of *)
(* it, and the document it answers with - then that Inv is an invariant,   *)
(* and that the access code is a gate.                                     *)
(***************************************************************************)
EXTENDS CallFlowInvariants, TLAPS

-----------------------------------------------------------------------------
(* Sessions *)

Recreated(session) == "session_recreated" \in session.events

\* The counters have these values and the rest of what the flow depends on,
\* other than the stage, is left alone.
Counts(new, old, attempts, count) ==
    /\ new.call_uuid = old.call_uuid
    /\ new.is_authenticated = old.is_authenticated
    /\ new.otp_attempts = attempts
    /\ new.consecutive_unrecognized_inputs = count
    /\ Recreated(new) <=> Recreated(old)

\* All the flow depends on, other than the stage, is left alone.
Kept(new, old) ==
    Counts(new, old, old.otp_attempts, old.consecutive_unrecognized_inputs)

\* A counter never passes its threshold (CountUpTo, the bound of the model).
LEMMA CountUpToType ==
    ASSUME NEW cap \in Nat, NEW n \in 0..cap
    PROVE  CountUpTo(n, cap) \in 0..cap
BY DEF CountUpTo

\* The constants' ranges, out of the assumption that also speaks of Session.
LEMMA Bounds ==
    /\ MaxInvalidInputs \in Nat /\ 0 \in 0..MaxInvalidInputs
    /\ MaxOtpAttempts \in Nat /\ 0 \in 0..MaxOtpAttempts
    /\ TTL \in Nat /\ 0 \in 0..(TTL + 1)
BY SessionAssumption

\* A new CallSession is a well-formed, unauthenticated session without counts.
LEMMA NewCallSessionType ==
    ASSUME NEW call_uuid \in CallUuids \cup {None}
    PROVE  /\ NewCallSession(call_uuid) \in Session
           /\ NewCallSession(call_uuid).call_uuid = call_uuid
           /\ NewCallSession(call_uuid).is_authenticated = FALSE
           /\ NewCallSession(call_uuid).otp_attempts = 0
           /\ NewCallSession(call_uuid).consecutive_unrecognized_inputs = 0
           /\ NewCallSession(call_uuid).stage = "initiated"
           /\ ~Recreated(NewCallSession(call_uuid))
BY Bounds DEF NewCallSession, Session, Stages, Recreated

\* touch() changes the timestamp and nothing else.
LEMMA TouchType ==
    ASSUME NEW session \in Session
    PROVE  /\ Touch(session) \in Session
           /\ Kept(Touch(session), session)
           /\ Touch(session).stage = session.stage
           /\ Touch(session).idle = 0
BY Bounds DEF Touch, Session, Kept, Counts, Recreated

\* record_event() appends to the audit trail and touches.
LEMMA RecordEventType ==
    ASSUME NEW session \in Session, NEW type, type # "session_recreated"
    PROVE  /\ RecordEvent(session, type) \in Session
           /\ Kept(RecordEvent(session, type), session)
           /\ RecordEvent(session, type).stage = session.stage
<1>1. /\ Touch(session) \in Session /\ Kept(Touch(session), session)
      /\ Touch(session).stage = session.stage
  BY TouchType
<1>2. Touch(session).events \cup ({type} \cap NotedEvents) \in SUBSET NotedEvents
  BY <1>1 DEF Session
<1>3. QED
  BY <1>1, <1>2 DEF RecordEvent, Session, Kept, Counts, Recreated

\* Ageing changes the timestamp and nothing else.
LEMMA IdleType ==
    ASSUME NEW session \in Session
    PROVE  LET idle == [session EXCEPT !.idle = CountUpTo(@, TTL + 1)]
           IN  idle \in Session /\ Kept(idle, session) /\ idle.stage = session.stage
<1>1. session.idle \in 0..(TTL + 1) /\ TTL + 1 \in Nat
  BY Bounds DEF Session
<1>2. CountUpTo(session.idle, TTL + 1) \in 0..(TTL + 1)
  BY <1>1, CountUpToType
<1>3. QED
  BY <1>2 DEF Session, Kept, Counts, Recreated

\* The session a call is placed with: attached to no call yet, nothing counted.
LEMMA RequestedType ==
    LET requested == RecordEvent(NewCallSession(None), "call_requested")
    IN  /\ requested \in Session
        /\ requested.call_uuid = None
        /\ requested.is_authenticated = FALSE
        /\ requested.otp_attempts = 0
        /\ requested.consecutive_unrecognized_inputs = 0
        /\ ~Recreated(requested)
<1>1. /\ NewCallSession(None) \in Session
      /\ NewCallSession(None).call_uuid = None
      /\ NewCallSession(None).is_authenticated = FALSE
      /\ NewCallSession(None).otp_attempts = 0
      /\ NewCallSession(None).consecutive_unrecognized_inputs = 0
      /\ ~Recreated(NewCallSession(None))
  BY NewCallSessionType
<1>2. /\ RecordEvent(NewCallSession(None), "call_requested") \in Session
      /\ Kept(RecordEvent(NewCallSession(None), "call_requested"), NewCallSession(None))
  BY <1>1, RecordEventType
<1>3. QED
  BY <1>1, <1>2 DEF Kept, Counts

\* The session _resolve_session makes up for a call it no longer knows.
LEMMA RecreatedType ==
    ASSUME NEW call_uuid \in CallUuids
    PROVE  LET recreated == RecordEvent(NewCallSession(call_uuid), "session_recreated")
           IN  /\ recreated \in Session
               /\ recreated.call_uuid = call_uuid
               /\ recreated.is_authenticated = FALSE
               /\ recreated.otp_attempts = 0
               /\ recreated.consecutive_unrecognized_inputs = 0
               /\ recreated.stage = "initiated"
               /\ Recreated(recreated)
<1> DEFINE new == NewCallSession(call_uuid)
           touched == Touch(new)
<1>1. /\ new \in Session /\ new.call_uuid = call_uuid /\ new.is_authenticated = FALSE
      /\ new.stage = "initiated"
      /\ new.otp_attempts = 0 /\ new.consecutive_unrecognized_inputs = 0
  BY NewCallSessionType
<1> HIDE DEF new
<1>2. touched \in Session /\ Kept(touched, new) /\ touched.stage = new.stage
  BY <1>1, TouchType
<1> HIDE DEF touched
<1>3. LET recreated == [touched EXCEPT !.events = @ \cup ({"session_recreated"} \cap NotedEvents)]
      IN  /\ recreated \in Session
          /\ recreated.call_uuid = touched.call_uuid
          /\ recreated.is_authenticated = touched.is_authenticated
          /\ recreated.otp_attempts = touched.otp_attempts
          /\ recreated.consecutive_unrecognized_inputs = touched.consecutive_unrecognized_inputs
          /\ recreated.stage = touched.stage
          /\ Recreated(recreated)
  BY <1>2 DEF Session, NotedEvents, Kept, Counts, Recreated
<1>4. QED
  BY <1>1, <1>2, <1>3 DEF RecordEvent, Kept, Counts, touched, new

\* advance_to() changes the stage and nothing else.
LEMMA AdvanceToType ==
    ASSUME NEW session \in Session, NEW stage \in Stages
    PROVE  /\ AdvanceTo(session, stage) \in Session
           /\ Kept(AdvanceTo(session, stage), session)
           /\ AdvanceTo(session, stage).stage = stage
<1> DEFINE staged == [session EXCEPT !.stage = stage]
<1>1. staged \in Session /\ Kept(staged, session) /\ staged.stage = stage
  BY DEF Session, Kept, Counts, Recreated
<1>2. /\ RecordEvent(staged, "stage_changed") \in Session
      /\ Kept(RecordEvent(staged, "stage_changed"), staged)
      /\ RecordEvent(staged, "stage_changed").stage = staged.stage
  BY <1>1, RecordEventType
<1>3. QED
  BY <1>1, <1>2, TouchType DEF AdvanceTo, Kept, Counts

\* A wrong code counts, clears the other count and authenticates nobody.
LEMMA RegisterFailedOtpAttemptType ==
    ASSUME NEW session \in Session
    PROVE  LET failed == RegisterFailedOtpAttempt(session)
           IN  /\ failed \in Session
               /\ Counts(failed, session, CountUpTo(session.otp_attempts, MaxOtpAttempts), 0)
               /\ failed.stage = session.stage
<1> DEFINE attempts == CountUpTo(session.otp_attempts, MaxOtpAttempts)
           counted == [session EXCEPT !.otp_attempts = CountUpTo(@, MaxOtpAttempts),
                                      !.consecutive_unrecognized_inputs = 0]
<1>1. attempts \in 0..MaxOtpAttempts
  BY Bounds, CountUpToType DEF Session
<1>2. /\ counted \in Session /\ Counts(counted, session, attempts, 0)
      /\ counted.stage = session.stage
  BY <1>1, Bounds DEF Session, Counts, Recreated
<1>3. QED
  BY <1>2, RecordEventType DEF RegisterFailedOtpAttempt, Kept, Counts

\* The right code authenticates the session and leaves it on its call.
LEMMA RegisterSuccessfulOtpType ==
    ASSUME NEW session \in Session
    PROVE  LET passed == RegisterSuccessfulOtp(session)
           IN  /\ passed \in Session
               /\ passed.call_uuid = session.call_uuid
               /\ passed.is_authenticated = TRUE
               /\ passed.otp_attempts = session.otp_attempts
               /\ passed.consecutive_unrecognized_inputs = 0
               /\ Recreated(passed) <=> Recreated(session)
<1> DEFINE passed == [session EXCEPT !.is_authenticated = TRUE,
                                     !.consecutive_unrecognized_inputs = 0]
<1>1. /\ passed \in Session /\ passed.call_uuid = session.call_uuid
      /\ passed.is_authenticated = TRUE
      /\ passed.otp_attempts = session.otp_attempts
      /\ passed.consecutive_unrecognized_inputs = 0
      /\ Recreated(passed) <=> Recreated(session)
  BY Bounds DEF Session, Recreated
<1>2. QED
  BY <1>1, RecordEventType DEF RegisterSuccessfulOtp, Kept, Counts

\* Silence and stray keys count and authenticate nobody.
LEMMA RegisterUnrecognizedType ==
    ASSUME NEW session \in Session
    PROVE  LET count == CountUpTo(session.consecutive_unrecognized_inputs, MaxInvalidInputs)
               silent == RegisterNoInput(session)
               stray == RegisterInvalidSelection(session)
           IN  /\ silent \in Session
               /\ Counts(silent, session, session.otp_attempts, count)
               /\ silent.stage = session.stage
               /\ stray \in Session
               /\ Counts(stray, session, session.otp_attempts, count)
               /\ stray.stage = session.stage
<1> DEFINE count == CountUpTo(session.consecutive_unrecognized_inputs, MaxInvalidInputs)
           counted == [session EXCEPT !.consecutive_unrecognized_inputs =
                                          CountUpTo(@, MaxInvalidInputs)]
<1>1. count \in 0..MaxInvalidInputs
  BY Bounds, CountUpToType DEF Session
<1>2. /\ counted \in Session /\ Counts(counted, session, session.otp_attempts, count)
      /\ counted.stage = session.stage
  BY <1>1 DEF Session, Counts, Recreated
<1>3. QED
  BY <1>2, RecordEventType DEF RegisterNoInput, RegisterInvalidSelection, Kept, Counts

\* A recognised key clears the count.
LEMMA ResetUnrecognizedInputsType ==
    ASSUME NEW session \in Session
    PROVE  LET reset == ResetUnrecognizedInputs(session)
           IN  /\ reset \in Session
               /\ Counts(reset, session, session.otp_attempts, 0)
               /\ reset.stage = session.stage
BY Bounds DEF ResetUnrecognizedInputs, Session, Counts, Recreated

\* Setting the language touches nothing else; choosing it clears the count.
LEMMA LanguageType ==
    ASSUME NEW session \in Session, NEW language \in Languages
    PROVE  LET spoken == [session EXCEPT !.language = language]
               selected == SelectLanguage(session, language)
           IN  /\ spoken \in Session
               /\ Kept(spoken, session)
               /\ spoken.stage = session.stage
               /\ selected \in Session
               /\ Counts(selected, session, session.otp_attempts, 0)
<1> DEFINE spoken == [session EXCEPT !.language = language]
<1>1. spoken \in Session /\ Kept(spoken, session) /\ spoken.stage = session.stage
  BY DEF Session, Kept, Counts, Recreated
<1> DEFINE reset == ResetUnrecognizedInputs(spoken)
<1> HIDE DEF spoken
<1>2. reset \in Session /\ Counts(reset, spoken, spoken.otp_attempts, 0)
  BY <1>1, ResetUnrecognizedInputsType
<1> HIDE DEF reset
<1>3. /\ RecordEvent(reset, "language_selected") \in Session
      /\ Kept(RecordEvent(reset, "language_selected"), reset)
  BY <1>2, RecordEventType
<1>4. SelectLanguage(session, language) = RecordEvent(reset, "language_selected")
  BY DEF SelectLanguage, reset, spoken
<1>5. QED
  BY <1>1, <1>2, <1>3, <1>4 DEF Kept, Counts, spoken

\* Attaching Plivo's id changes the call the session is on, and only that.
LEMMA AttachType ==
    ASSUME NEW session \in Session, NEW w \in Webhook
    PROVE  LET attached == AttachPlivoIdentifiers(session, w)
           IN  /\ attached \in Session
               /\ attached.call_uuid = w.call_uuid
               /\ attached.is_authenticated = session.is_authenticated
               /\ attached.otp_attempts = session.otp_attempts
               /\ attached.consecutive_unrecognized_inputs =
                     session.consecutive_unrecognized_inputs
               /\ Recreated(attached) <=> Recreated(session)
               /\ attached.stage = session.stage
BY DEF AttachPlivoIdentifiers, Session, Webhook, Recreated

-----------------------------------------------------------------------------
(* Documents *)

\* A callback URL names the route and the session it was built for.
LEMMA CallbackUrlType ==
    ASSUME NEW route \in Routes, NEW s \in SessionIds,
           NEW lang \in Languages \cup {None}, NEW reason \in {"no_input", None}
    PROVE  /\ CallbackUrl(route, s, lang, reason) \in Url
           /\ CallbackUrl(route, s, lang, reason).session_id = s
BY DEF CallbackUrl, Url

\* Adding URLs of one session to what is said keeps the document to it.
LEMMA SpeakCarries ==
    ASSUME NEW s, NEW says \in Speeches, NEW language \in Languages \cup {None},
           NEW action \in Url, action.session_id = s,
           NEW redirect \in Url, redirect.session_id = s
    PROVE  /\ Carries([Speak(says, language) EXCEPT !.get_digits = action,
                                                    !.redirect = redirect], s)
           /\ Carries([Speak(says, language) EXCEPT !.redirect = redirect], s)
           /\ Carries([Speak(says, language) EXCEPT !.dial = action], s)
<1> DEFINE spoken == Speak(says, language)
           collecting == [spoken EXCEPT !.get_digits = action]
<1>1. /\ spoken \in Document
      /\ spoken.get_digits = None /\ spoken.dial = None /\ spoken.redirect = None
  BY DEF Speak, Document
<1>2. /\ collecting \in Document
      /\ collecting.get_digits = action
      /\ collecting.dial = None /\ collecting.redirect = None
  BY <1>1 DEF Document
<1> HIDE DEF spoken
<1>3. Carries([spoken EXCEPT !.redirect = redirect], s)
  BY <1>1 DEF Carries, Document
<1>4. Carries([spoken EXCEPT !.dial = action], s)
  BY <1>1 DEF Carries, Document
<1>5. Carries([spoken EXCEPT !.get_digits = action, !.redirect = redirect], s)
  BY <1>1, <1>2 DEF Carries, Document
<1>6. QED
  BY <1>3, <1>4, <1>5 DEF spoken

\* The documents of the flow carry the id of the session they are built for.
LEMMA BuildersCarry ==
    ASSUME NEW s \in SessionIds, NEW language \in Languages
    PROVE  /\ Carries(BuildOtpPrompt(s), s)
           /\ Carries(BuildOtpAccepted(s), s)
           /\ Carries(BuildLanguageMenu(s), s)
           /\ Carries(BuildMainMenu(s, language), s)
           /\ Carries(BuildPlayAudioMessage(s, language), s)
           /\ Carries(BuildConnectToAssociate(s, language), s)
           /\ Carries(BuildAssociateUnavailable(s, language), s)
<1>1. \A route \in Routes, lang \in Languages \cup {None}, reason \in {"no_input", None} :
         /\ CallbackUrl(route, s, lang, reason) \in Url
         /\ CallbackUrl(route, s, lang, reason).session_id = s
  BY CallbackUrlType
<1>2. /\ Carries(BuildOtpPrompt(s), s)
      /\ Carries(BuildOtpAccepted(s), s)
      /\ Carries(BuildLanguageMenu(s), s)
  BY <1>1, SpeakCarries
     DEF BuildOtpPrompt, BuildOtpAccepted, BuildLanguageMenu, Routes, Speeches
<1>3. /\ Carries(BuildMainMenu(s, language), s)
      /\ Carries(BuildPlayAudioMessage(s, language), s)
      /\ Carries(BuildConnectToAssociate(s, language), s)
      /\ Carries(BuildAssociateUnavailable(s, language), s)
  BY <1>1, SpeakCarries
     DEF BuildMainMenu, BuildPlayAudioMessage, BuildConnectToAssociate,
         BuildAssociateUnavailable, Routes, Speeches
<1>4. QED
  BY <1>2, <1>3

\* The documents that end the call carry no URL at all.
LEMMA EndingsCarry ==
    ASSUME NEW s \in SessionIds, NEW language \in Languages \cup {None},
           NEW message \in {"exhausted", "technical"}
    PROVE  /\ Carries(BuildGoodbye(language), s)
           /\ Carries(BuildTerminatingMessage(message), s)
           /\ Carries(BuildEmptyResponse, s)
BY DEF Carries, Document, Speak, Speeches, BuildGoodbye, BuildTerminatingMessage,
       BuildEmptyResponse

-----------------------------------------------------------------------------
(* The store *)

\* The store new holds nothing that old does not.
Shrinks(new, old) ==
    /\ new \in Store
    /\ \A s \in SessionIds : new.sessions[s] \in {None, old.sessions[s]}
    /\ \A u \in CallUuids : new.call_uuid_index[u] \in {None, old.call_uuid_index[u]}

\* Losing sessions twice is losing sessions.
LEMMA ShrinksTransitive ==
    ASSUME NEW a, NEW b, NEW c, Shrinks(a, b), Shrinks(b, c)
    PROVE  Shrinks(a, c)
BY DEF Shrinks

\* Taking sessions out leaves the others and their index entries alone.
LEMMA RemoveShrinks ==
    ASSUME NEW st \in Store, NEW ids
    PROVE  Shrinks(Remove(st, ids), st)
BY DEF Shrinks, Remove, Store

\* Expiry only takes sessions out.
LEMMA EvictExpiredShrinks ==
    ASSUME NEW st \in Store
    PROVE  Shrinks(EvictExpired(st), st)
BY RemoveShrinks DEF EvictExpired

\* So does the capacity rule.
LEMMA EnforceCapacityShrinks ==
    ASSUME NEW st \in Store, NEW room \in EnforceCapacity(st)
    PROVE  Shrinks(room, st)
<1>1. Shrinks(st, st)
  BY DEF Shrinks
<1>2. room = st \/ \E ids : room = Remove(st, ids)
  BY DEF EnforceCapacity
<1>3. QED
  BY <1>1, <1>2, RemoveShrinks

\* Storing a session: it is there, the others are as they were.
LEMMA PutType ==
    ASSUME NEW st \in Store, NEW s \in SessionIds, NEW session \in Session
    PROVE  /\ Put(st, s, session) \in Store
           /\ Put(st, s, session).sessions[s] = session
           /\ \A t \in SessionIds \ {s} : Put(st, s, session).sessions[t] = st.sessions[t]
           /\ \A u \in CallUuids :
                 Put(st, s, session).call_uuid_index[u] =
                     IF u = session.call_uuid THEN s ELSE st.call_uuid_index[u]
BY DEF Put, Store

-----------------------------------------------------------------------------
(* Resolving a webhook's session *)

\* What _resolve_session returns: the stored session of the URL, or a new,
\* unauthenticated one put in its place.
Resolved(w, r) ==
    /\ r.session_id = w.url.session_id
    /\ r.session \in Session
    /\ r.store \in Store
    /\ \/ /\ r.found = TRUE
          /\ Shrinks(r.store, store)
          /\ r.session = r.store.sessions[r.session_id]
       \/ /\ r.found = FALSE
          /\ ~r.session.is_authenticated
          /\ r.session.call_uuid = w.call_uuid
          /\ r.session.otp_attempts = 0
          /\ r.session.consecutive_unrecognized_inputs = 0
          /\ r.session.stage = "initiated"
          /\ Recreated(r.session)
          /\ \E room : Shrinks(room, store) /\ r.store = Put(room, r.session_id, r.session)

\* Losing a session is never a way past the access code: whatever the lookup
\* finds is the call's own session, and what it creates is unauthenticated.
LEMMA ResolveIsOwn ==
    ASSUME TypeOK, StoreFits(store, Owner), WebhooksFit,
           NEW w \in inflight, NEW r \in Resolve(w)
    PROVE  Resolved(w, r)
<1> DEFINE st == EvictExpired(store)
           s == w.url.session_id
           by_call == GetByCallUuid(st, w.call_uuid)
           recreated == RecordEvent(NewCallSession(w.call_uuid), "session_recreated")
<1>1. /\ store \in Store
      /\ w \in Webhook /\ w.url \in Url /\ w.call_uuid \in CallUuids
      /\ s \in SessionIds
  BY DEF TypeOK, Webhook, Url
<1>2. Shrinks(st, store) /\ st \in Store
  BY <1>1, EvictExpiredShrinks DEF Shrinks
<1>3. CASE s \in Stored(st)
  <2>1. r = [store |-> st, session_id |-> s, session |-> st.sessions[s], found |-> TRUE]
    BY <1>3 DEF Resolve
  <2>2. st.sessions[s] \in Session
    BY <1>1, <1>2, <1>3 DEF Stored, Store
  <2>3. QED
    BY <1>2, <2>1, <2>2 DEF Resolved
<1>4. CASE s \notin Stored(st) /\ by_call # None
  <2>1. by_call = st.call_uuid_index[w.call_uuid] /\ by_call \in Stored(st)
    BY <1>4 DEF GetByCallUuid
  <2>2. by_call \in {None, Owner[w.call_uuid]}
    BY <1>1, <1>2, <2>1 DEF Shrinks, StoreFits
  <2>3. by_call = s
    BY <1>1, <1>4, <2>2 DEF Owner, WebhooksFit
  <2>4. QED
    BY <1>4, <2>1, <2>3
<1>5. CASE s \notin Stored(st) /\ by_call = None
  <2>1. \E room \in Create(st, s, recreated) :
           r = [store |-> room, session_id |-> s, session |-> recreated, found |-> FALSE]
    BY <1>5 DEF Resolve, RecreatedIds
  <2>2. /\ recreated \in Session
        /\ ~recreated.is_authenticated
        /\ recreated.call_uuid = w.call_uuid
        /\ recreated.otp_attempts = 0
        /\ recreated.consecutive_unrecognized_inputs = 0
        /\ recreated.stage = "initiated"
        /\ Recreated(recreated)
    BY <1>1, RecreatedType
  <2>3. PICK room \in EnforceCapacity(EvictExpired(st)) :
           r = [store |-> Put(room, s, recreated), session_id |-> s,
                session |-> recreated, found |-> FALSE]
    BY <2>1 DEF Create
  <2>4. Shrinks(EvictExpired(st), st) /\ EvictExpired(st) \in Store
    BY <1>2, EvictExpiredShrinks DEF Shrinks
  <2>5. Shrinks(room, EvictExpired(st))
    BY <2>4, EnforceCapacityShrinks
  <2>6. Shrinks(room, store)
    BY <1>2, <2>4, <2>5, ShrinksTransitive
  <2>7. Put(room, s, recreated) \in Store
    BY <1>1, <2>2, <2>6, PutType DEF Shrinks
  <2>8. QED
    BY <2>2, <2>3, <2>6, <2>7 DEF Resolved
<1>6. QED
  BY <1>3, <1>4, <1>5

-----------------------------------------------------------------------------
(* The handlers: what each makes of the session, and its answer *)

TurnedAway(w, old) == w.url.route \in GuardedRoutes /\ ~old.is_authenticated

\* What the handler of w makes of the session it resolved.
Effect(w, old, new) ==
    /\ new \in Session
    /\ new.call_uuid = IF w.url.route \in {"ANSWER", "HANGUP_EVENT"}
                       THEN w.call_uuid ELSE old.call_uuid
    /\ new.is_authenticated <=> old.is_authenticated \/ CodeEntered(w)
    /\ new.otp_attempts = IF WrongCode(w) THEN CountUpTo(old.otp_attempts, MaxOtpAttempts)
                          ELSE old.otp_attempts
    /\ new.consecutive_unrecognized_inputs =
          IF Unrecognised(w) /\ ~TurnedAway(w, old)
          THEN CountUpTo(old.consecutive_unrecognized_inputs, MaxInvalidInputs)
          ELSE IF Recognised(w) /\ ~TurnedAway(w, old) THEN 0
          ELSE old.consecutive_unrecognized_inputs
    /\ Recreated(new) <=> Recreated(old)

\* The caller is asked, or has been asked too often without an answer.
Asks(w, new, stage) == new.stage = stage /\ (Unrecognised(w) => ~OutOfPatience(new))

Parts(w, new, stage) == new.stage = stage /\ Unrecognised(w) /\ OutOfPatience(new)

\* The answers of the handlers that anybody may reach, session by session id.
AnswersAnybody(w, s, old, new, doc) ==
    \/ /\ w.url.route = "ANSWER"
       /\ doc = BuildOtpPrompt(s) /\ new.stage = "awaiting_otp"
    \/ /\ w.url.route = "OTP_PROMPT"
       /\ \/ doc = BuildOtpPrompt(s) /\ Asks(w, new, "awaiting_otp")
          \/ doc = BuildGoodbye(None) /\ Parts(w, new, "failed")
    \/ /\ w.url.route = "OTP_VERIFY" /\ w.digits \in {"", "#"}
       /\ \/ doc = BuildOtpPrompt(s) /\ Asks(w, new, old.stage)
          \/ doc = BuildGoodbye(None) /\ Parts(w, new, "failed")
    \/ /\ CodeEntered(w)
       /\ doc = BuildOtpAccepted(s) /\ new.stage = "authenticated"
    \/ /\ WrongCode(w)
       /\ \/ /\ doc = BuildOtpPrompt(s) /\ new.stage = old.stage
             /\ ~AttemptsExhausted(new)
          \/ /\ doc = BuildTerminatingMessage("exhausted") /\ new.stage = "failed"
             /\ AttemptsExhausted(new)
    \/ /\ w.url.route = "ASSOCIATE_DIAL_STATUS"
       /\ \/ /\ w.dial_status = "completed"
             /\ doc = BuildGoodbye(LanguageFor(old, w)) /\ new.stage = "completed"
          \/ /\ w.dial_status # "completed"
             /\ doc = BuildAssociateUnavailable(s, LanguageFor(old, w))
             /\ new.stage = old.stage
    \/ /\ w.url.route = "HANGUP_EVENT" /\ doc = BuildEmptyResponse
    \/ /\ w.url.route = "FALLBACK"
       /\ doc = BuildTerminatingMessage("technical") /\ new.stage = "failed"

\* The answers past the access code, to an authenticated session.
AnswersPastCode(w, s, old, new, doc) ==
    \/ /\ w.url.route = "LANGUAGE_MENU"
       /\ \/ doc = BuildLanguageMenu(s) /\ Asks(w, new, "language_menu")
          \/ doc = BuildGoodbye(None) /\ Parts(w, new, "completed")
    \/ /\ w.url.route = "LANGUAGE_SELECT" /\ w.digits \notin {"1", "2"}
       /\ \/ doc = BuildLanguageMenu(s) /\ Asks(w, new, old.stage)
          \/ doc = BuildGoodbye(None) /\ Parts(w, new, "completed")
    \/ /\ w.url.route = "LANGUAGE_SELECT" /\ w.digits \in {"1", "2"}
       /\ doc = BuildMainMenu(s, FromMenuDigit(w.digits)) /\ new.stage = "main_menu"
    \/ /\ w.url.route = "MAIN_MENU"
       /\ \/ doc = BuildMainMenu(s, LanguageFor(old, w)) /\ Asks(w, new, "main_menu")
          \/ doc = BuildGoodbye(LanguageFor(old, w)) /\ Parts(w, new, "completed")
    \/ /\ w.url.route = "MAIN_MENU_SELECT" /\ w.digits = "1"
       /\ doc = BuildPlayAudioMessage(s, LanguageFor(old, w))
       /\ new.stage = "playing_audio"
    \/ /\ w.url.route = "MAIN_MENU_SELECT" /\ w.digits = "2"
       /\ doc = BuildConnectToAssociate(s, LanguageFor(old, w))
       /\ new.stage = "connecting_associate"
    \/ /\ w.url.route = "MAIN_MENU_SELECT" /\ w.digits \notin {"1", "2"}
       /\ \/ doc = BuildMainMenu(s, LanguageFor(old, w)) /\ Asks(w, new, old.stage)
          \/ doc = BuildGoodbye(LanguageFor(old, w)) /\ Parts(w, new, "completed")

Answers(w, s, old, new, doc) ==
    \/ AnswersAnybody(w, s, old, new, doc)
    \/ old.is_authenticated /\ AnswersPastCode(w, s, old, new, doc)
    \/ TurnedAway(w, old) /\ doc = BuildOtpPrompt(s) /\ new.stage = "awaiting_otp"

\* Some webhook of the call is handled, with such an effect and such an answer.
Handled(u) ==
    \E w \in inflight : \E r, session, doc :
        /\ w.call_uuid = u
        /\ r \in Resolve(w)
        /\ Resolved(w, r)
        /\ Effect(w, r.session, session)
        /\ Answers(w, r.session_id, r.session, session, doc)
        /\ Respond(w, r, session, doc)

\* What is known of any webhook being handled.
LEMMA HandlingFacts ==
    ASSUME Inv, NEW w \in inflight, NEW r \in Resolve(w)
    PROVE  /\ w \in Webhook
           /\ Resolved(w, r)
           /\ r.session_id \in SessionIds
           /\ r.session \in Session
<1>1. w \in Webhook
  BY DEF Inv, TypeOK
<1>2. Resolved(w, r)
  BY ResolveIsOwn DEF Inv
<1>3. QED
  BY <1>1, <1>2 DEF Resolved, Webhook, Url

\* The language a caller is answered in is one of the two.
LEMMA LanguageForType ==
    ASSUME NEW session \in Session, NEW w \in Webhook
    PROVE  LanguageFor(session, w) \in Languages
BY DEF LanguageFor, Session, Webhook, Url, Languages

\* A prompt reached by the redirect after silence counts it, another does not.
LEMMA CountSilenceType ==
    ASSUME NEW session \in Session, NEW w \in Webhook
    PROVE  LET heard == CountSilence(session, w)
           IN  /\ heard \in Session
               /\ Counts(heard, session, session.otp_attempts,
                     IF w.url.reason = "no_input"
                     THEN CountUpTo(session.consecutive_unrecognized_inputs, MaxInvalidInputs)
                     ELSE session.consecutive_unrecognized_inputs)
               /\ heard.stage = session.stage
<1>1. ParseReason(w.url.reason) = "no_input" <=> w.url.reason = "no_input"
  BY DocumentAssumption DEF ParseReason
<1>2. QED
  BY <1>1, RegisterUnrecognizedType DEF CountSilence, Counts

\* Whether a prompt gives up is decided by the count it leaves.
LEMMA RepeatedSilenceMeans ==
    ASSUME NEW session, NEW w \in Webhook
    PROVE  RepeatedSilence(session, w) <=> w.url.reason = "no_input" /\ OutOfPatience(session)
BY DocumentAssumption DEF RepeatedSilence, ParseReason

\* Sending an unauthenticated caller back (_redirect_to_authentication).
LEMMA RedirectHandled ==
    ASSUME Inv, NEW w \in inflight, NEW r \in Resolve(w), TurnedAway(w, r.session),
           RedirectToAuthentication(w, r)
    PROVE  Handled(w.call_uuid)
<1> DEFINE noted == RecordEvent(r.session, "authentication_required")
           session == AdvanceTo(noted, "awaiting_otp")
           doc == BuildOtpPrompt(r.session_id)
<1>1. Resolved(w, r) /\ r.session \in Session
  BY HandlingFacts
<1>2. noted \in Session /\ Kept(noted, r.session)
  BY <1>1, RecordEventType
<1> HIDE DEF noted
<1>3. /\ session \in Session /\ Kept(session, r.session)
      /\ session.stage = "awaiting_otp"
  BY <1>2, AdvanceToType DEF Kept, Counts, Stages
<1>4. Respond(w, r, session, doc)
  BY DEF RedirectToAuthentication, noted
<1> HIDE DEF session
<1>5. Effect(w, r.session, session)
  BY <1>3 DEF Effect, Kept, Counts, TurnedAway, GuardedRoutes, CodeEntered, WrongCode
<1>6. Answers(w, r.session_id, r.session, session, doc)
  BY <1>3 DEF Answers
<1>7. QED
  BY <1>1, <1>4, <1>5, <1>6 DEF Handled

\* The answer webhook attaches the call and asks for the code (handle_call_answered).
LEMMA CallAnsweredHandled ==
    ASSUME Inv, NEW u \in CallUuids, HandleCallAnswered(u)
    PROVE  Handled(u)
<1>1. PICK w, r :
         /\ w \in Pending(u, "ANSWER")
         /\ r \in Resolve(w)
         /\ Respond(w, r,
               AdvanceTo(RecordEvent(AdvanceTo(AttachPlivoIdentifiers(r.session, w), "answered"),
                                     "call_answered"), "awaiting_otp"),
               BuildOtpPrompt(r.session_id))
  BY DEF HandleCallAnswered
<1> DEFINE attached == AttachPlivoIdentifiers(r.session, w)
           answered == AdvanceTo(attached, "answered")
           noted == RecordEvent(answered, "call_answered")
           session == AdvanceTo(noted, "awaiting_otp")
           doc == BuildOtpPrompt(r.session_id)
<1>2. /\ w \in inflight /\ w.call_uuid = u /\ w.url.route = "ANSWER"
      /\ w \in Webhook /\ Resolved(w, r) /\ r.session \in Session
  BY <1>1, HandlingFacts DEF Pending
<1>3. Respond(w, r, session, doc)
  BY <1>1
<1>4. /\ attached \in Session
      /\ attached.call_uuid = w.call_uuid
      /\ attached.is_authenticated = r.session.is_authenticated
      /\ attached.otp_attempts = r.session.otp_attempts
      /\ attached.consecutive_unrecognized_inputs = r.session.consecutive_unrecognized_inputs
      /\ Recreated(attached) <=> Recreated(r.session)
  BY <1>2, AttachType
<1> HIDE DEF attached
<1>5. answered \in Session /\ Kept(answered, attached)
  BY <1>4, AdvanceToType DEF Stages
<1> HIDE DEF answered
<1>6. noted \in Session /\ Kept(noted, answered)
  BY <1>5, RecordEventType
<1> HIDE DEF noted
<1>7. session \in Session /\ Kept(session, noted) /\ session.stage = "awaiting_otp"
  BY <1>6, AdvanceToType DEF Stages
<1> HIDE DEF session
<1>8. Effect(w, r.session, session)
  BY <1>2, <1>4, <1>5, <1>6, <1>7
     DEF Effect, Kept, Counts, CodeEntered, WrongCode, Unrecognised, Recognised
<1>9. Answers(w, r.session_id, r.session, session, doc)
  BY <1>2, <1>7 DEF Answers, AnswersAnybody
<1>10. QED
  BY <1>1, <1>2, <1>3, <1>8, <1>9 DEF Handled

\* Asking again, or giving up on the caller (prompt_for_otp).
LEMMA PromptForOtpHandled ==
    ASSUME Inv, NEW u \in CallUuids, PromptForOtp(u)
    PROVE  Handled(u)
<1>1. PICK w, r :
         /\ w \in Pending(u, "OTP_PROMPT")
         /\ r \in Resolve(w)
         /\ LET heard == CountSilence(r.session, w)
            IN  \/ /\ RepeatedSilence(heard, w)
                   /\ Respond(w, r, AdvanceTo(heard, "failed"), BuildGoodbye(None))
                \/ /\ ~RepeatedSilence(heard, w)
                   /\ Respond(w, r, AdvanceTo(heard, "awaiting_otp"),
                              BuildOtpPrompt(r.session_id))
  BY DEF PromptForOtp
<1> DEFINE heard == CountSilence(r.session, w)
           count == IF w.url.reason = "no_input"
                    THEN CountUpTo(r.session.consecutive_unrecognized_inputs, MaxInvalidInputs)
                    ELSE r.session.consecutive_unrecognized_inputs
<1>2. /\ w \in inflight /\ w.call_uuid = u /\ w.url.route = "OTP_PROMPT"
      /\ w \in Webhook /\ Resolved(w, r) /\ r.session \in Session
  BY <1>1, HandlingFacts DEF Pending
<1>3. heard \in Session /\ Counts(heard, r.session, r.session.otp_attempts, count)
  BY <1>2, CountSilenceType
<1>4. RepeatedSilence(heard, w) <=> w.url.reason = "no_input" /\ OutOfPatience(heard)
  BY <1>2, RepeatedSilenceMeans
<1>5. \/ RepeatedSilence(heard, w) /\ Respond(w, r, AdvanceTo(heard, "failed"), BuildGoodbye(None))
      \/ /\ ~RepeatedSilence(heard, w)
         /\ Respond(w, r, AdvanceTo(heard, "awaiting_otp"), BuildOtpPrompt(r.session_id))
  BY <1>1
<1> HIDE DEF heard
<1>6. ASSUME NEW stage \in {"failed", "awaiting_otp"}
      PROVE  LET session == AdvanceTo(heard, stage)
             IN  /\ Effect(w, r.session, session) /\ session.stage = stage
                 /\ OutOfPatience(session) <=> OutOfPatience(heard)
  <2>1. /\ AdvanceTo(heard, stage) \in Session /\ Kept(AdvanceTo(heard, stage), heard)
        /\ AdvanceTo(heard, stage).stage = stage
    BY <1>3, AdvanceToType DEF Stages
  <2>2. QED
    BY <1>2, <1>3, <2>1 DEF Effect, Kept, Counts, CodeEntered, WrongCode, Unrecognised,
       Recognised, TurnedAway, GuardedRoutes, OutOfPatience
<1>7. \E session, doc :
         /\ Effect(w, r.session, session)
         /\ Answers(w, r.session_id, r.session, session, doc)
         /\ Respond(w, r, session, doc)
  BY <1>2, <1>4, <1>5, <1>6 DEF Answers, AnswersAnybody, Asks, Parts, Unrecognised
<1>8. QED
  BY <1>1, <1>2, <1>7 DEF Handled

\* An empty entry counts, and is asked for again or given up on (verify_otp).
LEMMA VerifyNothingHandled ==
    ASSUME Inv, NEW w \in inflight, NEW r \in Resolve(w), w.url.route = "OTP_VERIFY",
           VerifyNothingEntered(w, r)
    PROVE  Handled(w.call_uuid)
<1> DEFINE heard == RegisterNoInput(r.session)
           parted == AdvanceTo(heard, "failed")
           count == CountUpTo(r.session.consecutive_unrecognized_inputs, MaxInvalidInputs)
<1>1. w \in Webhook /\ Resolved(w, r) /\ r.session \in Session
  BY HandlingFacts
<1>2. w.digits \in {"", "#"}
  BY <1>1 DEF VerifyNothingEntered, NormalizeDtmfInput
<1>3. \/ OutOfPatience(heard) /\ Respond(w, r, parted, BuildGoodbye(None))
      \/ ~OutOfPatience(heard) /\ Respond(w, r, heard, BuildOtpPrompt(r.session_id))
  BY DEF VerifyNothingEntered
<1>4. /\ heard \in Session /\ Counts(heard, r.session, r.session.otp_attempts, count)
      /\ heard.stage = r.session.stage
  BY <1>1, RegisterUnrecognizedType
<1> HIDE DEF heard
<1>5. parted \in Session /\ Kept(parted, heard) /\ parted.stage = "failed"
  BY <1>4, AdvanceToType DEF Stages
<1> HIDE DEF parted
<1>6. Effect(w, r.session, heard) /\ Effect(w, r.session, parted)
  BY <1>2, <1>4, <1>5 DEF Effect, Kept, Counts, CodeEntered, WrongCode, Unrecognised,
     TurnedAway, GuardedRoutes
<1>7. OutOfPatience(parted) <=> OutOfPatience(heard)
  BY <1>5 DEF OutOfPatience, Kept, Counts
<1>8. \E session, doc :
         /\ Effect(w, r.session, session)
         /\ Answers(w, r.session_id, r.session, session, doc)
         /\ Respond(w, r, session, doc)
  BY <1>2, <1>3, <1>4, <1>5, <1>6, <1>7 DEF Answers, AnswersAnybody, Asks, Parts, Unrecognised
<1>9. QED
  BY <1>1, <1>8 DEF Handled

\* The one place a session becomes authenticated: the caller keyed the code.
LEMMA VerifyAcceptedHandled ==
    ASSUME Inv, NEW w \in inflight, NEW r \in Resolve(w), w.url.route = "OTP_VERIFY",
           VerifyAccepted(w, r)
    PROVE  Handled(w.call_uuid)
<1> DEFINE passed == RegisterSuccessfulOtp(r.session)
           session == AdvanceTo(passed, "authenticated")
           doc == BuildOtpAccepted(r.session_id)
<1>1. Resolved(w, r) /\ r.session \in Session
  BY HandlingFacts
<1>2. CodeEntered(w) /\ w.digits \in {"code", "code#"}
  BY DEF VerifyAccepted, IsCorrect, NormalizeDtmfInput, CodeEntered
<1>3. Respond(w, r, session, doc)
  BY DEF VerifyAccepted
<1>4. /\ passed \in Session
      /\ passed.call_uuid = r.session.call_uuid
      /\ passed.is_authenticated = TRUE
      /\ passed.otp_attempts = r.session.otp_attempts
      /\ passed.consecutive_unrecognized_inputs = 0
      /\ Recreated(passed) <=> Recreated(r.session)
  BY <1>1, RegisterSuccessfulOtpType
<1> HIDE DEF passed
<1>5. session \in Session /\ Kept(session, passed) /\ session.stage = "authenticated"
  BY <1>4, AdvanceToType DEF Stages
<1> HIDE DEF session
<1>6. Effect(w, r.session, session)
  BY <1>2, <1>4, <1>5 DEF Effect, Kept, Counts, WrongCode, Unrecognised, Recognised,
     TurnedAway, GuardedRoutes
<1>7. Answers(w, r.session_id, r.session, session, doc)
  BY <1>2, <1>5 DEF Answers, AnswersAnybody
<1>8. QED
  BY <1>1, <1>3, <1>6, <1>7 DEF Handled

\* A wrong code counts, and ends the call once there were too many (verify_otp).
LEMMA VerifyRejectedHandled ==
    ASSUME Inv, NEW w \in inflight, NEW r \in Resolve(w), w.url.route = "OTP_VERIFY",
           VerifyRejected(w, r)
    PROVE  Handled(w.call_uuid)
<1> DEFINE counted == RegisterFailedOtpAttempt(r.session)
           failed == AdvanceTo(counted, "failed")
           attempts == CountUpTo(r.session.otp_attempts, MaxOtpAttempts)
           exhausted == BuildTerminatingMessage("exhausted")
<1>1. Resolved(w, r) /\ r.session \in Session
  BY HandlingFacts
<1>2. WrongCode(w)
  BY DEF VerifyRejected, IsCorrect, NormalizeDtmfInput, WrongCode
<1>3. \/ AttemptsExhausted(counted) /\ Respond(w, r, failed, exhausted)
      \/ ~AttemptsExhausted(counted) /\ Respond(w, r, counted, BuildOtpPrompt(r.session_id))
  BY DEF VerifyRejected
<1>4. /\ counted \in Session /\ Counts(counted, r.session, attempts, 0)
      /\ counted.stage = r.session.stage
  BY <1>1, RegisterFailedOtpAttemptType
<1> HIDE DEF counted
<1>5. failed \in Session /\ Kept(failed, counted) /\ failed.stage = "failed"
  BY <1>4, AdvanceToType DEF Stages
<1> HIDE DEF failed
<1>6. Effect(w, r.session, counted) /\ Effect(w, r.session, failed)
  BY <1>2, <1>4, <1>5 DEF Effect, Kept, Counts, CodeEntered, WrongCode, Unrecognised,
     Recognised, TurnedAway, GuardedRoutes
<1>7. AttemptsExhausted(failed) <=> AttemptsExhausted(counted)
  BY <1>5 DEF AttemptsExhausted, Kept, Counts
<1>8. \E session, doc :
         /\ Effect(w, r.session, session)
         /\ Answers(w, r.session_id, r.session, session, doc)
         /\ Respond(w, r, session, doc)
  BY <1>2, <1>3, <1>4, <1>5, <1>6, <1>7 DEF Answers, AnswersAnybody
<1>9. QED
  BY <1>1, <1>8 DEF Handled

\* Whatever is entered (verify_otp).
LEMMA VerifyOtpHandled ==
    ASSUME Inv, NEW u \in CallUuids, VerifyOtp(u)
    PROVE  Handled(u)
<1>1. PICK w, r :
         /\ w \in inflight
         /\ w.call_uuid = u /\ w.url.route = "OTP_VERIFY"
         /\ r \in Resolve(w)
         /\ VerifyNothingEntered(w, r) \/ VerifyAccepted(w, r) \/ VerifyRejected(w, r)
  BY DEF VerifyOtp, Pending
<1>2. QED
  BY <1>1, VerifyNothingHandled, VerifyAcceptedHandled, VerifyRejectedHandled

\* The level-1 menu is for authenticated sessions (present_language_menu).
LEMMA LanguageMenuHandled ==
    ASSUME Inv, NEW u \in CallUuids, PresentLanguageMenu(u)
    PROVE  Handled(u)
<1>1. PICK w, r :
         /\ w \in Pending(u, "LANGUAGE_MENU")
         /\ r \in Resolve(w)
         /\ LET heard == CountSilence(r.session, w)
            IN  \/ ~r.session.is_authenticated /\ RedirectToAuthentication(w, r)
                \/ /\ r.session.is_authenticated
                   /\ RepeatedSilence(heard, w)
                   /\ Respond(w, r, AdvanceTo(heard, "completed"), BuildGoodbye(None))
                \/ /\ r.session.is_authenticated
                   /\ ~RepeatedSilence(heard, w)
                   /\ Respond(w, r, AdvanceTo(heard, "language_menu"),
                              BuildLanguageMenu(r.session_id))
  BY DEF PresentLanguageMenu
<1> DEFINE heard == CountSilence(r.session, w)
           count == IF w.url.reason = "no_input"
                    THEN CountUpTo(r.session.consecutive_unrecognized_inputs, MaxInvalidInputs)
                    ELSE r.session.consecutive_unrecognized_inputs
<1>2. /\ w \in inflight /\ w.call_uuid = u /\ w.url.route = "LANGUAGE_MENU"
      /\ w \in Webhook /\ Resolved(w, r) /\ r.session \in Session
  BY <1>1, HandlingFacts DEF Pending
<1>3. CASE ~r.session.is_authenticated
  <2>1. RedirectToAuthentication(w, r) /\ TurnedAway(w, r.session)
    BY <1>1, <1>2, <1>3 DEF TurnedAway, GuardedRoutes
  <2>2. QED
    BY <1>1, <1>2, <2>1, RedirectHandled
<1>4. CASE r.session.is_authenticated
  <2>1. heard \in Session /\ Counts(heard, r.session, r.session.otp_attempts, count)
    BY <1>2, CountSilenceType
  <2>2. RepeatedSilence(heard, w) <=> w.url.reason = "no_input" /\ OutOfPatience(heard)
    BY <1>2, RepeatedSilenceMeans
  <2>3. \/ /\ RepeatedSilence(heard, w)
           /\ Respond(w, r, AdvanceTo(heard, "completed"), BuildGoodbye(None))
        \/ /\ ~RepeatedSilence(heard, w)
           /\ Respond(w, r, AdvanceTo(heard, "language_menu"), BuildLanguageMenu(r.session_id))
    BY <1>1, <1>4
  <2> HIDE DEF heard
  <2>4. ASSUME NEW stage \in {"completed", "language_menu"}
        PROVE  LET session == AdvanceTo(heard, stage)
               IN  /\ Effect(w, r.session, session) /\ session.stage = stage
                   /\ OutOfPatience(session) <=> OutOfPatience(heard)
    <3>1. /\ AdvanceTo(heard, stage) \in Session /\ Kept(AdvanceTo(heard, stage), heard)
          /\ AdvanceTo(heard, stage).stage = stage
      BY <2>1, AdvanceToType DEF Stages
    <3>2. QED
      BY <1>2, <1>4, <2>1, <3>1 DEF Effect, Kept, Counts, CodeEntered, WrongCode,
         Unrecognised, Recognised, TurnedAway, OutOfPatience
  <2>5. \E session, doc :
           /\ Effect(w, r.session, session)
           /\ Answers(w, r.session_id, r.session, session, doc)
           /\ Respond(w, r, session, doc)
    BY <1>2, <1>4, <2>2, <2>3, <2>4
       DEF Answers, AnswersPastCode, Asks, Parts, Unrecognised
  <2>6. QED
    BY <1>1, <1>2, <2>5 DEF Handled
<1>5. QED
  BY <1>3, <1>4

\* An unknown key gets the level-1 menu again (_repeat_language_menu).
LEMMA RepeatLanguageMenuHandled ==
    ASSUME Inv, NEW w \in inflight, NEW r \in Resolve(w), w.url.route = "LANGUAGE_SELECT",
           w.digits \notin {"1", "2"}, r.session.is_authenticated, RepeatLanguageMenu(w, r)
    PROVE  Handled(w.call_uuid)
<1> DEFINE strayed == RegisterInvalidSelection(r.session)
           parted == AdvanceTo(strayed, "completed")
           count == CountUpTo(r.session.consecutive_unrecognized_inputs, MaxInvalidInputs)
<1>1. Resolved(w, r) /\ r.session \in Session
  BY HandlingFacts
<1>2. \/ OutOfPatience(strayed) /\ Respond(w, r, parted, BuildGoodbye(None))
      \/ ~OutOfPatience(strayed) /\ Respond(w, r, strayed, BuildLanguageMenu(r.session_id))
  BY DEF RepeatLanguageMenu
<1>3. /\ strayed \in Session /\ Counts(strayed, r.session, r.session.otp_attempts, count)
      /\ strayed.stage = r.session.stage
  BY <1>1, RegisterUnrecognizedType
<1> HIDE DEF strayed
<1>4. parted \in Session /\ Kept(parted, strayed) /\ parted.stage = "completed"
  BY <1>3, AdvanceToType DEF Stages
<1> HIDE DEF parted
<1>5. Effect(w, r.session, strayed) /\ Effect(w, r.session, parted)
  BY <1>3, <1>4 DEF Effect, Kept, Counts, CodeEntered, WrongCode, Unrecognised, TurnedAway
<1>6. OutOfPatience(parted) <=> OutOfPatience(strayed)
  BY <1>4 DEF OutOfPatience, Kept, Counts
<1>7. \E session, doc :
         /\ Effect(w, r.session, session)
         /\ Answers(w, r.session_id, r.session, session, doc)
         /\ Respond(w, r, session, doc)
  BY <1>2, <1>3, <1>4, <1>5, <1>6 DEF Answers, AnswersPastCode, Asks, Parts, Unrecognised
<1>8. QED
  BY <1>1, <1>7 DEF Handled

\* A language key leads to the level-2 menu in that language.
LEMMA LanguageChosenHandled ==
    ASSUME Inv, NEW w \in inflight, NEW r \in Resolve(w), w.url.route = "LANGUAGE_SELECT",
           w.digits \in {"1", "2"}, r.session.is_authenticated,
           Respond(w, r, AdvanceTo(SelectLanguage(r.session, FromMenuDigit(w.digits)), "main_menu"),
                   BuildMainMenu(r.session_id, FromMenuDigit(w.digits)))
    PROVE  Handled(w.call_uuid)
<1> DEFINE language == FromMenuDigit(w.digits)
           selected == SelectLanguage(r.session, language)
           session == AdvanceTo(selected, "main_menu")
           doc == BuildMainMenu(r.session_id, language)
<1>1. Resolved(w, r) /\ r.session \in Session
  BY HandlingFacts
<1>2. language \in Languages
  BY DEF FromMenuDigit, Languages
<1>3. selected \in Session /\ Counts(selected, r.session, r.session.otp_attempts, 0)
  BY <1>1, <1>2, LanguageType
<1>4. Respond(w, r, session, doc)
  OBVIOUS
<1> HIDE DEF selected
<1>5. session \in Session /\ Kept(session, selected) /\ session.stage = "main_menu"
  BY <1>3, AdvanceToType DEF Stages
<1> HIDE DEF session
<1>6. Effect(w, r.session, session)
  BY <1>3, <1>5 DEF Effect, Kept, Counts, CodeEntered, WrongCode, Unrecognised,
     Recognised, TurnedAway
<1>7. Answers(w, r.session_id, r.session, session, doc)
  BY <1>5 DEF Answers, AnswersPastCode
<1>8. QED
  BY <1>1, <1>4, <1>6, <1>7 DEF Handled

\* Choosing is for authenticated sessions too (handle_language_selection).
LEMMA LanguageSelectionHandled ==
    ASSUME Inv, NEW u \in CallUuids, HandleLanguageSelection(u)
    PROVE  Handled(u)
<1>1. PICK w, r :
         /\ w \in Pending(u, "LANGUAGE_SELECT")
         /\ r \in Resolve(w)
         /\ LET language == FromMenuDigit(w.digits)
            IN  \/ ~r.session.is_authenticated /\ RedirectToAuthentication(w, r)
                \/ /\ r.session.is_authenticated
                   /\ language = None
                   /\ RepeatLanguageMenu(w, r)
                \/ /\ r.session.is_authenticated
                   /\ language # None
                   /\ Respond(w, r, AdvanceTo(SelectLanguage(r.session, language), "main_menu"),
                              BuildMainMenu(r.session_id, language))
  BY DEF HandleLanguageSelection
<1>2. w \in inflight /\ w.call_uuid = u /\ w.url.route = "LANGUAGE_SELECT"
  BY <1>1 DEF Pending
<1>3. FromMenuDigit(w.digits) # None <=> w.digits \in {"1", "2"}
  BY SessionAssumption DEF FromMenuDigit, Languages
<1>4. ~r.session.is_authenticated => TurnedAway(w, r.session)
  BY <1>2 DEF TurnedAway, GuardedRoutes
<1>5. QED
  BY <1>1, <1>2, <1>3, <1>4, RedirectHandled, RepeatLanguageMenuHandled,
     LanguageChosenHandled

\* The level-2 menu is for authenticated sessions (present_main_menu).
LEMMA MainMenuHandled ==
    ASSUME Inv, NEW u \in CallUuids, PresentMainMenu(u)
    PROVE  Handled(u)
<1>1. PICK w, r :
         /\ w \in Pending(u, "MAIN_MENU")
         /\ r \in Resolve(w)
         /\ LET language == LanguageFor(r.session, w)
                spoken == IF r.session.language = None
                          THEN [r.session EXCEPT !.language = language] ELSE r.session
                heard == CountSilence(spoken, w)
            IN  \/ ~r.session.is_authenticated /\ RedirectToAuthentication(w, r)
                \/ /\ r.session.is_authenticated
                   /\ RepeatedSilence(heard, w)
                   /\ Respond(w, r, AdvanceTo(heard, "completed"), BuildGoodbye(language))
                \/ /\ r.session.is_authenticated
                   /\ ~RepeatedSilence(heard, w)
                   /\ Respond(w, r, AdvanceTo(heard, "main_menu"),
                              BuildMainMenu(r.session_id, language))
  BY DEF PresentMainMenu
<1> DEFINE language == LanguageFor(r.session, w)
           spoken == IF r.session.language = None
                     THEN [r.session EXCEPT !.language = language] ELSE r.session
           heard == CountSilence(spoken, w)
           count == IF w.url.reason = "no_input"
                    THEN CountUpTo(r.session.consecutive_unrecognized_inputs, MaxInvalidInputs)
                    ELSE r.session.consecutive_unrecognized_inputs
<1>2. /\ w \in inflight /\ w.call_uuid = u /\ w.url.route = "MAIN_MENU"
      /\ w \in Webhook /\ Resolved(w, r) /\ r.session \in Session
  BY <1>1, HandlingFacts DEF Pending
<1>3. CASE ~r.session.is_authenticated
  <2>1. RedirectToAuthentication(w, r) /\ TurnedAway(w, r.session)
    BY <1>1, <1>2, <1>3 DEF TurnedAway, GuardedRoutes
  <2>2. QED
    BY <1>1, <1>2, <2>1, RedirectHandled
<1>4. CASE r.session.is_authenticated
  <2>1. language \in Languages
    BY <1>2, LanguageForType
  <2>2. \/ /\ RepeatedSilence(heard, w)
           /\ Respond(w, r, AdvanceTo(heard, "completed"), BuildGoodbye(language))
        \/ /\ ~RepeatedSilence(heard, w)
           /\ Respond(w, r, AdvanceTo(heard, "main_menu"), BuildMainMenu(r.session_id, language))
    BY <1>1, <1>4
  <2>3. spoken \in Session /\ Kept(spoken, r.session)
    BY <1>2, <2>1, LanguageType DEF Kept, Counts
  <2> HIDE DEF spoken
  <2>4. heard \in Session /\ Counts(heard, r.session, r.session.otp_attempts, count)
    BY <1>2, <2>3, CountSilenceType DEF Kept, Counts
  <2>5. RepeatedSilence(heard, w) <=> w.url.reason = "no_input" /\ OutOfPatience(heard)
    BY <1>2, RepeatedSilenceMeans
  <2> HIDE DEF heard
  <2>6. ASSUME NEW stage \in {"completed", "main_menu"}
        PROVE  LET session == AdvanceTo(heard, stage)
               IN  /\ Effect(w, r.session, session) /\ session.stage = stage
                   /\ OutOfPatience(session) <=> OutOfPatience(heard)
    <3>1. /\ AdvanceTo(heard, stage) \in Session /\ Kept(AdvanceTo(heard, stage), heard)
          /\ AdvanceTo(heard, stage).stage = stage
      BY <2>4, AdvanceToType DEF Stages
    <3>2. QED
      BY <1>2, <1>4, <2>4, <3>1 DEF Effect, Kept, Counts, CodeEntered, WrongCode,
         Unrecognised, Recognised, TurnedAway, OutOfPatience
  <2>7. \E session, doc :
           /\ Effect(w, r.session, session)
           /\ Answers(w, r.session_id, r.session, session, doc)
           /\ Respond(w, r, session, doc)
    BY <1>2, <1>4, <2>2, <2>5, <2>6
       DEF Answers, AnswersPastCode, Asks, Parts, Unrecognised
  <2>8. QED
    BY <1>1, <1>2, <2>7 DEF Handled
<1>5. QED
  BY <1>3, <1>4

\* Options 1 and 2 of the main menu (_play_audio, _connect_associate).
LEMMA MenuOptionHandled ==
    ASSUME Inv, NEW w \in inflight, NEW r \in Resolve(w), w.url.route = "MAIN_MENU_SELECT",
           r.session.is_authenticated,
           \/ w.digits = "1" /\ PlayAudio(w, r)
           \/ w.digits = "2" /\ ConnectAssociate(w, r)
    PROVE  Handled(w.call_uuid)
<1> DEFINE reset == ResetUnrecognizedInputs(r.session)
           language == LanguageFor(r.session, w)
           playing == AdvanceTo(reset, "playing_audio")
           connecting == AdvanceTo(reset, "connecting_associate")
           played == RecordEvent(playing, "audio_message_started")
           connected == RecordEvent(connecting, "associate_transfer_started")
<1>1. w \in Webhook /\ Resolved(w, r) /\ r.session \in Session
  BY HandlingFacts
<1>2. \/ w.digits = "1" /\ Respond(w, r, played, BuildPlayAudioMessage(r.session_id, language))
      \/ w.digits = "2" /\ Respond(w, r, connected, BuildConnectToAssociate(r.session_id, language))
  BY DEF PlayAudio, ConnectAssociate
<1>3. reset \in Session /\ Counts(reset, r.session, r.session.otp_attempts, 0)
  BY <1>1, ResetUnrecognizedInputsType
<1> HIDE DEF reset
<1>4. /\ playing \in Session /\ Kept(playing, reset) /\ playing.stage = "playing_audio"
      /\ connecting \in Session /\ Kept(connecting, reset)
      /\ connecting.stage = "connecting_associate"
  BY <1>3, AdvanceToType DEF Stages
<1> HIDE DEF playing, connecting
<1>5. /\ played \in Session /\ Kept(played, playing) /\ played.stage = "playing_audio"
      /\ connected \in Session /\ Kept(connected, connecting)
      /\ connected.stage = "connecting_associate"
  BY <1>4, RecordEventType
<1> HIDE DEF played, connected
<1>6. w.digits \in {"1", "2"}
  BY <1>2
<1>7. Effect(w, r.session, played) /\ Effect(w, r.session, connected)
  BY <1>3, <1>4, <1>5, <1>6 DEF Effect, Kept, Counts, CodeEntered, WrongCode, Unrecognised,
     Recognised, TurnedAway
<1>8. \E session, doc :
         /\ Effect(w, r.session, session)
         /\ Answers(w, r.session_id, r.session, session, doc)
         /\ Respond(w, r, session, doc)
  BY <1>2, <1>5, <1>7 DEF Answers, AnswersPastCode
<1>9. QED
  BY <1>1, <1>8 DEF Handled

\* A stray key gets the menu again or the goodbye (_repeat_main_menu).
LEMMA RepeatMainMenuHandled ==
    ASSUME Inv, NEW w \in inflight, NEW r \in Resolve(w), w.url.route = "MAIN_MENU_SELECT",
           w.digits \notin {"1", "2"}, r.session.is_authenticated, RepeatMainMenu(w, r)
    PROVE  Handled(w.call_uuid)
<1> DEFINE strayed == RegisterInvalidSelection(r.session)
           parted == AdvanceTo(strayed, "completed")
           language == LanguageFor(r.session, w)
           count == CountUpTo(r.session.consecutive_unrecognized_inputs, MaxInvalidInputs)
<1>1. Resolved(w, r) /\ r.session \in Session
  BY HandlingFacts
<1>2. \/ OutOfPatience(strayed) /\ Respond(w, r, parted, BuildGoodbye(language))
      \/ ~OutOfPatience(strayed) /\ Respond(w, r, strayed, BuildMainMenu(r.session_id, language))
  BY DEF RepeatMainMenu
<1>3. /\ strayed \in Session /\ Counts(strayed, r.session, r.session.otp_attempts, count)
      /\ strayed.stage = r.session.stage
  BY <1>1, RegisterUnrecognizedType
<1> HIDE DEF strayed
<1>4. parted \in Session /\ Kept(parted, strayed) /\ parted.stage = "completed"
  BY <1>3, AdvanceToType DEF Stages
<1> HIDE DEF parted
<1>5. Effect(w, r.session, strayed) /\ Effect(w, r.session, parted)
  BY <1>3, <1>4 DEF Effect, Kept, Counts, CodeEntered, WrongCode, Unrecognised, TurnedAway
<1>6. OutOfPatience(parted) <=> OutOfPatience(strayed)
  BY <1>4 DEF OutOfPatience, Kept, Counts
<1>7. \E session, doc :
         /\ Effect(w, r.session, session)
         /\ Answers(w, r.session_id, r.session, session, doc)
         /\ Respond(w, r, session, doc)
  BY <1>2, <1>3, <1>4, <1>5, <1>6 DEF Answers, AnswersPastCode, Asks, Parts, Unrecognised
<1>8. QED
  BY <1>1, <1>7 DEF Handled

\* Nothing on the menu is for others (handle_main_menu_selection).
LEMMA MainMenuSelectionHandled ==
    ASSUME Inv, NEW u \in CallUuids, HandleMainMenuSelection(u)
    PROVE  Handled(u)
<1>1. PICK w, r :
         /\ w \in Pending(u, "MAIN_MENU_SELECT")
         /\ r \in Resolve(w)
         /\ \/ ~r.session.is_authenticated /\ RedirectToAuthentication(w, r)
            \/ /\ r.session.is_authenticated
               /\ \/ w.digits = "1" /\ PlayAudio(w, r)
                  \/ w.digits = "2" /\ ConnectAssociate(w, r)
            \/ /\ r.session.is_authenticated
               /\ w.digits \notin {"1", "2"} /\ RepeatMainMenu(w, r)
  BY DEF HandleMainMenuSelection
<1>2. w \in inflight /\ w.call_uuid = u /\ w.url.route = "MAIN_MENU_SELECT"
  BY <1>1 DEF Pending
<1>3. ~r.session.is_authenticated => TurnedAway(w, r.session)
  BY <1>2 DEF TurnedAway, GuardedRoutes
<1>4. CASE ~r.session.is_authenticated
  BY <1>1, <1>2, <1>3, <1>4, RedirectHandled
<1>5. CASE r.session.is_authenticated /\ w.digits \in {"1", "2"}
  BY <1>1, <1>2, <1>5, MenuOptionHandled
<1>6. CASE r.session.is_authenticated /\ w.digits \notin {"1", "2"}
  BY <1>1, <1>2, <1>6, RepeatMainMenuHandled
<1>7. QED
  BY <1>4, <1>5, <1>6

\* The endpoint that does not check (handle_associate_dial_status).
LEMMA DialStatusHandled ==
    ASSUME Inv, NEW u \in CallUuids, HandleAssociateDialStatus(u)
    PROVE  Handled(u)
<1>1. PICK w, r :
         /\ w \in Pending(u, "ASSOCIATE_DIAL_STATUS")
         /\ r \in Resolve(w)
         /\ LET noted == RecordEvent(r.session, "associate_dial_finished")
                language == LanguageFor(r.session, w)
            IN  \/ /\ w.dial_status = "completed"
                   /\ Respond(w, r, AdvanceTo(noted, "completed"), BuildGoodbye(language))
                \/ /\ w.dial_status # "completed"
                   /\ Respond(w, r, noted, BuildAssociateUnavailable(r.session_id, language))
  BY DEF HandleAssociateDialStatus
<1> DEFINE noted == RecordEvent(r.session, "associate_dial_finished")
           closed == AdvanceTo(noted, "completed")
<1>2. /\ w \in inflight /\ w.call_uuid = u /\ w.url.route = "ASSOCIATE_DIAL_STATUS"
      /\ Resolved(w, r) /\ r.session \in Session
  BY <1>1, HandlingFacts DEF Pending
<1>3. \/ /\ w.dial_status = "completed"
         /\ Respond(w, r, closed, BuildGoodbye(LanguageFor(r.session, w)))
      \/ /\ w.dial_status # "completed"
         /\ Respond(w, r, noted, BuildAssociateUnavailable(r.session_id, LanguageFor(r.session, w)))
  BY <1>1
<1>4. noted \in Session /\ Kept(noted, r.session) /\ noted.stage = r.session.stage
  BY <1>2, RecordEventType
<1> HIDE DEF noted
<1>5. closed \in Session /\ Kept(closed, noted) /\ closed.stage = "completed"
  BY <1>4, AdvanceToType DEF Stages
<1> HIDE DEF closed
<1>6. Effect(w, r.session, noted) /\ Effect(w, r.session, closed)
  BY <1>2, <1>4, <1>5 DEF Effect, Kept, Counts, CodeEntered, WrongCode, Unrecognised,
     Recognised, TurnedAway
<1>7. \E session, doc :
         /\ Effect(w, r.session, session)
         /\ Answers(w, r.session_id, r.session, session, doc)
         /\ Respond(w, r, session, doc)
  BY <1>2, <1>3, <1>4, <1>5, <1>6 DEF Answers, AnswersAnybody
<1>8. QED
  BY <1>1, <1>2, <1>7 DEF Handled

\* The hangup webhook attaches the call, closes it and says nothing
\* (handle_hangup_event).
LEMMA HangupEventHandled ==
    ASSUME Inv, NEW u \in CallUuids, HandleHangupEvent(u)
    PROVE  Handled(u)
<1>1. PICK w, r :
         /\ w \in Pending(u, "HANGUP_EVENT")
         /\ r \in Resolve(w)
         /\ LET noted == RecordEvent(AttachPlivoIdentifiers(r.session, w), "call_ended")
            IN  \/ Respond(w, r, noted, BuildEmptyResponse)
                \/ Respond(w, r, AdvanceTo(noted, "completed"), BuildEmptyResponse)
  BY DEF HandleHangupEvent
<1> DEFINE attached == AttachPlivoIdentifiers(r.session, w)
           noted == RecordEvent(attached, "call_ended")
           closed == AdvanceTo(noted, "completed")
<1>2. /\ w \in inflight /\ w.call_uuid = u /\ w.url.route = "HANGUP_EVENT"
      /\ w \in Webhook /\ Resolved(w, r) /\ r.session \in Session
  BY <1>1, HandlingFacts DEF Pending
<1>3. \/ Respond(w, r, noted, BuildEmptyResponse)
      \/ Respond(w, r, closed, BuildEmptyResponse)
  BY <1>1
<1>4. /\ attached \in Session
      /\ attached.call_uuid = w.call_uuid
      /\ attached.is_authenticated = r.session.is_authenticated
      /\ attached.otp_attempts = r.session.otp_attempts
      /\ attached.consecutive_unrecognized_inputs = r.session.consecutive_unrecognized_inputs
      /\ Recreated(attached) <=> Recreated(r.session)
  BY <1>2, AttachType
<1> HIDE DEF attached
<1>5. noted \in Session /\ Kept(noted, attached)
  BY <1>4, RecordEventType
<1> HIDE DEF noted
<1>6. closed \in Session /\ Kept(closed, noted)
  BY <1>5, AdvanceToType DEF Stages
<1> HIDE DEF closed
<1>7. Effect(w, r.session, noted) /\ Effect(w, r.session, closed)
  BY <1>2, <1>4, <1>5, <1>6 DEF Effect, Kept, Counts, CodeEntered, WrongCode, Unrecognised,
     Recognised, TurnedAway
<1>8. \A session : Answers(w, r.session_id, r.session, session, BuildEmptyResponse)
  BY <1>2 DEF Answers, AnswersAnybody
<1>9. QED
  BY <1>1, <1>2, <1>3, <1>7, <1>8 DEF Handled

\* The fallback only apologises (handle_fallback).
LEMMA FallbackHandled ==
    ASSUME Inv, NEW u \in CallUuids, HandleFallback(u)
    PROVE  Handled(u)
<1>1. PICK w, r :
         /\ w \in Pending(u, "FALLBACK")
         /\ r \in Resolve(w)
         /\ Respond(w, r, RecordEvent(AdvanceTo(r.session, "failed"), "fallback_invoked"),
                    BuildTerminatingMessage("technical"))
  BY DEF HandleFallback
<1> DEFINE failed == AdvanceTo(r.session, "failed")
           session == RecordEvent(failed, "fallback_invoked")
           doc == BuildTerminatingMessage("technical")
<1>2. /\ w \in inflight /\ w.call_uuid = u /\ w.url.route = "FALLBACK"
      /\ Resolved(w, r) /\ r.session \in Session
  BY <1>1, HandlingFacts DEF Pending
<1>3. Respond(w, r, session, doc)
  BY <1>1
<1>4. failed \in Session /\ Kept(failed, r.session) /\ failed.stage = "failed"
  BY <1>2, AdvanceToType DEF Stages
<1> HIDE DEF failed
<1>5. session \in Session /\ Kept(session, failed) /\ session.stage = "failed"
  BY <1>4, RecordEventType
<1> HIDE DEF session
<1>6. Effect(w, r.session, session)
  BY <1>2, <1>4, <1>5 DEF Effect, Kept, Counts, CodeEntered, WrongCode, Unrecognised,
     Recognised, TurnedAway
<1>7. Answers(w, r.session_id, r.session, session, doc)
  BY <1>2, <1>5 DEF Answers, AnswersAnybody
<1>8. QED
  BY <1>1, <1>2, <1>3, <1>6, <1>7 DEF Handled

\* Every handler is a Respond with the effect and the answer its route stands for.
LEMMA HandleHandled ==
    ASSUME Inv, NEW u \in CallUuids, Handle(u)
    PROVE  Handled(u)
BY CallAnsweredHandled, PromptForOtpHandled, VerifyOtpHandled, LanguageMenuHandled,
   LanguageSelectionHandled, MainMenuHandled, MainMenuSelectionHandled,
   DialStatusHandled, HangupEventHandled, FallbackHandled
   DEF Handle

-----------------------------------------------------------------------------
(* What of a handler's effect and answer the gate depends on *)

\* The session stays on its call, and neither becomes authenticated nor is
\* answered with something protected without the access code.
Allowed(w, r, session, doc) ==
    /\ session \in Session
    /\ session.call_uuid \in {r.session.call_uuid, w.call_uuid}
    /\ session.is_authenticated => r.session.is_authenticated \/ CodeEntered(w)
    /\ Carries(doc, r.session_id)
    /\ doc.says \in Protected => session.is_authenticated

\* What anybody may hear: the prompt for the code and the ways a call ends.
LEMMA SaysOpen ==
    ASSUME NEW s, NEW language, NEW message \in {"exhausted", "technical"}
    PROVE  /\ BuildOtpPrompt(s).says \notin Protected
           /\ BuildAssociateUnavailable(s, language).says \notin Protected
           /\ BuildGoodbye(language).says \notin Protected
           /\ BuildTerminatingMessage(message).says \notin Protected
           /\ BuildEmptyResponse.says \notin Protected
BY DEF Protected, Speak, BuildOtpPrompt, BuildAssociateUnavailable, BuildGoodbye,
       BuildTerminatingMessage, BuildEmptyResponse

\* Every answer is one of the documents of the flow, for the session resolved.
LEMMA AnswersCarry ==
    ASSUME NEW w \in Webhook, NEW s \in SessionIds, NEW old \in Session, NEW new, NEW doc,
           Answers(w, s, old, new, doc)
    PROVE  Carries(doc, s)
<1>1. LanguageFor(old, w) \in Languages
  BY LanguageForType
<1>2. w.digits \in {"1", "2"} => FromMenuDigit(w.digits) \in Languages
  BY DEF FromMenuDigit, Languages
<1>3. /\ Carries(BuildOtpPrompt(s), s)
      /\ Carries(BuildOtpAccepted(s), s)
      /\ Carries(BuildLanguageMenu(s), s)
      /\ \A language \in Languages :
            /\ Carries(BuildMainMenu(s, language), s)
            /\ Carries(BuildPlayAudioMessage(s, language), s)
            /\ Carries(BuildConnectToAssociate(s, language), s)
            /\ Carries(BuildAssociateUnavailable(s, language), s)
  BY BuildersCarry DEF Languages
<1>4. /\ \A language \in Languages \cup {None} : Carries(BuildGoodbye(language), s)
      /\ Carries(BuildTerminatingMessage("exhausted"), s)
      /\ Carries(BuildTerminatingMessage("technical"), s)
      /\ Carries(BuildEmptyResponse, s)
  BY EndingsCarry
<1>5. CASE AnswersAnybody(w, s, old, new, doc)
  BY <1>1, <1>3, <1>4, <1>5 DEF AnswersAnybody
<1>6. CASE AnswersPastCode(w, s, old, new, doc)
  BY <1>1, <1>2, <1>3, <1>4, <1>6 DEF AnswersPastCode
<1>7. QED
  BY <1>3, <1>5, <1>6 DEF Answers

\* A handler's effect and answer are within what the gate allows.
LEMMA HandlingAllowed ==
    ASSUME Inv, NEW w \in inflight, NEW r, Resolved(w, r), NEW session, NEW doc,
           Effect(w, r.session, session),
           Answers(w, r.session_id, r.session, session, doc)
    PROVE  Allowed(w, r, session, doc)
<1>1. w \in Webhook /\ r.session_id \in SessionIds /\ r.session \in Session
  BY DEF Inv, TypeOK, Resolved, Webhook, Url
<1>2. Carries(doc, r.session_id)
  BY <1>1, AnswersCarry
<1>3. doc.says \in Protected => session.is_authenticated
  <2>1. CASE AnswersAnybody(w, r.session_id, r.session, session, doc)
    BY <2>1, SaysOpen DEF AnswersAnybody, Effect
  <2>2. CASE ~AnswersAnybody(w, r.session_id, r.session, session, doc)
    BY <2>2, SaysOpen DEF Answers, Effect
  <2>3. QED
    BY <2>1, <2>2
<1>4. QED
  BY <1>2, <1>3 DEF Allowed, Effect

-----------------------------------------------------------------------------
(* A handler keeps the invariant, and serves nothing protected to a caller  *)
(* who is not verified.                                                     *)

\* The step serves nothing past the access code but to verified callers.
GateStep ==
    \A u \in CallUuids :
        Served(u) /\ calls'[u].doc.says \in Protected => u \in verified'

\* The store after a handler: the call's own session as saved, and otherwise
\* nothing that was not there before.
LEMMA RespondStore ==
    ASSUME Inv, NEW w \in inflight, NEW r, NEW session, NEW doc,
           Resolved(w, r), Allowed(w, r, session, doc), Respond(w, r, session, doc)
    PROVE  /\ store' \in Store
           /\ store'.sessions[r.session_id] = Touch(session)
           /\ \A s \in SessionIds \ {r.session_id} :
                 store'.sessions[s] \in {None, store.sessions[s]}
           /\ StoreFits(store', Owner)
<1> DEFINE id == r.session_id
           touched == Touch(session)
<1>1. /\ w \in Webhook /\ w.call_uuid \in CallUuids /\ id \in SessionIds
      /\ Owner[w.call_uuid] = id
      /\ StoreFits(store, Owner) /\ store \in Store
  BY DEF Inv, TypeOK, WebhooksFit, Owner, Webhook, Url, Resolved
<1>2. /\ touched \in Session
      /\ touched.call_uuid \in {r.session.call_uuid, w.call_uuid}
      /\ touched.call_uuid \in CallUuids \cup {None}
  BY TouchType DEF Allowed, Kept, Counts, Session
<1>3. store' = Put(r.store, id, touched) /\ r.store \in Store
  BY DEF Respond, Save, Resolved
<1>4. /\ store' \in Store
      /\ store'.sessions[id] = touched
      /\ \A s \in SessionIds \ {id} : store'.sessions[s] = r.store.sessions[s]
      /\ \A u \in CallUuids :
            store'.call_uuid_index[u] =
                IF u = touched.call_uuid THEN id ELSE r.store.call_uuid_index[u]
  BY <1>1, <1>2, <1>3, PutType
<1>5. touched.call_uuid # None => Owner[touched.call_uuid] = id
  <2>1. CASE r.found = TRUE
    <3>1. r.session = store.sessions[id] /\ store.sessions[id] # None
      BY <1>1, <2>1, SessionAssumption DEF Resolved, Shrinks
    <3>2. QED
      BY <1>1, <1>2, <3>1 DEF StoreFits
  <2>2. CASE r.found = FALSE
    BY <1>1, <1>2, <2>2 DEF Resolved
  <2>3. QED
    BY <2>1, <2>2 DEF Resolved
<1>6. /\ \A s \in SessionIds \ {id} : r.store.sessions[s] \in {None, store.sessions[s]}
      /\ \A u \in CallUuids :
            \/ r.store.call_uuid_index[u] \in {None, store.call_uuid_index[u]}
            \/ u = w.call_uuid /\ r.store.call_uuid_index[u] = id
  <2>1. CASE r.found = TRUE
    BY <2>1 DEF Resolved, Shrinks
  <2>2. CASE r.found = FALSE
    <3>1. PICK room : Shrinks(room, store) /\ r.store = Put(room, id, r.session)
      BY <2>2 DEF Resolved
    <3>2. r.session.call_uuid = w.call_uuid /\ r.session \in Session /\ room \in Store
      BY <2>2, <3>1 DEF Resolved, Shrinks
    <3>3. QED
      BY <1>1, <3>1, <3>2, PutType DEF Shrinks
  <2>3. QED
    BY <2>1, <2>2 DEF Resolved
<1>7. StoreFits(store', Owner)
  <2>1. ASSUME NEW s \in SessionIds, store'.sessions[s] # None,
               store'.sessions[s].call_uuid # None
        PROVE  Owner[store'.sessions[s].call_uuid] = s
    <3>1. CASE s = id
      BY <1>4, <1>5, <2>1, <3>1
    <3>2. CASE s # id
      <4>1. store'.sessions[s] = store.sessions[s]
        BY <1>4, <1>6, <2>1, <3>2
      <4>2. QED
        BY <1>1, <2>1, <4>1 DEF StoreFits
    <3>3. QED
      BY <3>1, <3>2
  <2>2. ASSUME NEW u \in CallUuids
        PROVE  store'.call_uuid_index[u] \in {None, Owner[u]}
    <3>1. CASE u = touched.call_uuid
      <4>1. touched.call_uuid # None
        BY <3>1, SessionAssumption
      <4>2. QED
        BY <1>4, <1>5, <3>1, <4>1
    <3>2. CASE u # touched.call_uuid
      BY <1>1, <1>4, <1>6, <3>2 DEF StoreFits
    <3>3. QED
      BY <3>1, <3>2
  <2>3. QED
    BY <2>1, <2>2 DEF StoreFits
<1>8. QED
  BY <1>4, <1>6, <1>7

\* A call is given the document it waits for, or nothing changes on it.
LEMMA RespondCalls ==
    ASSUME Inv, NEW w \in inflight, NEW r, NEW session, NEW doc,
           Resolved(w, r), Allowed(w, r, session, doc), Respond(w, r, session, doc)
    PROVE  /\ calls' \in [CallUuids -> Call]
           /\ \A u \in CallUuids :
                 /\ calls'[u].session_id = calls[u].session_id
                 /\ calls'[u].status = calls[u].status
                 /\ \/ /\ calls'[u].doc = calls[u].doc
                       /\ calls'[u].awaiting = calls[u].awaiting
                    \/ /\ u = w.call_uuid
                       /\ calls[u].awaiting = w
                       /\ calls'[u].doc = doc
                       /\ calls'[u].awaiting = None
<1>1. calls \in [CallUuids -> Call] /\ w.call_uuid \in CallUuids /\ doc \in Document
  BY DEF Inv, TypeOK, Webhook, Allowed, Carries
<1>2. CASE calls[w.call_uuid].awaiting = w
  <2> DEFINE u == w.call_uuid
             given == [calls EXCEPT ![u].doc = doc]
  <2>1. given \in [CallUuids -> Call] /\ given[u].doc = doc
        /\ given[u].session_id = calls[u].session_id /\ given[u].status = calls[u].status
    BY <1>1 DEF Call
  <2>2. calls' = [given EXCEPT ![u].awaiting = None]
    BY <1>2 DEF Respond
  <2>3. calls' \in [CallUuids -> Call]
    BY <1>1, <2>1, <2>2 DEF Call
  <2>4. /\ calls'[u].doc = doc /\ calls'[u].awaiting = None
        /\ calls'[u].session_id = calls[u].session_id
        /\ calls'[u].status = calls[u].status
    BY <1>1, <2>1, <2>2 DEF Call
  <2>5. \A v \in CallUuids \ {u} : calls'[v] = calls[v]
    BY <1>1, <2>2
  <2>6. QED
    BY <1>2, <2>3, <2>4, <2>5
<1>3. CASE calls[w.call_uuid].awaiting # w
  BY <1>1, <1>3 DEF Respond
<1>4. QED
  BY <1>2, <1>3

\* An authenticated session is saved for a verified caller only.
LEMMA RespondVerified ==
    ASSUME Inv, NEW w \in inflight, NEW r, NEW session, NEW doc,
           Resolved(w, r), Allowed(w, r, session, doc), Respond(w, r, session, doc),
           session.is_authenticated
    PROVE  w.call_uuid \in verified'
<1> DEFINE u == w.call_uuid
           id == r.session_id
<1>1. /\ u \in CallUuids /\ id \in SessionIds
      /\ calls[u].session_id = id /\ Owner[u] = id
  BY DEF Inv, TypeOK, WebhooksFit, Webhook, Url, Resolved, Owner
<1>2. CASE CodeEntered(w)
  BY <1>2 DEF Respond
<1>3. CASE ~CodeEntered(w)
  <2>1. r.session.is_authenticated
    BY <1>3 DEF Allowed
  <2>2. /\ r.found = TRUE
        /\ r.session = store.sessions[id] /\ store.sessions[id] # None
    BY <1>1, <2>1, SessionAssumption DEF Resolved, Shrinks
  <2>3. u \in verified
    BY <1>1, <2>1, <2>2 DEF Inv, AuthFits
  <2>4. store'.sessions[id] # None
    BY RespondStore, TouchType, SessionAssumption DEF Allowed
  <2>5. u \in StillVerified(store')
    BY <1>1, <2>3, <2>4 DEF StillVerified, Stored
  <2>6. QED
    BY <2>2, <2>5 DEF Respond
<1>4. QED
  BY <1>2, <1>3

\* A handler keeps the invariant and the gate.
LEMMA HandledKeeps ==
    ASSUME Inv, NEW u \in CallUuids, Handled(u)
    PROVE  Inv' /\ GateStep
<1>0. PICK w \in inflight : \E r, session, doc :
         /\ w.call_uuid = u
         /\ Resolved(w, r)
         /\ Effect(w, r.session, session)
         /\ Answers(w, r.session_id, r.session, session, doc)
         /\ Respond(w, r, session, doc)
  BY DEF Handled
<1>1. PICK r, session, doc :
         /\ w.call_uuid = u
         /\ Resolved(w, r)
         /\ Allowed(w, r, session, doc)
         /\ Respond(w, r, session, doc)
  BY <1>0, HandlingAllowed
<1> DEFINE id == r.session_id
<1>2. /\ id \in SessionIds /\ calls[u].session_id = id /\ Owner[u] = id
      /\ w \in Webhook
  BY <1>1 DEF Inv, TypeOK, WebhooksFit, Webhook, Url, Resolved, Owner
<1>3. /\ store' \in Store
      /\ store'.sessions[id] = Touch(session)
      /\ \A s \in SessionIds \ {id} : store'.sessions[s] \in {None, store.sessions[s]}
      /\ StoreFits(store', Owner)
  BY <1>1, RespondStore
<1>4. /\ calls' \in [CallUuids -> Call]
      /\ \A v \in CallUuids :
            /\ calls'[v].session_id = calls[v].session_id
            /\ calls'[v].status = calls[v].status
            /\ \/ /\ calls'[v].doc = calls[v].doc
                  /\ calls'[v].awaiting = calls[v].awaiting
               \/ /\ v = u
                  /\ calls[v].awaiting = w
                  /\ calls'[v].doc = doc
                  /\ calls'[v].awaiting = None
  BY <1>1, RespondCalls
<1>5. Owner' = Owner
  BY <1>4 DEF Owner
<1>6. session.is_authenticated => u \in verified'
  BY <1>1, RespondVerified
<1>7. Touch(session) \in Session /\ Kept(Touch(session), session)
  BY <1>1, TouchType DEF Allowed
<1>8. TypeOK'
  <2>1. inflight' \subseteq Webhook /\ faults' \in 0..MaxFaults
    BY <1>1 DEF Inv, TypeOK, Respond
  <2>2. verified' \subseteq CallUuids
    BY <1>1 DEF Respond, StillVerified, Inv, TypeOK
  <2>3. QED
    BY <1>3, <1>4, <2>1, <2>2 DEF TypeOK
<1>9. PlacedOK'
  <2>1. w # None
    BY <1>2, FlowAssumption
  <2>2. QED
    BY <1>4, <2>1 DEF PlacedOK, Inv
<1>10. AuthFits(store', Owner, verified')
  <2>1. SUFFICES ASSUME NEW v \in CallUuids, NEW s \in SessionIds, Owner[v] = s,
                        store'.sessions[s] # None, store'.sessions[s].is_authenticated
                 PROVE  v \in verified'
    BY DEF AuthFits
  <2>2. CASE s = id
    <3>1. v = u
      BY <1>2, <2>1, <2>2, SessionAssumption DEF Inv, OwnersApart
    <3>2. QED
      BY <1>3, <1>6, <1>7, <2>1, <2>2, <3>1 DEF Kept, Counts
  <2>3. CASE s # id
    <3>1. store'.sessions[s] = store.sessions[s]
      BY <1>3, <2>1, <2>3
    <3>2. v \in verified
      BY <2>1, <3>1 DEF Inv, AuthFits
    <3>3. v \in StillVerified(store') /\ v # u
      BY <1>2, <2>1, <2>3, <3>2 DEF StillVerified, Stored, Owner
    <3>4. QED
      BY <1>1, <3>3 DEF Respond
  <2>4. QED
    BY <2>2, <2>3
<1>11. WebhooksFit'
  <2>1. inflight' \subseteq inflight
    BY <1>1 DEF Respond
  <2>2. \A x \in inflight : x.call_uuid \in CallUuids
    BY DEF Inv, TypeOK, Webhook
  <2>3. QED
    BY <1>4, <2>1, <2>2 DEF WebhooksFit, Inv
<1>12. DocsFit'
  <2>1. Carries(doc, id)
    BY <1>1 DEF Allowed
  <2>2. QED
    BY <1>2, <1>4, <2>1 DEF DocsFit, Inv
<1>13. Inv'
  <2>1. OwnersApart(Owner') /\ StoreFits(store', Owner') /\ AuthFits(store', Owner', verified')
    BY <1>3, <1>5, <1>10 DEF Inv
  <2>2. QED
    BY <1>8, <1>9, <1>11, <1>12, <2>1 DEF Inv
<1>14. GateStep
  <2>1. SUFFICES ASSUME NEW v \in CallUuids, Served(v), calls'[v].doc.says \in Protected
                 PROVE  v \in verified'
    BY DEF GateStep
  <2>2. v = u /\ calls'[v].doc = doc
    BY <1>4, <2>1 DEF Served
  <2>3. session.is_authenticated
    BY <1>1, <2>1, <2>2 DEF Allowed
  <2>4. QED
    BY <1>6, <2>2, <2>3
<1>15. QED
  BY <1>13, <1>14

-----------------------------------------------------------------------------
(* Everything else: Plivo, the caller, the operator and the faults          *)

\* No document starts playing.
NothingStarts == \A u \in CallUuids : calls'[u].doc \in {None, calls[u].doc}

\* A store that only lost sessions still fits, and the calls that keep theirs
\* keep their verified callers.
LEMMA ShrinkFits ==
    ASSUME Inv, NEW st, Shrinks(st, store)
    PROVE  /\ st \in Store
           /\ StillVerified(st) \subseteq CallUuids
           /\ StoreFits(st, Owner)
           /\ AuthFits(st, Owner, StillVerified(st))
<1>1. st \in Store /\ StillVerified(st) \subseteq CallUuids
  BY DEF Shrinks, StillVerified, Inv, TypeOK
<1>2. StoreFits(st, Owner)
  <2>1. \A s \in SessionIds : st.sessions[s] \in {None, store.sessions[s]}
    BY DEF Shrinks
  <2>2. \A u \in CallUuids : st.call_uuid_index[u] \in {None, store.call_uuid_index[u]}
    BY DEF Shrinks
  <2>3. StoreFits(store, Owner)
    BY DEF Inv
  <2>4. QED
    BY <2>1, <2>2, <2>3 DEF StoreFits
<1>3. AuthFits(st, Owner, StillVerified(st))
  <2>1. SUFFICES ASSUME NEW u \in CallUuids, NEW s \in SessionIds, Owner[u] = s,
                        st.sessions[s] # None, st.sessions[s].is_authenticated
                 PROVE  u \in StillVerified(st)
    BY DEF AuthFits
  <2>2. st.sessions[s] = store.sessions[s]
    BY <2>1 DEF Shrinks
  <2>3. u \in verified
    BY <2>1, <2>2 DEF Inv, AuthFits
  <2>4. QED
    BY <2>1, <2>3 DEF StillVerified, Stored, Owner
<1>4. QED
  BY <1>1, <1>2, <1>3

\* Saving a stored session that stayed on its call, as authenticated as it was.
LEMMA UpdateFits ==
    ASSUME Inv, NEW st, Shrinks(st, store), NEW s \in Stored(st), NEW session \in Session,
           Kept(session, st.sessions[s])
    PROVE  /\ Put(st, s, session) \in Store
           /\ StoreFits(Put(st, s, session), Owner)
           /\ AuthFits(Put(st, s, session), Owner, StillVerified(st))
<1> DEFINE saved == Put(st, s, session)
<1>1. /\ s \in SessionIds /\ st.sessions[s] # None
      /\ st \in Store /\ StoreFits(st, Owner) /\ AuthFits(st, Owner, StillVerified(st))
  BY ShrinkFits DEF Stored
<1>2. /\ saved \in Store
      /\ saved.sessions[s] = session
      /\ \A t \in SessionIds \ {s} : saved.sessions[t] = st.sessions[t]
      /\ \A u \in CallUuids :
            saved.call_uuid_index[u] =
                IF u = session.call_uuid THEN s ELSE st.call_uuid_index[u]
  BY <1>1, PutType
<1> HIDE DEF saved
<1>3. StoreFits(saved, Owner)
  <2>1. session.call_uuid \in CallUuids => Owner[session.call_uuid] = s
    BY <1>1, SessionAssumption DEF StoreFits, Kept, Counts
  <2>2. \A t \in SessionIds :
           saved.sessions[t] # None /\ saved.sessions[t].call_uuid # None =>
              Owner[saved.sessions[t].call_uuid] = t
    BY <1>1, <1>2 DEF StoreFits, Kept, Counts
  <2>3. \A u \in CallUuids : saved.call_uuid_index[u] \in {None, Owner[u]}
    BY <1>1, <1>2, <2>1 DEF StoreFits
  <2>4. QED
    BY <2>2, <2>3 DEF StoreFits
<1>4. AuthFits(saved, Owner, StillVerified(st))
  BY <1>1, <1>2 DEF AuthFits, Kept, Counts
<1>5. QED
  BY <1>2, <1>3, <1>4 DEF saved

\* A step that leaves Plivo's side alone only has the store to answer for.
LEMMA ServerStepKeeps ==
    ASSUME Inv, UNCHANGED calls, inflight' \subseteq inflight,
           store' \in Store, verified' \subseteq CallUuids,
           StoreFits(store', Owner), AuthFits(store', Owner, verified'),
           faults' \in 0..MaxFaults
    PROVE  Inv' /\ NothingStarts
<1>1. Owner' = Owner
  BY DEF Owner
<1>2. TypeOK'
  BY DEF TypeOK, Inv
<1>3. PlacedOK' /\ WebhooksFit' /\ DocsFit'
  BY DEF PlacedOK, WebhooksFit, DocsFit, Inv
<1>4. OwnersApart(Owner') /\ StoreFits(store', Owner') /\ AuthFits(store', Owner', verified')
  BY <1>1 DEF Inv
<1>5. NothingStarts
  BY DEF NothingStarts
<1>6. QED
  BY <1>2, <1>3, <1>4, <1>5 DEF Inv

\* One call changes on Plivo's side, and what it sends names its session.
LEMMA PlivoStepKeeps ==
    ASSUME Inv, NEW u \in CallUuids, NEW call \in Call, NEW sent \in Webhook,
           calls' = [calls EXCEPT ![u] = call],
           inflight' = inflight \cup {sent},
           sent.call_uuid = u, sent.url.session_id = call.session_id,
           call.session_id = calls[u].session_id,
           calls[u].status # "unplaced", call.status \in {"live", "ended"},
           call.doc = None, call.awaiting # None => call.status = "live",
           store' \in Store, verified' \subseteq CallUuids,
           StoreFits(store', Owner), AuthFits(store', Owner, verified'),
           faults' \in 0..MaxFaults
    PROVE  Inv' /\ NothingStarts
<1>1. /\ calls \in [CallUuids -> Call] /\ calls' \in [CallUuids -> Call]
      /\ calls'[u] = call
      /\ \A v \in CallUuids \ {u} : calls'[v] = calls[v]
  BY DEF Inv, TypeOK
<1>2. \A v \in CallUuids : calls'[v].session_id = calls[v].session_id
  BY <1>1
<1>3. Owner' = Owner
  BY <1>2 DEF Owner
<1>4. TypeOK'
  BY <1>1 DEF TypeOK, Inv
<1>5. PlacedOK'
  BY <1>1 DEF PlacedOK, Inv
<1>6. WebhooksFit'
  BY <1>1, <1>2 DEF WebhooksFit, Inv, TypeOK, Webhook
<1>7. DocsFit'
  BY <1>1 DEF DocsFit, Inv
<1>8. OwnersApart(Owner') /\ StoreFits(store', Owner') /\ AuthFits(store', Owner', verified')
  BY <1>3 DEF Inv
<1>9. NothingStarts
  BY <1>1 DEF NothingStarts
<1>10. QED
  BY <1>4, <1>5, <1>6, <1>7, <1>8, <1>9 DEF Inv

\* The store is not looked at: it still fits.
LEMMA StoreUntouched ==
    ASSUME Inv, UNCHANGED <<store, verified>>
    PROVE  /\ store' \in Store /\ verified' \subseteq CallUuids
           /\ StoreFits(store', Owner)
           /\ AuthFits(store', Owner, verified')
BY DEF Inv, TypeOK

\* A live call sends a webhook of its own session and waits for the answer.
LEMMA SendKeeps ==
    ASSUME Inv, NEW u \in CallUuids, NEW call \in Call, NEW url \in Url,
           NEW digits \in OtpEntries \cup MenuKeys \cup {""},
           NEW dial_status \in DialStatuses \cup {""},
           url.session_id = call.session_id, call.session_id = calls[u].session_id,
           call.status = "live", calls[u].status # "unplaced",
           Send(u, url, digits, dial_status, call), faults' \in 0..MaxFaults
    PROVE  Inv' /\ NothingStarts
<1> DEFINE sent == [url |-> url, call_uuid |-> u, digits |-> digits,
                    dial_status |-> dial_status]
           silent == [call EXCEPT !.doc = None]
           waiting == [silent EXCEPT !.awaiting = sent]
<1>1. /\ sent \in Webhook
      /\ sent.call_uuid = u /\ sent.url.session_id = call.session_id
  BY DEF Webhook
<1>2. /\ silent \in Call /\ silent.doc = None
      /\ silent.session_id = call.session_id /\ silent.status = "live"
  BY DEF Call
<1> HIDE DEF sent, silent
<1>3. /\ waiting \in Call /\ waiting.doc = None
      /\ waiting.session_id = call.session_id /\ waiting.status = "live"
  BY <1>1, <1>2 DEF Call
<1>4. calls' = [calls EXCEPT ![u] = waiting] /\ inflight' = inflight \cup {sent}
  BY DEF Send, sent, silent
<1>5. UNCHANGED <<store, verified>>
  BY DEF Send
<1> HIDE DEF waiting
<1>6. QED
  BY <1>1, <1>3, <1>4, <1>5, StoreUntouched, PlivoStepKeeps

\* A placed call is over, whatever the same step does to the store.
LEMMA DropKeeps ==
    ASSUME Inv, NEW u \in CallUuids, LineDrops(u), calls[u].status # "unplaced",
           store' \in Store, verified' \subseteq CallUuids,
           StoreFits(store', Owner), AuthFits(store', Owner, verified'),
           faults' \in 0..MaxFaults
    PROVE  Inv' /\ NothingStarts
<1> DEFINE call == Over(calls[u])
           sent == HangupWebhook(u)
<1>1. calls[u].session_id \in SessionIds /\ calls \in [CallUuids -> Call]
  BY DEF Inv, TypeOK, PlacedOK, Call
<1>2. /\ call \in Call /\ call.session_id = calls[u].session_id
      /\ call.doc = None /\ call.awaiting = None /\ call.status = "ended"
  BY <1>1, Bounds DEF Over, NoCall, Call
<1>3. /\ sent \in Webhook
      /\ sent.call_uuid = u /\ sent.url.session_id = call.session_id
  BY <1>1, <1>2 DEF HangupWebhook, CallbackUrl, Webhook, Url, Routes
<1>4. calls' = [calls EXCEPT ![u] = call] /\ inflight' = inflight \cup {sent}
  BY <1>1 DEF LineDrops
<1> HIDE DEF call, sent
<1>5. QED
  BY <1>2, <1>3, <1>4, PlivoStepKeeps

\* A document that is playing belongs to a placed call and has typed URLs.
LEMMA PlayingFacts ==
    ASSUME Inv, NEW u \in CallUuids, Playing(u)
    PROVE  /\ calls[u] \in Call /\ calls[u].status = "live"
           /\ calls[u].session_id \in SessionIds
           /\ calls[u].doc \in Document
           /\ \A url \in {calls[u].doc.get_digits, calls[u].doc.dial, calls[u].doc.redirect} :
                 url # None => url \in Url /\ url.session_id = calls[u].session_id
<1>1. calls[u] \in Call /\ calls[u].status = "live" /\ calls[u].doc # None
  BY DEF Inv, TypeOK, Playing
<1>2. calls[u].session_id \in SessionIds
  BY <1>1 DEF Inv, PlacedOK, Call
<1>3. Carries(calls[u].doc, calls[u].session_id)
  BY <1>1 DEF Inv, DocsFit
<1>4. QED
  BY <1>1, <1>2, <1>3 DEF Carries, Document

\* A document that has been spoken leads on within its own call, or ends it.
LEMMA FallThroughKeeps ==
    ASSUME Inv, NEW u \in CallUuids, Playing(u), NEW call \in Call,
           call.doc = calls[u].doc, call.session_id = calls[u].session_id,
           call.status = "live", FallThrough(u, call), UNCHANGED faults
    PROVE  Inv' /\ NothingStarts
<1>1. /\ calls[u].status = "live" /\ calls[u].status # "unplaced"
      /\ call.doc.redirect # None =>
            call.doc.redirect \in Url /\ call.doc.redirect.session_id = call.session_id
  BY PlayingFacts
<1>2. faults' \in 0..MaxFaults
  BY DEF Inv, TypeOK
<1>3. CASE call.doc.redirect # None
  <2>1. Send(u, call.doc.redirect, "", "", call)
    BY <1>3 DEF FallThrough
  <2>2. QED
    BY <1>1, <1>2, <1>3, <2>1, SendKeeps
<1>4. CASE call.doc.redirect = None
  <2>1. LineDrops(u) /\ UNCHANGED <<store, verified>>
    BY <1>4 DEF FallThrough
  <2>2. QED
    BY <1>1, <1>2, <2>1, StoreUntouched, DropKeeps
<1>5. QED
  BY <1>3, <1>4

\* Giving an answer up leads to the fallback of the same call, or ends it.
LEMMA GivesUpKeeps ==
    ASSUME Inv, NEW u \in CallUuids, calls[u].awaiting # None, GivesUp(u),
           faults' \in 0..MaxFaults
    PROVE  Inv' /\ NothingStarts
<1>1. calls[u] \in Call /\ calls[u].status = "live"
  BY DEF Inv, TypeOK, PlacedOK
<1>2. calls[u].session_id \in SessionIds
  BY <1>1 DEF Inv, PlacedOK, Call
<1>3. CASE calls[u].awaiting.url.route = "ANSWER"
  <2> DEFINE url == CallbackUrl("FALLBACK", calls[u].session_id, None, None)
  <2>1. url \in Url /\ url.session_id = calls[u].session_id
    BY <1>2, CallbackUrlType DEF Routes
  <2>2. Send(u, url, "", "", calls[u])
    BY <1>3 DEF GivesUp
  <2> HIDE DEF url
  <2>3. QED
    BY <1>1, <2>1, <2>2, SendKeeps
<1>4. CASE calls[u].awaiting.url.route # "ANSWER"
  <2>1. LineDrops(u) /\ UNCHANGED <<store, verified>>
    BY <1>4 DEF GivesUp
  <2>2. QED
    BY <1>1, <2>1, StoreUntouched, DropKeeps
<1>5. QED
  BY <1>3, <1>4

\* An answered call asks for its first document with its own session id.
LEMMA RingingEndsKeeps ==
    ASSUME Inv, NEW u \in CallUuids, RingingEnds(u)
    PROVE  Inv' /\ NothingStarts
<1>1. /\ calls[u] \in Call /\ calls[u].status = "ringing" /\ UNCHANGED faults
      /\ faults' \in 0..MaxFaults
  BY DEF RingingEnds, Answer, NoAnswer, Inv, TypeOK
<1>2. calls[u].session_id \in SessionIds
  BY <1>1 DEF Inv, PlacedOK, Call
<1>3. CASE Answer(u)
  <2> DEFINE url == CallbackUrl("ANSWER", calls[u].session_id, None, None)
             call == [calls[u] EXCEPT !.status = "live"]
  <2>1. url \in Url /\ url.session_id = calls[u].session_id
    BY <1>2, CallbackUrlType DEF Routes
  <2>2. /\ call \in Call /\ call.status = "live"
        /\ call.session_id = calls[u].session_id
    BY <1>1 DEF Call
  <2>3. Send(u, url, "", "", call)
    BY <1>3 DEF Answer
  <2> HIDE DEF url, call
  <2>4. QED
    BY <1>1, <2>1, <2>2, <2>3, SendKeeps
<1>4. CASE NoAnswer(u)
  BY <1>1, <1>4, StoreUntouched, DropKeeps DEF NoAnswer
<1>5. QED
  BY <1>3, <1>4 DEF RingingEnds

\* Whatever Plivo does next stays within the call's own session.
LEMMA PlivoProceedsKeeps ==
    ASSUME Inv, NEW u \in CallUuids, PlivoProceeds(u)
    PROVE  Inv' /\ NothingStarts
<1>1. calls[u] \in Call /\ UNCHANGED faults /\ faults' \in 0..MaxFaults
  BY DEF PlivoProceeds, CallerSilent, DocumentSpoken, DialEnds, HangsUp, WebhookFailed,
         Inv, TypeOK
<1>2. CASE CallerSilent(u)
  <2> DEFINE call == [calls[u] EXCEPT !.streak = CountUpTo(@, MaxInvalidInputs)]
  <2>1. CountUpTo(calls[u].streak, MaxInvalidInputs) \in 0..MaxInvalidInputs
    BY <1>1, Bounds, CountUpToType DEF Call
  <2>2. /\ call \in Call /\ call.doc = calls[u].doc
        /\ call.session_id = calls[u].session_id /\ call.status = calls[u].status
    BY <1>1, <2>1 DEF Call
  <2>3. Playing(u) /\ FallThrough(u, call)
    BY <1>2 DEF CallerSilent
  <2> HIDE DEF call
  <2>4. QED
    BY <1>1, <2>2, <2>3, PlayingFacts, FallThroughKeeps
<1>3. CASE DocumentSpoken(u)
  BY <1>1, <1>3, PlayingFacts, FallThroughKeeps DEF DocumentSpoken
<1>4. CASE DialEnds(u)
  <2>1. PICK status \in DialStatuses : Send(u, calls[u].doc.dial, "", status, calls[u])
    BY <1>4 DEF DialEnds
  <2>2. Playing(u) /\ calls[u].doc.dial # None
    BY <1>4 DEF DialEnds
  <2>3. QED
    BY <1>1, <2>1, <2>2, PlayingFacts, SendKeeps
<1>5. CASE HangsUp(u)
  BY <1>1, <1>5, PlayingFacts, StoreUntouched, DropKeeps DEF HangsUp
<1>6. CASE WebhookFailed(u)
  BY <1>1, <1>6, GivesUpKeeps DEF WebhookFailed
<1>7. QED
  BY <1>2, <1>3, <1>4, <1>5, <1>6 DEF PlivoProceeds

\* What pressing these digits makes of the caller's own account.
Pressed(new, call, digits) ==
    LET route == call.doc.get_digits.route
        recognised == IF route = "OTP_VERIFY" THEN digits # "#" ELSE digits # "9"
    IN  /\ new.streak = IF recognised THEN 0 ELSE CountUpTo(call.streak, MaxInvalidInputs)
        /\ new.wrongs = IF digits = "wrong" THEN CountUpTo(call.wrongs, MaxOtpAttempts)
                        ELSE call.wrongs
        /\ new.chosen = IF route = "LANGUAGE_SELECT" /\ recognised
                        THEN FromMenuDigit(digits) ELSE call.chosen

\* Pressing keeps the account within its bounds, and to those three fields.
LEMMA PressingType ==
    ASSUME NEW call \in Call, NEW digits
    PROVE  LET after == AfterPressing(call, digits)
           IN  /\ after \in Call
               /\ after.status = call.status /\ after.session_id = call.session_id
               /\ Pressed(after, call, digits)
<1> DEFINE route == call.doc.get_digits.route
           recognised == IF route = "OTP_VERIFY" THEN digits # "#" ELSE digits # "9"
           streak == IF recognised THEN 0 ELSE CountUpTo(call.streak, MaxInvalidInputs)
           wrongs == IF digits = "wrong" THEN CountUpTo(call.wrongs, MaxOtpAttempts)
                     ELSE call.wrongs
           chosen == IF route = "LANGUAGE_SELECT" /\ recognised
                     THEN FromMenuDigit(digits) ELSE call.chosen
           heard == [call EXCEPT !.streak = streak]
           judged == [heard EXCEPT !.wrongs = wrongs]
           told == [judged EXCEPT !.chosen = chosen]
<1>1. streak \in 0..MaxInvalidInputs
  BY Bounds, CountUpToType DEF Call
<1>2. wrongs \in 0..MaxOtpAttempts
  BY Bounds, CountUpToType DEF Call
<1>3. chosen \in Languages \cup {None}
  BY DEF Call, FromMenuDigit, Languages
<1>4. AfterPressing(call, digits) = told
  BY DEF AfterPressing
<1> HIDE DEF streak, wrongs, chosen
<1>5. /\ heard \in Call /\ heard.session_id = call.session_id /\ heard.status = call.status
      /\ heard.streak = streak /\ heard.wrongs = call.wrongs
      /\ heard.chosen = call.chosen
  BY <1>1 DEF Call
<1> HIDE DEF heard
<1>6. /\ judged \in Call /\ judged.session_id = call.session_id /\ judged.status = call.status
      /\ judged.streak = streak /\ judged.wrongs = wrongs
      /\ judged.chosen = call.chosen
  BY <1>2, <1>5 DEF Call
<1> HIDE DEF judged
<1>7. /\ told \in Call /\ told.session_id = call.session_id /\ told.status = call.status
      /\ told.streak = streak /\ told.wrongs = wrongs
      /\ told.chosen = chosen
  BY <1>3, <1>6 DEF Call
<1> HIDE DEF told
<1>8. QED
  BY <1>4, <1>7 DEF Pressed, streak, wrongs, chosen

\* Keys go where the document being played sends them.
LEMMA CallerPressesKeeps ==
    ASSUME Inv, NEW u \in CallUuids, CallerPresses(u)
    PROVE  Inv' /\ NothingStarts
<1>1. PICK digits \in OtpEntries \cup MenuKeys :
         Send(u, calls[u].doc.get_digits, digits, "", AfterPressing(calls[u], digits))
  BY DEF CallerPresses
<1>2. /\ calls[u] \in Call /\ calls[u].status = "live"
      /\ calls[u].doc.get_digits \in Url
      /\ calls[u].doc.get_digits.session_id = calls[u].session_id
  BY PlayingFacts DEF CallerPresses
<1>3. faults' \in 0..MaxFaults
  BY DEF CallerPresses, Inv, TypeOK
<1> DEFINE call == AfterPressing(calls[u], digits)
<1>4. /\ call \in Call /\ call.session_id = calls[u].session_id /\ call.status = "live"
  BY <1>2, PressingType
<1> HIDE DEF call
<1>5. Send(u, calls[u].doc.get_digits, digits, "", call)
  BY <1>1 DEF call
<1>6. QED
  BY <1>2, <1>3, <1>4, <1>5, SendKeeps

\* Walking away changes nothing the server can see.
LEMMA CallerWalksAwayKeeps ==
    ASSUME Inv, NEW u \in CallUuids, CallerWalksAway(u)
    PROVE  Inv' /\ NothingStarts
<1>1. calls \in [CallUuids -> Call]
  BY DEF Inv, TypeOK
<1>2. /\ calls' \in [CallUuids -> Call]
      /\ \A v \in CallUuids : /\ calls'[v].status = calls[v].status
                              /\ calls'[v].session_id = calls[v].session_id
                              /\ calls'[v].doc = calls[v].doc
                              /\ calls'[v].awaiting = calls[v].awaiting
  BY <1>1 DEF CallerWalksAway, Call
<1>3. UNCHANGED <<store, inflight, verified, faults>>
  BY DEF CallerWalksAway
<1>4. Owner' = Owner
  BY <1>2 DEF Owner
<1>5. TypeOK'
  BY <1>2, <1>3 DEF Inv, TypeOK
<1>6. PlacedOK' /\ DocsFit'
  BY <1>2 DEF PlacedOK, DocsFit, Inv
<1>7. WebhooksFit'
  BY <1>2, <1>3 DEF WebhooksFit, Inv, TypeOK, Webhook
<1>8. OwnersApart(Owner') /\ StoreFits(store', Owner') /\ AuthFits(store', Owner', verified')
  BY <1>3, <1>4 DEF Inv
<1>9. NothingStarts
  BY <1>2 DEF NothingStarts
<1>10. QED
  BY <1>5, <1>6, <1>7, <1>8, <1>9 DEF Inv

\* Hanging up ends the call and nothing else.
LEMMA CallerHangsUpKeeps ==
    ASSUME Inv, NEW u \in CallUuids, CallerHangsUp(u)
    PROVE  Inv' /\ NothingStarts
<1>1. faults' \in 0..MaxFaults
  BY DEF CallerHangsUp, Inv, TypeOK
<1>2. QED
  BY <1>1, StoreUntouched, DropKeeps DEF CallerHangsUp

\* A lost webhook changes no session.
LEMMA LoseKeeps ==
    ASSUME Inv, NEW u \in CallUuids, Lose(u)
    PROVE  Inv' /\ NothingStarts
<1>1. faults' \in 0..MaxFaults
  BY FlowAssumption DEF Lose, Spend, Inv, TypeOK
<1>2. inflight' \subseteq inflight /\ UNCHANGED calls /\ UNCHANGED <<store, verified>>
  BY DEF Lose
<1>3. QED
  BY <1>1, <1>2, StoreUntouched, ServerStepKeeps

\* A late answer is given up; its webhook may still be handled.
LEMMA TimesOutKeeps ==
    ASSUME Inv, NEW u \in CallUuids, TimesOut(u)
    PROVE  Inv' /\ NothingStarts
<1>1. faults' \in 0..MaxFaults
  BY FlowAssumption DEF TimesOut, Spend, Inv, TypeOK
<1>2. calls[u].awaiting # None
  BY FlowAssumption DEF TimesOut, Inv, TypeOK
<1>3. QED
  BY <1>1, <1>2, GivesUpKeeps DEF TimesOut

\* A restart forgets every session, and with them every verified caller.
LEMMA RestartKeeps ==
    ASSUME Inv, Restart
    PROVE  Inv' /\ NothingStarts
<1>1. faults' \in 0..MaxFaults
  BY FlowAssumption DEF Restart, Spend, Inv, TypeOK
<1>2. /\ EmptyStore \in Store
      /\ \A s \in SessionIds : EmptyStore.sessions[s] = None
      /\ \A u \in CallUuids : EmptyStore.call_uuid_index[u] = None
  BY DEF EmptyStore, Store
<1>3. /\ store' = EmptyStore /\ verified' = {}
      /\ UNCHANGED calls /\ inflight' \subseteq inflight
  BY DEF Restart
<1>4. StoreFits(store', Owner) /\ AuthFits(store', Owner, verified')
  BY <1>2, <1>3 DEF StoreFits, AuthFits
<1>5. QED
  BY <1>1, <1>2, <1>3, <1>4, ServerStepKeeps

\* Time passes: sessions grow older and are otherwise the same.
LEMMA TickKeeps ==
    ASSUME Inv, Tick
    PROVE  Inv' /\ NothingStarts
<1>1. store \in Store /\ store' = Age(store) /\ faults' \in 0..MaxFaults
      /\ UNCHANGED calls /\ inflight' \subseteq inflight /\ verified' \subseteq CallUuids
  BY DEF Tick, Inv, TypeOK
<1>2. \A s \in SessionIds :
         \/ store.sessions[s] = None /\ store'.sessions[s] = None
         \/ /\ store.sessions[s] \in Session
            /\ store'.sessions[s] =
                  [store.sessions[s] EXCEPT !.idle = CountUpTo(@, TTL + 1)]
  BY <1>1 DEF Age, Store
<1>3. ASSUME NEW session \in Session
      PROVE  /\ [session EXCEPT !.idle = CountUpTo(@, TTL + 1)] \in Session
             /\ Kept([session EXCEPT !.idle = CountUpTo(@, TTL + 1)], session)
  BY <1>3, IdleType
<1>4. \A s \in SessionIds :
         \/ store.sessions[s] = None /\ store'.sessions[s] = None
         \/ /\ store.sessions[s] # None /\ store'.sessions[s] \in Session
            /\ Kept(store'.sessions[s], store.sessions[s])
  BY <1>2, <1>3, SessionAssumption
<1>5. store'.call_uuid_index = store.call_uuid_index /\ store' \in Store
  BY <1>1, <1>4 DEF Age, Store
<1>6. StoreFits(store', Owner)
  BY <1>4, <1>5 DEF StoreFits, Kept, Counts, Inv
<1>7. AuthFits(store', Owner, verified')
  BY <1>4 DEF AuthFits, Kept, Counts, Inv, Tick
<1>8. QED
  BY <1>1, <1>5, <1>6, <1>7, ServerStepKeeps

\* Reading the calls, or being refused a hangup, does no more than evict.
LEMMA ReadCallsKeeps ==
    ASSUME Inv, ReadCalls \/ EndCallRejected
    PROVE  Inv' /\ NothingStarts
<1>1. /\ store' = EvictExpired(store) /\ verified' = StillVerified(store')
      /\ UNCHANGED calls /\ inflight' \subseteq inflight /\ faults' \in 0..MaxFaults
  BY DEF ReadCalls, EndCallRejected, Inv, TypeOK
<1>2. Shrinks(store', store)
  BY <1>1, EvictExpiredShrinks DEF Inv, TypeOK
<1>3. QED
  BY <1>1, <1>2, ShrinkFits, ServerStepKeeps

\* The operator's hangup ends the line and leaves who is authenticated alone.
LEMMA EndCallKeeps ==
    ASSUME Inv, NEW s \in SessionIds, EndCall(s)
    PROVE  Inv' /\ NothingStarts
<1> DEFINE st == EvictExpired(store)
           noted == RecordEvent(st.sessions[s], "call_ended_by_operator")
           closed == AdvanceTo(noted, "completed")
<1>1. CASE EndCallRejected
  BY <1>1, ReadCallsKeeps
<1>2. CASE EndCallAccepted(s)
  <2>1. PICK u \in CallUuids : calls[u].status = "live" /\ LineDrops(u)
    BY <1>2 DEF EndCallAccepted
  <2>2. /\ s \in Stored(st)
        /\ store' = Save(st, s, closed) \/ store' = st
        /\ verified' = StillVerified(st)
        /\ faults' \in 0..MaxFaults
    BY <1>2 DEF EndCallAccepted, Inv, TypeOK
  <2>3. Shrinks(st, store)
    BY EvictExpiredShrinks DEF Inv, TypeOK
  <2>4. st.sessions[s] \in Session
    BY <2>2, <2>3 DEF Shrinks, Store, Stored
  <2>5. noted \in Session /\ Kept(noted, st.sessions[s])
    BY <2>4, RecordEventType
  <2>6. closed \in Session /\ Kept(closed, noted)
    BY <2>5, AdvanceToType DEF Stages
  <2> HIDE DEF st, noted, closed
  <2>7. /\ Touch(closed) \in Session
        /\ Kept(Touch(closed), st.sessions[s])
    BY <2>5, <2>6, TouchType DEF Kept, Counts
  <2>8. /\ store' \in Store /\ verified' \subseteq CallUuids
        /\ StoreFits(store', Owner) /\ AuthFits(store', Owner, verified')
    BY <2>2, <2>3, <2>7, ShrinkFits, UpdateFits DEF Save
  <2>9. QED
    BY <2>1, <2>2, <2>8, DropKeeps
<1>3. QED
  BY <1>1, <1>2 DEF EndCall

\* A placed call's session: new, attached to no call yet, unauthenticated, nothing
\* counted; the others are as eviction left them.
Placed(s, room, st) ==
    /\ st \in Store
    /\ st.sessions[s] \in Session
    /\ st.sessions[s].call_uuid = None
    /\ ~st.sessions[s].is_authenticated
    /\ st.sessions[s].otp_attempts = 0
    /\ st.sessions[s].consecutive_unrecognized_inputs = 0
    /\ \A t \in SessionIds \ {s} : st.sessions[t] = room.sessions[t]
    /\ st.call_uuid_index = room.call_uuid_index

\* Creating the session, and whatever the reply then does to it.
LEMMA PlacingPlaces ==
    ASSUME Inv, NEW s \in SessionIds, NEW outcome \in {"queued", "refused", "no_uuid", "lost"},
           NEW st \in Create(store, s, RecordEvent(NewCallSession(None), "call_requested"))
    PROVE  \E room : /\ Shrinks(room, store)
                     /\ Placed(s, room, st)
                     /\ Placed(s, room, AfterPlacing(st, s, outcome))
<1> DEFINE requested == RecordEvent(NewCallSession(None), "call_requested")
<1>1. /\ requested \in Session
      /\ requested.call_uuid = None /\ ~requested.is_authenticated
      /\ requested.otp_attempts = 0 /\ requested.consecutive_unrecognized_inputs = 0
  BY RequestedType
<1>2. PICK room \in EnforceCapacity(EvictExpired(store)) : st = Put(room, s, requested)
  BY DEF Create
<1>3. Shrinks(EvictExpired(store), store) /\ EvictExpired(store) \in Store
  BY EvictExpiredShrinks DEF Shrinks, Inv, TypeOK
<1>4. Shrinks(room, store) /\ room \in Store
  BY <1>3, EnforceCapacityShrinks, ShrinksTransitive DEF Shrinks
<1> HIDE DEF requested
<1>5. ASSUME NEW old \in Store, NEW session \in Session,
             session.call_uuid = None, ~session.is_authenticated,
             session.otp_attempts = 0, session.consecutive_unrecognized_inputs = 0,
             \A t \in SessionIds \ {s} : old.sessions[t] = room.sessions[t],
             old.call_uuid_index = room.call_uuid_index
      PROVE  Placed(s, room, Put(old, s, session))
  <2>1. Put(old, s, session).call_uuid_index = old.call_uuid_index
    BY <1>5, SessionAssumption DEF Put, Store
  <2>2. QED
    BY <1>5, <2>1, PutType DEF Placed
<1>6. Placed(s, room, st)
  BY <1>1, <1>2, <1>4, <1>5
<1>7. CASE outcome = "queued"
  <2> DEFINE noted == RecordEvent(st.sessions[s], "call_queued")
  <2>1. noted \in Session /\ Kept(noted, st.sessions[s])
    BY <1>6, RecordEventType DEF Placed
  <2>2. Touch(noted) \in Session /\ Kept(Touch(noted), noted)
    BY <2>1, TouchType
  <2>3. Placed(s, room, Put(st, s, Touch(noted)))
    BY <1>5, <1>6, <2>1, <2>2 DEF Placed, Kept, Counts
  <2>4. QED
    BY <1>4, <1>6, <1>7, <2>3 DEF AfterPlacing, Save
<1>8. CASE outcome \in {"refused", "no_uuid"}
  <2> DEFINE failed == AdvanceTo(st.sessions[s], "failed")
             noted == RecordEvent(failed, "call_request_failed")
  <2>1. failed \in Session /\ Kept(failed, st.sessions[s])
    BY <1>6, AdvanceToType DEF Placed, Stages
  <2>2. noted \in Session /\ Kept(noted, failed)
    BY <2>1, RecordEventType
  <2>3. Touch(noted) \in Session /\ Kept(Touch(noted), noted)
    BY <2>2, TouchType
  <2>4. Placed(s, room, Put(st, s, Touch(noted)))
    BY <1>5, <1>6, <2>1, <2>2, <2>3 DEF Placed, Kept, Counts
  <2>5. QED
    BY <1>4, <1>6, <1>8, <2>4 DEF AfterPlacing, Save
<1>9. CASE outcome = "lost"
  BY <1>4, <1>6, <1>9 DEF AfterPlacing
<1>10. QED
  BY <1>7, <1>8, <1>9

\* A session nobody has seen is no way into another call, or past the gate.
LEMMA PlaceOutboundCallKeeps ==
    ASSUME Inv, NEW u \in CallUuids, PlaceOutboundCall(u)
    PROVE  Inv' /\ NothingStarts
<1>1. PICK s \in SessionIds, reply \in PlaceReplies :
         /\ Fresh(s)
         /\ \E st \in Create(store, s, RecordEvent(NewCallSession(None), "call_requested")) :
               /\ store' = AfterPlacing(st, s, reply.outcome)
               /\ verified' = StillVerified(st)
         /\ calls' = IF reply.rings
                     THEN [calls EXCEPT ![u].status = "ringing", ![u].session_id = s]
                     ELSE calls
  BY DEF PlaceOutboundCall
<1>2. PICK st \in Create(store, s, RecordEvent(NewCallSession(None), "call_requested")) :
         store' = AfterPlacing(st, s, reply.outcome) /\ verified' = StillVerified(st)
  BY <1>1
<1>3. reply.outcome \in {"queued", "refused", "no_uuid", "lost"}
  BY DEF PlaceReplies, Reply
<1>4. PICK room : Shrinks(room, store) /\ Placed(s, room, st) /\ Placed(s, room, store')
  BY <1>2, <1>3, PlacingPlaces
<1>5. /\ room \in Store /\ StoreFits(room, Owner)
      /\ AuthFits(room, Owner, StillVerified(room))
  BY <1>4, ShrinkFits
<1>6. /\ calls \in [CallUuids -> Call]
      /\ calls[u].status = "unplaced" /\ calls[u].session_id = None /\ Owner[u] = None
      /\ calls[u].doc = None /\ calls[u].awaiting = None
      /\ UNCHANGED <<inflight, faults>>
  BY DEF PlaceOutboundCall, Inv, TypeOK, PlacedOK, Owner
<1>7. /\ calls' \in [CallUuids -> Call]
      /\ \A v \in CallUuids \ {u} : calls'[v] = calls[v]
      /\ calls'[u].doc = None /\ calls'[u].awaiting = None
      /\ \/ calls'[u].status = "ringing" /\ calls'[u].session_id = s
         \/ calls'[u] = calls[u]
  <2> DEFINE rung == [calls EXCEPT ![u].status = "ringing"]
  <2>1. rung \in [CallUuids -> Call] /\ rung[u].status = "ringing"
        /\ rung[u].doc = None /\ rung[u].awaiting = None
        /\ \A v \in CallUuids \ {u} : rung[v] = calls[v]
    BY <1>6 DEF Call
  <2>2. calls' = [rung EXCEPT ![u].session_id = s] \/ calls' = calls
    BY <1>1
  <2> HIDE DEF rung
  <2>3. CASE calls' = [rung EXCEPT ![u].session_id = s]
    BY <2>1, <2>3 DEF Call
  <2>4. CASE calls' = calls
    BY <1>6, <2>4
  <2>5. QED
    BY <2>2, <2>3, <2>4
<1>8. /\ \A v \in CallUuids \ {u} : Owner'[v] = Owner[v]
      /\ Owner'[u] \in {s, Owner[u]}
  BY <1>6, <1>7 DEF Owner
<1>9. \A v \in CallUuids : Owner[v] # s
  BY <1>1 DEF Fresh, Owner
<1>10. TypeOK'
  <2>1. verified' \subseteq CallUuids
    BY <1>2 DEF StillVerified, Inv, TypeOK
  <2>2. QED
    BY <1>4, <1>6, <1>7, <2>1 DEF TypeOK, Inv, Placed
<1>11. PlacedOK' /\ DocsFit'
  BY <1>6, <1>7, SessionAssumption DEF PlacedOK, DocsFit, Inv
<1>12. WebhooksFit'
  <2>1. \A w \in inflight : w.call_uuid \in CallUuids \ {u}
    BY <1>6, SessionAssumption DEF Inv, TypeOK, WebhooksFit, Webhook, Url
  <2>2. QED
    BY <1>6, <1>7, <2>1 DEF WebhooksFit, Inv
<1>13. OwnersApart(Owner')
  BY <1>8, <1>9 DEF OwnersApart, Inv
<1>14. StoreFits(store', Owner')
  <2>1. ASSUME NEW t \in SessionIds, store'.sessions[t] # None,
               store'.sessions[t].call_uuid # None
        PROVE  Owner'[store'.sessions[t].call_uuid] = t
    <3>1. t # s /\ store'.sessions[t] = room.sessions[t]
      BY <1>4, <2>1 DEF Placed
    <3>2. /\ room.sessions[t].call_uuid \in CallUuids
          /\ Owner[room.sessions[t].call_uuid] = t
      BY <1>5, <2>1, <3>1 DEF StoreFits, Store, Session
    <3>3. room.sessions[t].call_uuid # u
      BY <1>6, <3>2, SessionAssumption
    <3>4. QED
      BY <1>8, <3>1, <3>2, <3>3
  <2>2. ASSUME NEW v \in CallUuids
        PROVE  store'.call_uuid_index[v] \in {None, Owner'[v]}
    <3>1. store'.call_uuid_index[v] \in {None, Owner[v]}
      BY <1>4, <1>5 DEF Placed, StoreFits
    <3>2. v = u \/ Owner'[v] = Owner[v]
      BY <1>8
    <3>3. QED
      BY <1>6, <3>1, <3>2
  <2>3. QED
    BY <2>1, <2>2 DEF StoreFits
<1>15. AuthFits(store', Owner', verified')
  <2>1. SUFFICES ASSUME NEW v \in CallUuids, NEW t \in SessionIds, Owner'[v] = t,
                        store'.sessions[t] # None, store'.sessions[t].is_authenticated
                 PROVE  v \in StillVerified(st)
    BY <1>2 DEF AuthFits
  <2>2. /\ t # s
        /\ store'.sessions[t] = room.sessions[t] /\ st.sessions[t] = room.sessions[t]
    BY <1>4, <2>1 DEF Placed
  <2>3. Owner[v] = t
    BY <1>8, <2>1, <2>2
  <2>4. v \in StillVerified(room)
    BY <1>5, <2>1, <2>2, <2>3 DEF AuthFits
  <2>5. QED
    BY <2>1, <2>2, <2>3, <2>4 DEF StillVerified, Stored, Owner
<1>16. NothingStarts
  BY <1>6, <1>7 DEF NothingStarts
<1>17. QED
  BY <1>10, <1>11, <1>12, <1>13, <1>14, <1>15, <1>16 DEF Inv

-----------------------------------------------------------------------------
(* The theorems *)

\* The invariant holds when the server starts and nothing has been placed.
LEMMA InitInv == Init => Inv
<1> SUFFICES ASSUME Init PROVE Inv
  OBVIOUS
<1>1. EmptyStore \in Store
  BY DEF EmptyStore, Store
<1>2. NoCall \in Call
  BY Bounds DEF NoCall, Call
<1>3. TypeOK
  BY <1>1, <1>2, FlowAssumption DEF Init, TypeOK
<1>4. PlacedOK /\ OwnersApart(Owner) /\ WebhooksFit /\ DocsFit
  BY DEF Init, NoCall, PlacedOK, OwnersApart, Owner, WebhooksFit, DocsFit
<1>5. StoreFits(store, Owner) /\ AuthFits(store, Owner, verified)
  BY DEF Init, EmptyStore, StoreFits, AuthFits
<1>6. QED
  BY <1>3, <1>4, <1>5 DEF Inv

\* Every step of the system, or none, keeps the invariant, and only a handler
\* starts a document.
LEMMA NextCases ==
    ASSUME Inv, [Next]_vars
    PROVE  (\E u \in CallUuids : Handled(u)) \/ (Inv' /\ NothingStarts)
<1>1. ASSUME NEW u \in CallUuids, Handle(u)
      PROVE  Handled(u)
  BY <1>1, HandleHandled
<1>2. ASSUME NEW u \in CallUuids,
             RingingEnds(u) \/ PlivoProceeds(u) \/ CallerPresses(u) \/ CallerHangsUp(u)
                \/ CallerWalksAway(u) \/ PlaceOutboundCall(u) \/ Lose(u) \/ TimesOut(u)
      PROVE  Inv' /\ NothingStarts
  BY <1>2, RingingEndsKeeps, PlivoProceedsKeeps, CallerPressesKeeps, CallerHangsUpKeeps,
     CallerWalksAwayKeeps, PlaceOutboundCallKeeps, LoseKeeps, TimesOutKeeps
<1>3. ASSUME NEW s \in SessionIds, EndCall(s)
      PROVE  Inv' /\ NothingStarts
  BY <1>3, EndCallKeeps
<1>4. CASE ReadCalls
  BY <1>4, ReadCallsKeeps
<1>5. CASE Restart
  BY <1>5, RestartKeeps
<1>6. CASE Tick
  BY <1>6, TickKeeps
<1>7. CASE UNCHANGED vars
  <2>1. UNCHANGED <<store, calls, inflight, verified, faults>>
    BY <1>7 DEF vars
  <2>2. StoreFits(store', Owner) /\ AuthFits(store', Owner, verified')
        /\ store' \in Store /\ verified' \subseteq CallUuids /\ faults' \in 0..MaxFaults
    BY <2>1 DEF Inv, TypeOK
  <2>3. QED
    BY <2>1, <2>2, ServerStepKeeps
<1>8. QED
  BY <1>1, <1>2, <1>3, <1>4, <1>5, <1>6, <1>7 DEF Next

\* So every step keeps the invariant and the gate.
LEMMA NextKeeps ==
    ASSUME Inv, [Next]_vars
    PROVE  Inv' /\ GateStep
<1>1. NothingStarts => GateStep
  BY DEF NothingStarts, GateStep, Served
<1>2. QED
  BY <1>1, NextCases, HandledKeeps

(***************************************************************************)
(* Inv is an invariant of the call flow: one call, one session, everywhere *)
(* either is named, whatever is lost, late, evicted or restarted.          *)
(***************************************************************************)
THEOREM InvHolds == Spec => []Inv
<1>1. Init => Inv
  BY InitInv
<1>2. Inv /\ [Next]_vars => Inv'
  BY NextKeeps
<1>3. QED
  BY <1>1, <1>2, PTL DEF Spec

(***************************************************************************)
(* Every reachable state is well-formed: the handlers, the store and the   *)
(* documents stay within the types of app/core/models.py and the routes.   *)
(***************************************************************************)
THEOREM TypeCorrect == Spec => []TypeOK
<1>1. Inv => TypeOK
  BY DEF Inv
<1>2. QED
  BY <1>1, InvHolds, PTL

(***************************************************************************)
(* The access code is a gate: on no call is anything past it heard before  *)
(* the right code was entered on that very call, since its session was     *)
(* last lost (the re-authentication of app/routers/ivr.py).                *)
(***************************************************************************)
THEOREM OtpGateHolds == Spec => OtpGate
<1>1. Inv /\ [Next]_vars => [GateStep]_vars
  BY NextKeeps
<1>2. [][GateStep]_vars => OtpGate
  BY PTL DEF OtpGate, GateStep
<1>3. QED
  BY <1>1, <1>2, InvHolds, PTL DEF Spec

(***************************************************************************)
(* One call, one session: the store attaches no session to another call,   *)
(* and no document hands a call another call's URLs (_resolve_session and  *)
(* the builders of app/ivr/xml_builder.py).                                *)
(***************************************************************************)
THEOREM OwnSessionHolds == Spec => []OwnSession
<1>1. Inv => OwnSession
  <2> SUFFICES ASSUME Inv PROVE OwnSession
    OBVIOUS
  <2>1. ASSUME NEW s \in Stored(store), store.sessions[s].call_uuid # None
        PROVE  calls[store.sessions[s].call_uuid].session_id = s
    <3>1. /\ s \in SessionIds /\ store.sessions[s] # None
          /\ store.sessions[s].call_uuid \in CallUuids
      BY <2>1 DEF Stored, Inv, TypeOK, Store, Session
    <3>2. QED
      BY <2>1, <3>1 DEF Inv, StoreFits, Owner
  <2>2. ASSUME NEW u \in CallUuids, Playing(u),
               NEW url \in {calls[u].doc.get_digits, calls[u].doc.dial, calls[u].doc.redirect},
               url # None
        PROVE  url.session_id = calls[u].session_id
    BY <2>2, PlayingFacts
  <2>3. QED
    BY <2>1, <2>2 DEF OwnSession
<1>2. QED
  BY <1>1, InvHolds, PTL
=============================================================================
