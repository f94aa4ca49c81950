------------------------ MODULE CallFlowCallerProofs ------------------------
(***************************************************************************)
(* Proofs about what the server knows of the caller: the invariant that    *)
(* ties every call to its session under every fault, and what it implies   *)
(* for the menus, the language, the counters and the operator; and that    *)
(* the call flow implements CallJourney.                                   *)
(***************************************************************************)
EXTENDS CallFlowProofs, CallFlowRefinement

-----------------------------------------------------------------------------
(* One call at a time, as CallerOK sees it *)

\* Nothing is in flight for a call whose document has webhooks yet to ask for.
LEMMA NothingFlying ==
    ASSUME NEW u, NEW call, NEW session, NEW flying, flying \subseteq Webhook,
           LiveOK(u, call, flying, session), call.doc # None, call.doc.says # "technical"
    PROVE  flying = {} /\ call.awaiting = None
<1>1. call.awaiting = None
  BY DEF LiveOK
<1>2. QED
  BY <1>1, FlowAssumption DEF LiveOK

\* A counter that is no further than another stays so when both count.
LEMMA CountTogether ==
    ASSUME NEW n \in 0..MaxInvalidInputs, NEW m \in 0..MaxInvalidInputs, n <= m
    PROVE  /\ CountUpTo(n, MaxInvalidInputs) <= CountUpTo(m, MaxInvalidInputs)
           /\ n <= CountUpTo(n, MaxInvalidInputs)
           /\ CountUpTo(n, MaxInvalidInputs) > 0
BY SessionAssumption DEF CountUpTo

\* What a document asked for is awaited: the caller's side of every input.
LEMMA AskingOK ==
    ASSUME NEW u, NEW call \in Call, NEW session \in Session \cup {None},
           NEW flying, flying \subseteq Webhook,
           LiveOK(u, call, flying, session),
           call.doc # None, call.doc.says \notin {"technical", "exhausted", "goodbye"},
           NEW w \in Webhook, NEW new \in Call,
           new.doc = None, new.awaiting = w,
           Awaitable(w, new.chosen),
           new.streak = IF Unrecognised(w) THEN CountUpTo(call.streak, MaxInvalidInputs)
                        ELSE IF Recognised(w) THEN 0 ELSE call.streak,
           new.wrongs = IF WrongCode(w) THEN CountUpTo(call.wrongs, MaxOtpAttempts)
                        ELSE call.wrongs,
           w.url.route \notin {"ANSWER", "FALLBACK"},
           w.url.route \in {"LANGUAGE_MENU", "LANGUAGE_SELECT", "MAIN_MENU_SELECT"}
               => call.doc.says \in Protected,
           w.url.route \in GuardedRoutes \cup {"ASSOCIATE_DIAL_STATUS"}
               => call.doc.says \in Protected \cup {"unavailable"}
    PROVE  LiveOK(u, new, flying \cup {w}, session)
<1>1. flying = {} /\ call.awaiting = None /\ w # None
  BY NothingFlying, FlowAssumption
<1>2. ~(Recognised(w) /\ Unrecognised(w))
  BY DEF Recognised, Unrecognised
<1>3. call.streak \in 0..MaxInvalidInputs /\ call.wrongs \in 0..MaxOtpAttempts
  BY DEF Call
<1>4. Unrecognised(w) => new.streak > 0
  BY <1>2, <1>3, CountTogether
<1>5. ASSUME session # None
      PROVE  SessionFits(u, new, session)
  <2>1. session \in Session /\ SessionFits(u, call, session)
    BY <1>5 DEF LiveOK
  <2>2. /\ session.consecutive_unrecognized_inputs \in 0..MaxInvalidInputs
        /\ session.otp_attempts \in 0..MaxOtpAttempts
    BY <2>1 DEF Session
  <2>3. Attached(u, new, session)
    BY <1>1, <2>1 DEF SessionFits, Attached
  <2>4. AuthKept(new, session)
    BY <2>1 DEF SessionFits, AuthKept
  <2>5. session.consecutive_unrecognized_inputs <= call.streak
    BY <1>1, <2>1 DEF SessionFits, Counted
  <2>6. Counted(new, session)
    BY <1>1, <1>2, <1>3, <2>2, <2>5, CountTogether DEF Counted
  <2>7. AttemptsFit(new, session)
    BY <1>1, <2>1 DEF SessionFits, AttemptsFit
  <2>8. Remembered(new, session)
    BY <1>1, <1>2, <2>1 DEF SessionFits, Remembered
  <2>9. QED
    BY <2>3, <2>4, <2>6, <2>7, <2>8 DEF SessionFits
<1>6. QED
  BY <1>1, <1>4, <1>5 DEF LiveOK

\* What a handler knows of the caller from the session it resolved: what the
\* stored session told, or nothing.
Known(u, call, old) ==
    \/ SessionFits(u, call, old)
    \/ /\ old.call_uuid = u
       /\ ~old.is_authenticated
       /\ old.otp_attempts = 0
       /\ old.consecutive_unrecognized_inputs = 0
       /\ Recreated(old)

\* Touching or ageing a session tells no more and no less of the caller.
LEMMA FitsKept ==
    ASSUME NEW u, NEW call, NEW new, NEW old, Kept(new, old), SessionFits(u, call, old)
    PROVE  SessionFits(u, call, new)
BY DEF Kept, Counts, Recreated, SessionFits, Attached, AuthKept, Counted, AttemptsFit,
       Remembered, AttemptsExhausted

\* The language an awaited menu webhook is answered in is the chosen one.
LEMMA ChosenLanguage ==
    ASSUME NEW call, NEW w, Awaitable(w, call.chosen), NEW old,
           w.url.route \in {"MAIN_MENU", "MAIN_MENU_SELECT", "ASSOCIATE_DIAL_STATUS"}
    PROVE  LanguageFor(old, w) = call.chosen /\ call.chosen # None
BY DEF Awaitable, LanguageFor

\* Whatever is answered is one of the documents of the caller's language.
LEMMA AnswersInLanguage ==
    ASSUME NEW call, NEW w, Awaitable(w, call.chosen), NEW s, NEW old, NEW new, NEW doc,
           Answers(w, s, old, new, doc)
    PROVE  doc \in DocumentsOf(s, call.chosen)
<1>1. w.url.route \in {"MAIN_MENU", "MAIN_MENU_SELECT", "ASSOCIATE_DIAL_STATUS"} =>
         LanguageFor(old, w) = call.chosen /\ call.chosen # None
  BY ChosenLanguage
<1>2. w.url.route = "LANGUAGE_SELECT" /\ w.digits \in {"1", "2"} =>
         FromMenuDigit(w.digits) = call.chosen /\ call.chosen # None
  BY SessionAssumption DEF Awaitable, FromMenuDigit, Languages
<1>3. CASE AnswersAnybody(w, s, old, new, doc)
  BY <1>1, <1>3 DEF AnswersAnybody, DocumentsOf, Awaitable
<1>4. CASE AnswersPastCode(w, s, old, new, doc)
  BY <1>1, <1>2, <1>4 DEF AnswersPastCode, DocumentsOf
<1>5. CASE doc = BuildOtpPrompt(s)
  BY <1>5 DEF DocumentsOf
<1>6. QED
  BY <1>3, <1>4, <1>5 DEF Answers

\* The end of the attempts is announced when, and only when, they are used up.
LEMMA ExhaustedMeans ==
    ASSUME NEW w, NEW s, NEW old, NEW new, NEW doc, Answers(w, s, old, new, doc),
           WrongCode(w)
    PROVE  doc.says = "exhausted" <=> AttemptsExhausted(new)
<1>1. w.url.route = "OTP_VERIFY" /\ w.digits \notin {"", "#"} /\ ~CodeEntered(w)
  BY DEF WrongCode, CodeEntered
<1>2. ~AnswersPastCode(w, s, old, new, doc) /\ ~TurnedAway(w, old)
  BY <1>1 DEF AnswersPastCode, TurnedAway, GuardedRoutes
<1>3. AnswersAnybody(w, s, old, new, doc)
  BY <1>2 DEF Answers
<1>4. \/ doc = BuildOtpPrompt(s) /\ ~AttemptsExhausted(new)
      \/ doc = BuildTerminatingMessage("exhausted") /\ AttemptsExhausted(new)
  BY <1>1, <1>3 DEF AnswersAnybody
<1>5. /\ BuildOtpPrompt(s).says = "otp_prompt"
      /\ BuildTerminatingMessage("exhausted").says = "exhausted"
  BY DEF BuildOtpPrompt, BuildTerminatingMessage, Speak
<1>6. QED
  BY <1>4, <1>5

\* What each document says.
LEMMA BuildersSay ==
    /\ \A s : /\ BuildOtpPrompt(s).says = "otp_prompt"
              /\ BuildOtpAccepted(s).says = "otp_accepted"
              /\ BuildLanguageMenu(s).says = "language_menu"
    /\ \A s, language :
          /\ BuildMainMenu(s, language).says = "main_menu"
          /\ BuildPlayAudioMessage(s, language).says = "audio"
          /\ BuildConnectToAssociate(s, language).says = "connecting"
          /\ BuildAssociateUnavailable(s, language).says = "unavailable"
    /\ \A language : BuildGoodbye(language).says = "goodbye"
    /\ BuildTerminatingMessage("exhausted").says = "exhausted"
    /\ BuildTerminatingMessage("technical").says = "technical"
    /\ BuildEmptyResponse.says = "nothing"
BY DEF BuildOtpPrompt, BuildOtpAccepted, BuildLanguageMenu, BuildMainMenu,
       BuildPlayAudioMessage, BuildConnectToAssociate, BuildAssociateUnavailable,
       BuildGoodbye, BuildTerminatingMessage, BuildEmptyResponse, Speak

\* Nobody is asked again once patience is used up.
LEMMA AskedOrParted ==
    ASSUME NEW w, NEW s, NEW old, NEW new, NEW doc, Answers(w, s, old, new, doc),
           Unrecognised(w), ~TurnedAway(w, old)
    PROVE  ~OutOfPatience(new) \/ doc.says = "goodbye"
<1>1. ~CodeEntered(w) /\ ~WrongCode(w) /\ ~Recognised(w)
  BY DEF Unrecognised, CodeEntered, WrongCode, Recognised
<1>2. CASE AnswersAnybody(w, s, old, new, doc)
  <2>1. w.url.route \notin {"ANSWER", "ASSOCIATE_DIAL_STATUS", "HANGUP_EVENT", "FALLBACK"}
    BY DEF Unrecognised
  <2>2. Asks(w, new, "awaiting_otp") \/ Asks(w, new, old.stage) \/ doc = BuildGoodbye(None)
    BY <1>1, <1>2, <2>1, Zenon DEF AnswersAnybody
  <2>3. QED
    BY <2>2, BuildersSay DEF Asks
<1>3. CASE AnswersPastCode(w, s, old, new, doc)
  <2>1. \/ \E stage : Asks(w, new, stage)
        \/ doc = BuildGoodbye(None) \/ doc = BuildGoodbye(LanguageFor(old, w))
        \/ Recognised(w)
    BY <1>3 DEF AnswersPastCode, Recognised
  <2>2. QED
    BY <1>1, <2>1, BuildersSay DEF Asks
<1>4. QED
  BY <1>2, <1>3 DEF Answers

\* What a session remembers from the start, it remembers after an awaited
\* webhook is answered.
LEMMA RememberedAnswered ==
    ASSUME NEW call \in Call, NEW w \in Webhook, w = call.awaiting, w # None, call.doc = None,
           NEW old \in Session, Remembered(call, old), ~Recreated(old),
           NEW new \in Session, Effect(w, old, new),
           NEW s, NEW doc \in Document, doc # None, Answers(w, s, old, new, doc),
           NEW after \in Call, after.doc = doc, after.awaiting = None,
           after.streak = call.streak
    PROVE  Remembered(after, new)
<1> DEFINE count == old.consecutive_unrecognized_inputs
<1>1. /\ ~TurnedAway(w, old) /\ count < MaxInvalidInputs
      /\ w.url.route \in GuardedRoutes \cup {"ASSOCIATE_DIAL_STATUS"} => old.is_authenticated
      /\ call.streak = IF Unrecognised(w) THEN CountUpTo(count, MaxInvalidInputs)
                       ELSE IF Recognised(w) THEN 0 ELSE count
  BY DEF Remembered, Recreated, TurnedAway
<1>2. new.consecutive_unrecognized_inputs = call.streak
  BY <1>1 DEF Effect
<1>3. doc.says \in Protected \cup {"unavailable"} => new.is_authenticated
  BY <1>1, BuildersSay, Zenon DEF Answers, AnswersAnybody, AnswersPastCode, Protected, Effect
<1>4. new.consecutive_unrecognized_inputs < MaxInvalidInputs \/ doc.says = "goodbye"
  <2>1. MaxInvalidInputs \in Nat \ {0} /\ new.consecutive_unrecognized_inputs \in Nat
    BY Bounds, SessionAssumption DEF Session
  <2>2. CASE Unrecognised(w)
    <3>1. ~OutOfPatience(new) \/ doc.says = "goodbye"
      BY <1>1, <2>2, AskedOrParted
    <3>2. QED
      BY <2>1, <3>1 DEF OutOfPatience
  <2>3. CASE ~Unrecognised(w)
    BY <1>1, <1>2, <2>1, <2>3
  <2>4. QED
    BY <2>2, <2>3
<1>5. doc.says = "exhausted" => AttemptsExhausted(new)
  <2> SUFFICES ASSUME doc.says = "exhausted" PROVE AttemptsExhausted(new)
    OBVIOUS
  <2>1. /\ doc # BuildOtpPrompt(s) /\ doc # BuildOtpAccepted(s)
        /\ \A language : /\ doc # BuildAssociateUnavailable(s, language)
                         /\ doc # BuildGoodbye(language)
        /\ doc # BuildTerminatingMessage("technical")
        /\ doc # BuildEmptyResponse
    BY BuildersSay
  <2>2. ~AnswersPastCode(w, s, old, new, doc)
    BY BuildersSay DEF AnswersPastCode
  <2>3. QED
    BY <1>1, <2>1, <2>2, Zenon DEF Answers, AnswersAnybody
<1>6. QED
  BY <1>2, <1>3, <1>4, <1>5 DEF Remembered

\* An awaited webhook is answered: the caller hears a document of the flow, and
\* the session saved fits what the caller has lived through.
LEMMA HeardOK ==
    ASSUME NEW u \in CallUuids, NEW call \in Call, NEW session, NEW flying,
           LiveOK(u, call, flying, session),
           NEW w \in Webhook, w = call.awaiting, w.call_uuid = u,
           NEW old \in Session, Known(u, call, old),
           NEW new \in Session, Effect(w, old, new),
           NEW doc \in Document, Answers(w, call.session_id, old, new, doc),
           doc.says \in Protected => new.is_authenticated,
           NEW after \in Call, after.doc = doc, after.awaiting = None,
           after.session_id = call.session_id, after.streak = call.streak,
           after.wrongs = call.wrongs, after.chosen = call.chosen
    PROVE  LiveOK(u, after, flying \ {w}, new)
<1> DEFINE route == w.url.route
           count == old.consecutive_unrecognized_inputs
<1>1. /\ w # None /\ doc # None /\ new # None
      /\ call.awaiting # None /\ call.doc = None
      /\ Awaitable(w, call.chosen)
      /\ Unrecognised(w) => call.streak > 0
  BY FlowAssumption, DocumentAssumption, SessionAssumption DEF LiveOK
<1>2. doc \in DocumentsOf(after.session_id, after.chosen)
  BY <1>1, AnswersInLanguage
<1>3. route = "FALLBACK" => doc.says = "technical"
  <2>1. route = "FALLBACK" => doc = BuildTerminatingMessage("technical")
    BY DEF Answers, AnswersAnybody, AnswersPastCode, TurnedAway, GuardedRoutes, CodeEntered,
       WrongCode
  <2>2. QED
    BY <2>1 DEF BuildTerminatingMessage, Speak
<1>4. ASSUME NEW x \in flying \ {w}
      PROVE  x.url.route = "ANSWER" /\ after.doc.says = "technical"
  BY <1>1, <1>3, <1>4 DEF LiveOK
<1>5. Attached(u, after, new)
  <2>1. route \notin {"ANSWER", "FALLBACK"} => old.call_uuid = u
    BY <1>1 DEF Known, SessionFits, Attached
  <2>2. route # "HANGUP_EVENT"
    BY <1>1 DEF Awaitable
  <2>3. QED
    BY <1>1, <1>3, <2>1, <2>2 DEF Attached, Effect
<1>6. AuthKept(after, new)
  BY DEF AuthKept
<1>7. Counted(after, new)
  <2>1. /\ count \in 0..MaxInvalidInputs /\ call.streak \in 0..MaxInvalidInputs
        /\ CountUpTo(count, MaxInvalidInputs) \in 0..MaxInvalidInputs
        /\ count <= CountUpTo(count, MaxInvalidInputs)
    BY SessionAssumption DEF Session, Call, CountUpTo
  <2>2. SUFFICES new.consecutive_unrecognized_inputs <= call.streak
    BY <1>1 DEF Counted
  <2>3. CASE Unrecognised(w)
    <3>1. CountUpTo(count, MaxInvalidInputs) <= call.streak
      BY <1>1, <2>1, <2>3, SessionAssumption DEF Known, SessionFits, Counted, CountUpTo
    <3>2. ~Recognised(w)
      BY <2>3 DEF Unrecognised, Recognised
    <3>3. QED
      BY <2>1, <2>3, <3>1, <3>2 DEF Effect
  <2>4. CASE Recognised(w)
    <3>1. ~Unrecognised(w)
      BY <2>4 DEF Unrecognised, Recognised
    <3>2. TurnedAway(w, old) => count = 0
      BY <1>1, <2>4 DEF TurnedAway, GuardedRoutes, Known, SessionFits, AuthKept, Recognised
    <3>3. QED
      BY <2>1, <2>4, <3>1, <3>2 DEF Effect
  <2>5. CASE ~Unrecognised(w) /\ ~Recognised(w)
    BY <1>1, <2>1, <2>5 DEF Known, SessionFits, Counted, Effect
  <2>6. QED
    BY <2>3, <2>4, <2>5
<1>8. AttemptsFit(after, new)
  <2>1. CASE Recreated(old)
    BY <2>1 DEF Effect, Recreated, AttemptsFit
  <2>2. CASE ~Recreated(old)
    <3>1. /\ call.wrongs = IF WrongCode(w) THEN CountUpTo(old.otp_attempts, MaxOtpAttempts)
                           ELSE old.otp_attempts
          /\ MaxOtpAttempts = 0 \/ old.otp_attempts < MaxOtpAttempts
      BY <1>1, <2>2 DEF Known, SessionFits, AttemptsFit, Recreated
    <3>2. after.wrongs = new.otp_attempts
      BY <3>1 DEF Effect
    <3>3. CASE WrongCode(w)
      <4>1. doc.says = "exhausted" \/ ~AttemptsExhausted(new)
        BY <3>3, ExhaustedMeans
      <4>2. new.otp_attempts \in Nat /\ MaxOtpAttempts \in Nat
        BY Bounds DEF Session
      <4>3. \/ MaxOtpAttempts = 0
            \/ new.otp_attempts < MaxOtpAttempts
            \/ doc.says = "exhausted"
        BY <4>1, <4>2 DEF AttemptsExhausted
      <4>4. QED
        BY <1>1, <3>2, <4>3 DEF AttemptsFit
    <3>4. CASE ~WrongCode(w)
      BY <1>1, <3>1, <3>2, <3>4 DEF AttemptsFit, Effect
    <3>5. QED
      BY <3>3, <3>4
  <2>3. QED
    BY <2>1, <2>2
<1>9. Remembered(after, new)
  <2>1. CASE Recreated(old)
    BY <2>1 DEF Effect, Recreated, Remembered
  <2>2. CASE ~Recreated(old)
    <3>1. Remembered(call, old)
      BY <2>2 DEF Known, SessionFits
    <3>2. QED
      BY <1>1, <2>2, <3>1, RememberedAnswered
  <2>3. QED
    BY <2>1, <2>2
<1>10. QED
  BY <1>1, <1>2, <1>4, <1>5, <1>6, <1>7, <1>8, <1>9 DEF LiveOK, SessionFits

\* A webhook Plivo gave up is answered to nobody: only an answer webhook that
\* came late, and its session still fits.
LEMMA UnheardOK ==
    ASSUME NEW u \in CallUuids, NEW call \in Call, NEW session, NEW flying,
           LiveOK(u, call, flying, session),
           NEW w \in flying, w # call.awaiting, w \in Webhook, w.call_uuid = u,
           NEW old \in Session, Known(u, call, old),
           NEW new \in Session, Effect(w, old, new)
    PROVE  LiveOK(u, call, flying \ {w}, new)
<1>1. /\ w.url.route = "ANSWER"
      /\ \/ call.doc # None /\ call.doc.says = "technical"
         \/ call.awaiting # None /\ call.awaiting.url.route = "FALLBACK"
      /\ (call.doc = None) <=> (call.awaiting # None)
      /\ new # None
  BY SessionAssumption DEF LiveOK
<1>2. /\ ~CodeEntered(w) /\ ~WrongCode(w) /\ ~Unrecognised(w) /\ ~Recognised(w)
      /\ new.call_uuid = u
      /\ new.otp_attempts = old.otp_attempts
      /\ new.consecutive_unrecognized_inputs = old.consecutive_unrecognized_inputs
      /\ Recreated(new) <=> Recreated(old)
  BY <1>1 DEF CodeEntered, WrongCode, Unrecognised, Recognised, Effect
<1>3. call.awaiting # None =>
         /\ ~WrongCode(call.awaiting)
         /\ ~Unrecognised(call.awaiting) /\ ~Recognised(call.awaiting)
  BY <1>1 DEF WrongCode, Unrecognised, Recognised
<1>4. call.streak \in 0..MaxInvalidInputs
  BY DEF Call
<1>5. Attached(u, call, new) /\ AuthKept(call, new)
  BY <1>1, <1>2 DEF Attached, AuthKept, Protected
<1>6. Counted(call, new)
  BY <1>1, <1>2, <1>3, <1>4 DEF Known, SessionFits, Counted
<1>7. AttemptsFit(call, new)
  BY <1>2 DEF Known, SessionFits, AttemptsFit, Recreated
<1>8. Remembered(call, new)
  <2>1. CASE Recreated(new)
    BY <2>1 DEF Remembered, Recreated
  <2>2. CASE ~Recreated(new)
    <3>1. Remembered(call, old) /\ ~Recreated(old)
      BY <1>2, <2>2 DEF Known, SessionFits
    <3>2. new.is_authenticated <=> old.is_authenticated
      BY <1>2 DEF Effect
    <3>3. AttemptsExhausted(new) <=> AttemptsExhausted(old)
      BY <1>2 DEF AttemptsExhausted
    <3>4. QED
      BY <1>2, <3>1, <3>2, <3>3 DEF Remembered, Recreated
  <2>3. QED
    BY <2>1, <2>2
<1>9. QED
  BY <1>1, <1>5, <1>6, <1>7, <1>8 DEF LiveOK, SessionFits

-----------------------------------------------------------------------------
(* What a document leads to *)

\* The documents that collect digits.
LEMMA AsksMeans ==
    ASSUME NEW s, NEW chosen, NEW doc \in DocumentsOf(s, chosen), doc.get_digits # None
    PROVE  \/ /\ doc.says = "otp_prompt"
              /\ doc.get_digits = CallbackUrl("OTP_VERIFY", s, None, None)
              /\ doc.redirect = CallbackUrl("OTP_PROMPT", s, None, "no_input")
           \/ /\ doc.says = "language_menu"
              /\ doc.get_digits = CallbackUrl("LANGUAGE_SELECT", s, None, None)
              /\ doc.redirect = CallbackUrl("LANGUAGE_MENU", s, None, "no_input")
           \/ /\ doc.says = "main_menu" /\ chosen # None
              /\ doc.get_digits = CallbackUrl("MAIN_MENU_SELECT", s, chosen, None)
              /\ doc.redirect = CallbackUrl("MAIN_MENU", s, chosen, "no_input")
<1>1. \/ doc = BuildOtpPrompt(s) \/ doc = BuildLanguageMenu(s)
      \/ doc = BuildMainMenu(s, chosen) /\ chosen # None
  BY DEF DocumentsOf, BuildOtpPrompt, BuildOtpAccepted, BuildLanguageMenu, BuildMainMenu,
         BuildPlayAudioMessage, BuildConnectToAssociate, BuildAssociateUnavailable,
         BuildGoodbye, BuildTerminatingMessage, Speak
<1>2. QED
  BY <1>1 DEF BuildOtpPrompt, BuildLanguageMenu, BuildMainMenu, Speak

\* The documents that are spoken to the end and lead on.
LEMMA SpokenMeans ==
    ASSUME NEW s \in SessionIds, NEW chosen \in Languages \cup {None},
           NEW doc \in DocumentsOf(s, chosen),
           doc.get_digits = None, doc.dial = None, ~doc.hangup
    PROVE  \/ /\ doc.says = "otp_accepted"
              /\ doc.redirect = CallbackUrl("LANGUAGE_MENU", s, None, None)
           \/ /\ doc.says \in {"audio", "unavailable"} /\ chosen # None
              /\ doc.redirect = CallbackUrl("MAIN_MENU", s, chosen, None)
<1>1. /\ CallbackUrl("OTP_VERIFY", s, None, None) # None
      /\ CallbackUrl("LANGUAGE_SELECT", s, None, None) # None
      /\ CallbackUrl("MAIN_MENU_SELECT", s, chosen, None) # None
      /\ CallbackUrl("ASSOCIATE_DIAL_STATUS", s, chosen, None) # None
  BY CallbackUrlType, DocumentAssumption DEF Routes
<1>2. \/ doc = BuildOtpAccepted(s)
      \/ doc = BuildPlayAudioMessage(s, chosen) /\ chosen # None
      \/ doc = BuildAssociateUnavailable(s, chosen) /\ chosen # None
  BY <1>1 DEF DocumentsOf, BuildOtpPrompt, BuildOtpAccepted, BuildLanguageMenu, BuildMainMenu,
         BuildPlayAudioMessage, BuildConnectToAssociate, BuildAssociateUnavailable,
         BuildGoodbye, BuildTerminatingMessage, Speak
<1>3. QED
  BY <1>2 DEF BuildOtpAccepted, BuildPlayAudioMessage, BuildAssociateUnavailable, Speak

\* The document that transfers the call.
LEMMA DialsMeans ==
    ASSUME NEW s, NEW chosen, NEW doc \in DocumentsOf(s, chosen), doc.dial # None
    PROVE  /\ doc.says = "connecting" /\ chosen # None
           /\ doc.dial = CallbackUrl("ASSOCIATE_DIAL_STATUS", s, chosen, None)
<1>1. doc = BuildConnectToAssociate(s, chosen) /\ chosen # None
  BY DEF DocumentsOf, BuildOtpPrompt, BuildOtpAccepted, BuildLanguageMenu, BuildMainMenu,
         BuildPlayAudioMessage, BuildConnectToAssociate, BuildAssociateUnavailable,
         BuildGoodbye, BuildTerminatingMessage, Speak
<1>2. QED
  BY <1>1 DEF BuildConnectToAssociate, Speak

-----------------------------------------------------------------------------
(* The parts of a step that disturb nobody *)

\* A session as it may be found later: gone, or with the same knowledge.
Left(new, old) == new = None \/ (old # None /\ Kept(new, old))

\* A session that is left alone is left.
LEMMA LeftAlone ==
    ASSUME NEW new, NEW old, new \in {None, old}
    PROVE  Left(new, old)
BY DEF Left, Kept, Counts

\* Losing its session, or webhooks in flight, is never held against a call.
LEMMA UndisturbedOK ==
    ASSUME NEW u, NEW call, NEW flying, NEW old, CallerOK(u, call, flying, old),
           NEW less, less \subseteq flying, NEW new, Left(new, old)
    PROVE  CallerOK(u, call, less, new)
<1>1. CASE new = None
  BY <1>1 DEF CallerOK, Unheard, RingingOK, LiveOK
<1>2. CASE old # None /\ Kept(new, old)
  <2>1. SessionFits(u, call, old) => SessionFits(u, call, new)
    BY <1>2, FitsKept
  <2>2. call.status \in {"unplaced", "ringing"} => Unheard(call, less)
    BY DEF CallerOK, Unheard
  <2>3. call.status = "ringing" => RingingOK(new)
    BY <1>2 DEF CallerOK, RingingOK, Kept, Counts
  <2>4. call.status = "live" => LiveOK(u, call, less, new)
    BY <1>2, <2>1 DEF CallerOK, LiveOK
  <2>5. QED
    BY <2>2, <2>3, <2>4 DEF CallerOK
<1>3. QED
  BY <1>1, <1>2 DEF Left

\* The session of an untouched call, after a step.
LEMMA SessionLeft ==
    ASSUME Inv, NEW v \in CallUuids, calls'[v].session_id = calls[v].session_id,
           \A s \in SessionIds : s = calls[v].session_id =>
              Left(store'.sessions[s], store.sessions[s])
    PROVE  Left(SessionOf(v)', SessionOf(v))
<1>1. calls[v].session_id \in SessionIds \cup {None}
  BY DEF Inv, TypeOK, Call
<1>2. QED
  BY <1>1, LeftAlone DEF SessionOf

\* A call the step does not concern.
LEMMA OthersOK ==
    ASSUME Inv, CallersInv, NEW v \in CallUuids, calls'[v] = calls[v],
           \A w \in inflight' : w.call_uuid = v => w \in inflight,
           \A s \in SessionIds : s = calls[v].session_id =>
              Left(store'.sessions[s], store.sessions[s])
    PROVE  CallerOK(v, calls[v], FlyingOf(v), SessionOf(v))'
<1>1. Left(SessionOf(v)', SessionOf(v))
  BY SessionLeft
<1>2. FlyingOf(v)' \subseteq FlyingOf(v)
  BY DEF FlyingOf
<1>3. CallerOK(v, calls[v], FlyingOf(v), SessionOf(v))
  BY DEF CallersInv
<1>4. CallerOK(v, calls[v], FlyingOf(v)', SessionOf(v)')
  BY <1>1, <1>2, <1>3, UndisturbedOK
<1>5. QED
  BY <1>4

\* Who stays verified has kept a session that says so.
LEMMA VerifiedLeft ==
    ASSUME Inv, KnownVerified, NEW u \in verified,
           calls'[u].session_id = calls[u].session_id,
           \A s \in SessionIds : Left(store'.sessions[s], store.sessions[s]),
           calls[u].session_id \in Stored(store')
    PROVE  SessionOf(u)' # None /\ SessionOf(u)'.is_authenticated
<1>1. u \in CallUuids /\ SessionOf(u) # None /\ SessionOf(u).is_authenticated
  BY DEF Inv, TypeOK, KnownVerified
<1>2. SessionOf(u)' # None
  <2>1. /\ calls[u].session_id \in SessionIds
        /\ store'.sessions[calls[u].session_id] # None
    BY DEF Stored
  <2>2. QED
    BY <2>1, SessionAssumption DEF SessionOf
<1>3. Left(SessionOf(u)', SessionOf(u))
  BY <1>1, SessionLeft
<1>4. QED
  BY <1>1, <1>2, <1>3 DEF Left, Kept, Counts

\* A step that leaves or loses sessions, and places no call: only the calls it
\* changes have to be looked at.
LEMMA QuietKeeps ==
    ASSUME Inv, CallersInv,
           \A s \in SessionIds : Left(store'.sessions[s], store.sessions[s]),
           \A u \in verified' : u \in verified /\ calls[u].session_id \in Stored(store'),
           \A v \in CallUuids :
              /\ calls'[v].session_id = calls[v].session_id
              /\ \/ /\ calls'[v] = calls[v]
                    /\ \A w \in inflight' : w.call_uuid = v => w \in inflight
                 \/ CallerOK(v, calls[v], FlyingOf(v), SessionOf(v))'
    PROVE  CallersInv'
<1>1. ASSUME NEW v \in CallUuids
      PROVE  CallerOK(v, calls[v], FlyingOf(v), SessionOf(v))'
  BY <1>1, OthersOK
<1>2. ASSUME NEW u \in verified'
      PROVE  SessionOf(u)' # None /\ SessionOf(u)'.is_authenticated
  <2>1. u \in verified /\ u \in CallUuids
    BY <1>2 DEF Inv, TypeOK
  <2>2. QED
    BY <1>2, <2>1, VerifiedLeft DEF CallersInv
<1>3. KnownVerified'
  BY <1>2 DEF KnownVerified
<1>4. QED
  BY <1>1, <1>3 DEF CallersInv

\* When the store is not looked at, nobody's session or standing changes.
LEMMA NothingLeft ==
    ASSUME Inv, KnownVerified, UNCHANGED <<store, verified>>
    PROVE  /\ \A s \in SessionIds : Left(store'.sessions[s], store.sessions[s])
           /\ \A u \in verified' : u \in verified /\ calls[u].session_id \in Stored(store')
<1>1. \A s \in SessionIds : Left(store'.sessions[s], store.sessions[s])
  BY LeftAlone
<1>2. ASSUME NEW u \in verified
      PROVE  calls[u].session_id \in Stored(store)
  <2>1. SessionOf(u) # None /\ calls[u] \in Call
    BY <1>2 DEF KnownVerified, Inv, TypeOK
  <2>2. QED
    BY <2>1 DEF SessionOf, Stored, Call
<1>3. QED
  BY <1>1, <1>2

-----------------------------------------------------------------------------
(* What Plivo and the caller do *)

\* A call left waiting for the answer to this webhook fits what the server has.
Sendable(u, url, digits, dial_status, call) ==
    \A w \in Webhook, new \in Call :
       /\ w.url = url /\ w.digits = digits /\ w.dial_status = dial_status
       /\ new.doc = None /\ new.awaiting = w
       /\ new.streak = call.streak /\ new.wrongs = call.wrongs /\ new.chosen = call.chosen
       => LiveOK(u, new, FlyingOf(u) \cup {w}, SessionOf(u))

\* A live call sends a webhook: it must fit what the server will find.
LEMMA SendCallers ==
    ASSUME Inv, CallersInv, NEW u \in CallUuids, NEW call \in Call, NEW url \in Url,
           NEW digits \in OtpEntries \cup MenuKeys \cup {""},
           NEW dial_status \in DialStatuses \cup {""},
           call.session_id = calls[u].session_id, call.status = "live",
           Send(u, url, digits, dial_status, call),
           Sendable(u, url, digits, dial_status, call)
    PROVE  CallersInv'
<1> DEFINE sent == [url |-> url, call_uuid |-> u, digits |-> digits,
                    dial_status |-> dial_status]
           silent == [call EXCEPT !.doc = None]
           waiting == [silent EXCEPT !.awaiting = sent]
<1>1. /\ sent \in Webhook /\ sent.url = url /\ sent.call_uuid = u
      /\ sent.digits = digits /\ sent.dial_status = dial_status
  BY DEF Webhook
<1>2. /\ silent \in Call /\ silent.doc = None /\ silent.status = "live"
      /\ silent.session_id = call.session_id /\ silent.streak = call.streak
      /\ silent.wrongs = call.wrongs /\ silent.chosen = call.chosen
  BY DEF Call
<1>3. /\ calls' = [calls EXCEPT ![u] = waiting] /\ inflight' = inflight \cup {sent}
      /\ UNCHANGED <<store, verified>>
  BY DEF Send
<1> HIDE DEF sent, silent
<1>4. /\ waiting \in Call /\ waiting.doc = None /\ waiting.awaiting = sent
      /\ waiting.status = "live" /\ waiting.session_id = call.session_id
      /\ waiting.streak = call.streak /\ waiting.wrongs = call.wrongs
      /\ waiting.chosen = call.chosen
  BY <1>1, <1>2 DEF Call
<1> HIDE DEF waiting
<1>5. calls \in [CallUuids -> Call]
  BY DEF Inv, TypeOK
<1>6. /\ calls'[u] = waiting
      /\ \A v \in CallUuids \ {u} : calls'[v] = calls[v]
  BY <1>3, <1>5
<1>7. FlyingOf(u)' = FlyingOf(u) \cup {sent}
  BY <1>1, <1>3 DEF FlyingOf
<1>8. SessionOf(u)' = SessionOf(u)
  <2>1. calls'[u].session_id = calls[u].session_id /\ store' = store
    BY <1>3, <1>4, <1>6
  <2>2. QED
    BY <2>1 DEF SessionOf
<1>9. LiveOK(u, waiting, FlyingOf(u) \cup {sent}, SessionOf(u))
  BY <1>1, <1>4 DEF Sendable
<1>10. CallerOK(u, calls[u], FlyingOf(u), SessionOf(u))'
  BY <1>4, <1>6, <1>7, <1>8, <1>9 DEF CallerOK
<1>11. /\ \A s \in SessionIds : Left(store'.sessions[s], store.sessions[s])
       /\ \A x \in verified' : x \in verified /\ calls[x].session_id \in Stored(store')
  BY <1>3, NothingLeft DEF CallersInv
<1>12. ASSUME NEW v \in CallUuids \ {u}
       PROVE  /\ calls'[v] = calls[v]
              /\ \A w \in inflight' : w.call_uuid = v => w \in inflight
  BY <1>1, <1>3, <1>6, <1>12
<1>13. calls'[u].session_id = calls[u].session_id
  BY <1>4, <1>6
<1>14. \A v \in CallUuids :
          /\ calls'[v].session_id = calls[v].session_id
          /\ \/ /\ calls'[v] = calls[v]
                /\ \A w \in inflight' : w.call_uuid = v => w \in inflight
             \/ CallerOK(v, calls[v], FlyingOf(v), SessionOf(v))'
  BY <1>10, <1>12, <1>13
<1>15. QED
  BY <1>11, <1>14, QuietKeeps

\* A call that is over is held to nothing; sessions may be lost meanwhile.
LEMMA DropCallers ==
    ASSUME Inv, CallersInv, NEW u \in CallUuids, LineDrops(u),
           \A s \in SessionIds : Left(store'.sessions[s], store.sessions[s]),
           \A x \in verified' : x \in verified /\ calls[x].session_id \in Stored(store')
    PROVE  CallersInv'
<1> DEFINE over == Over(calls[u])
<1>1. /\ calls \in [CallUuids -> Call]
      /\ over.status = "ended" /\ over.session_id = calls[u].session_id
  BY DEF Inv, TypeOK, Over, NoCall
<1>2. calls' = [calls EXCEPT ![u] = over] /\ inflight' = inflight \cup {HangupWebhook(u)}
  BY <1>1 DEF LineDrops
<1> HIDE DEF over
<1>3. calls'[u] = over /\ \A v \in CallUuids \ {u} : calls'[v] = calls[v]
  BY <1>1, <1>2
<1>4. CallerOK(u, calls[u], FlyingOf(u), SessionOf(u))'
  BY <1>1, <1>3 DEF CallerOK
<1>5. ASSUME NEW v \in CallUuids \ {u}
      PROVE  \A w \in inflight' : w.call_uuid = v => w \in inflight
  <2>1. HangupWebhook(u).call_uuid = u
    BY DEF HangupWebhook
  <2>2. QED
    BY <1>2, <1>5, <2>1
<1>6. \A v \in CallUuids :
         /\ calls'[v].session_id = calls[v].session_id
         /\ \/ /\ calls'[v] = calls[v]
               /\ \A w \in inflight' : w.call_uuid = v => w \in inflight
            \/ CallerOK(v, calls[v], FlyingOf(v), SessionOf(v))'
  BY <1>1, <1>3, <1>4, <1>5
<1>7. QED
  BY <1>6, QuietKeeps

\* What is known of a live call and of what it plays.
LEMMA PlayingCaller ==
    ASSUME Inv, CallersInv, NEW u \in CallUuids, calls[u].status = "live"
    PROVE  /\ calls[u] \in Call /\ calls[u].session_id \in SessionIds
           /\ SessionOf(u) \in Session \cup {None}
           /\ FlyingOf(u) \subseteq Webhook
           /\ LiveOK(u, calls[u], FlyingOf(u), SessionOf(u))
<1>1. calls[u] \in Call /\ calls[u].session_id \in SessionIds
  BY DEF Inv, TypeOK, PlacedOK, Call
<1>2. SessionOf(u) \in Session \cup {None}
  BY <1>1 DEF SessionOf, Inv, TypeOK, Store
<1>3. FlyingOf(u) \subseteq Webhook
  BY DEF FlyingOf, Inv, TypeOK
<1>4. QED
  BY <1>1, <1>2, <1>3 DEF CallersInv, CallerOK

\* A caller who keys something in is answered for what was keyed in.
LEMMA PressesCallers ==
    ASSUME Inv, CallersInv, NEW u \in CallUuids, CallerPresses(u)
    PROVE  CallersInv'
<1> DEFINE doc == calls[u].doc
           s == calls[u].session_id
<1>1. PICK digits \in IF doc.get_digits.route = "OTP_VERIFY" THEN OtpEntries ELSE MenuKeys :
         Send(u, doc.get_digits, digits, "", AfterPressing(calls[u], digits))
  BY DEF CallerPresses
<1>2. /\ calls[u].status = "live" /\ doc # None /\ doc.get_digits # None
      /\ doc.get_digits \in Url
      /\ digits \in OtpEntries \cup MenuKeys
  BY PlayingFacts DEF CallerPresses, Playing
<1>3. /\ calls[u] \in Call /\ SessionOf(u) \in Session \cup {None}
      /\ FlyingOf(u) \subseteq Webhook
      /\ LiveOK(u, calls[u], FlyingOf(u), SessionOf(u))
  BY <1>2, PlayingCaller
<1> DEFINE call == AfterPressing(calls[u], digits)
<1>4. /\ call \in Call /\ call.status = "live" /\ call.session_id = s
      /\ Pressed(call, calls[u], digits)
  BY <1>2, <1>3, PressingType
<1> HIDE DEF call
<1>5. \/ /\ doc.says = "otp_prompt"
         /\ doc.get_digits = CallbackUrl("OTP_VERIFY", s, None, None)
      \/ /\ doc.says = "language_menu"
         /\ doc.get_digits = CallbackUrl("LANGUAGE_SELECT", s, None, None)
      \/ /\ doc.says = "main_menu" /\ calls[u].chosen # None
         /\ doc.get_digits = CallbackUrl("MAIN_MENU_SELECT", s, calls[u].chosen, None)
  BY <1>2, <1>3, AsksMeans DEF LiveOK
<1>6. /\ doc.get_digits.reason = None
      /\ \/ doc.says = "otp_prompt" /\ doc.get_digits.route = "OTP_VERIFY"
         \/ doc.says = "language_menu" /\ doc.get_digits.route = "LANGUAGE_SELECT"
         \/ /\ doc.says = "main_menu" /\ doc.get_digits.route = "MAIN_MENU_SELECT"
            /\ doc.get_digits.lang = calls[u].chosen /\ calls[u].chosen # None
  BY <1>5 DEF CallbackUrl
<1>7. ASSUME NEW w \in Webhook, NEW new \in Call,
             w.url = doc.get_digits, w.digits = digits, w.dial_status = "",
             new.doc = None, new.awaiting = w,
             new.streak = call.streak, new.wrongs = call.wrongs, new.chosen = call.chosen
      PROVE  LiveOK(u, new, FlyingOf(u) \cup {w}, SessionOf(u))
  <2>1. /\ w.url.route = doc.get_digits.route
        /\ w.url.route \in {"OTP_VERIFY", "LANGUAGE_SELECT", "MAIN_MENU_SELECT"}
        /\ w.url.reason # "no_input"
        /\ w.url.route = "MAIN_MENU_SELECT" =>
              w.url.lang = calls[u].chosen /\ calls[u].chosen # None
    BY <1>6, <1>7, DocumentAssumption
  <2>2. /\ w.url.route \in {"LANGUAGE_SELECT", "MAIN_MENU_SELECT"} => doc.says \in Protected
        /\ doc.says \notin {"technical", "exhausted", "goodbye"}
        /\ w.url.route \in GuardedRoutes \cup {"ASSOCIATE_DIAL_STATUS"} =>
              doc.says \in Protected \cup {"unavailable"}
    BY <1>6, <1>7 DEF Protected, GuardedRoutes
  <2>3. w.digits \in IF w.url.route = "OTP_VERIFY" THEN OtpEntries ELSE MenuKeys
    BY <1>1, <1>7, <2>1
  <2>4. Pressed(new, calls[u], w.digits)
    BY <1>4, <1>7 DEF Pressed
  <2>5. Awaitable(w, new.chosen)
    BY <1>7, <2>1, <2>3, <2>4 DEF Awaitable, Pressed, MenuKeys
  <2>6. new.streak = IF Unrecognised(w) THEN CountUpTo(calls[u].streak, MaxInvalidInputs)
                     ELSE IF Recognised(w) THEN 0 ELSE calls[u].streak
    BY <2>1, <2>3, <2>4 DEF Recognised, Unrecognised, Pressed, OtpEntries, MenuKeys
  <2>7. new.wrongs = IF WrongCode(w) THEN CountUpTo(calls[u].wrongs, MaxOtpAttempts)
                     ELSE calls[u].wrongs
    BY <2>1, <2>3, <2>4 DEF WrongCode, Pressed, OtpEntries, MenuKeys
  <2>8. QED
    BY <1>2, <1>3, <1>7, <2>1, <2>2, <2>5, <2>6, <2>7, AskingOK
<1>8. Sendable(u, doc.get_digits, digits, "", call)
  BY <1>7 DEF Sendable
<1>9. Send(u, doc.get_digits, digits, "", call)
  BY <1>1 DEF call
<1>10. QED
  BY <1>2, <1>4, <1>8, <1>9, SendCallers

\* A caller who keys nothing in is led back to the prompt, and counts it too.
LEMMA SilentCallers ==
    ASSUME Inv, CallersInv, NEW u \in CallUuids, CallerSilent(u)
    PROVE  CallersInv'
<1> DEFINE doc == calls[u].doc
           s == calls[u].session_id
           call == [calls[u] EXCEPT !.streak = CountUpTo(@, MaxInvalidInputs)]
<1>1. /\ calls[u].status = "live" /\ doc # None /\ doc.get_digits # None
      /\ FallThrough(u, call)
  BY DEF CallerSilent, Playing
<1>2. /\ calls[u] \in Call /\ SessionOf(u) \in Session \cup {None}
      /\ FlyingOf(u) \subseteq Webhook
      /\ LiveOK(u, calls[u], FlyingOf(u), SessionOf(u))
  BY <1>1, PlayingCaller
<1>3. CountUpTo(calls[u].streak, MaxInvalidInputs) \in 0..MaxInvalidInputs
  BY <1>2, Bounds, CountUpToType DEF Call
<1>4. /\ call \in Call /\ call.status = "live" /\ call.session_id = s /\ call.doc = doc
      /\ call.streak = CountUpTo(calls[u].streak, MaxInvalidInputs)
      /\ call.wrongs = calls[u].wrongs /\ call.chosen = calls[u].chosen
  BY <1>1, <1>2, <1>3 DEF Call
<1> HIDE DEF call
<1>5. \/ /\ doc.says = "otp_prompt"
         /\ doc.redirect = CallbackUrl("OTP_PROMPT", s, None, "no_input")
      \/ /\ doc.says = "language_menu"
         /\ doc.redirect = CallbackUrl("LANGUAGE_MENU", s, None, "no_input")
      \/ /\ doc.says = "main_menu" /\ calls[u].chosen # None
         /\ doc.redirect = CallbackUrl("MAIN_MENU", s, calls[u].chosen, "no_input")
  BY <1>1, <1>2, AsksMeans DEF LiveOK
<1>6. /\ doc.redirect.reason = "no_input"
      /\ \/ doc.says = "otp_prompt" /\ doc.redirect.route = "OTP_PROMPT"
         \/ doc.says = "language_menu" /\ doc.redirect.route = "LANGUAGE_MENU"
         \/ /\ doc.says = "main_menu" /\ doc.redirect.route = "MAIN_MENU"
            /\ doc.redirect.lang = calls[u].chosen /\ calls[u].chosen # None
  BY <1>5 DEF CallbackUrl
<1>7. doc.redirect \in Url /\ doc.redirect # None
  <2>1. s \in SessionIds /\ calls[u].chosen \in Languages \cup {None}
    BY <1>1, <1>2, PlayingCaller DEF Call
  <2>2. doc.redirect \in Url
    BY <1>5, <2>1, CallbackUrlType DEF Routes
  <2>3. QED
    BY <2>2, DocumentAssumption
<1>8. ASSUME NEW w \in Webhook, NEW new \in Call,
             w.url = doc.redirect, w.digits = "", w.dial_status = "",
             new.doc = None, new.awaiting = w,
             new.streak = call.streak, new.wrongs = call.wrongs, new.chosen = call.chosen
      PROVE  LiveOK(u, new, FlyingOf(u) \cup {w}, SessionOf(u))
  <2>1. Unrecognised(w) /\ ~WrongCode(w)
    BY <1>6, <1>8 DEF Unrecognised, WrongCode
  <2>2. Awaitable(w, new.chosen)
    BY <1>4, <1>6, <1>8 DEF Awaitable
  <2>3. /\ w.url.route \in {"LANGUAGE_MENU", "LANGUAGE_SELECT", "MAIN_MENU_SELECT"} =>
              doc.says \in Protected
        /\ w.url.route \in GuardedRoutes \cup {"ASSOCIATE_DIAL_STATUS"} =>
              doc.says \in Protected \cup {"unavailable"}
        /\ doc.says \notin {"technical", "exhausted", "goodbye"}
        /\ w.url.route \notin {"ANSWER", "FALLBACK"}
    BY <1>6, <1>8 DEF Protected, GuardedRoutes
  <2>4. QED
    BY <1>1, <1>2, <1>4, <1>8, <2>1, <2>2, <2>3, AskingOK
<1>9. Sendable(u, doc.redirect, "", "", call)
  BY <1>8 DEF Sendable
<1>10. Send(u, doc.redirect, "", "", call)
  BY <1>1, <1>4, <1>7 DEF FallThrough
<1>11. QED
  BY <1>4, <1>7, <1>9, <1>10, SendCallers

\* A document spoken to its end leads on to the menu its caller may have.
LEMMA SpokenCallers ==
    ASSUME Inv, CallersInv, NEW u \in CallUuids, DocumentSpoken(u)
    PROVE  CallersInv'
<1> DEFINE doc == calls[u].doc
           s == calls[u].session_id
<1>1. /\ calls[u].status = "live" /\ doc # None
      /\ doc.get_digits = None /\ doc.dial = None /\ ~doc.hangup
      /\ FallThrough(u, calls[u])
  BY DEF DocumentSpoken, Playing
<1>2. /\ calls[u] \in Call /\ SessionOf(u) \in Session \cup {None}
      /\ FlyingOf(u) \subseteq Webhook
      /\ LiveOK(u, calls[u], FlyingOf(u), SessionOf(u))
      /\ s \in SessionIds /\ calls[u].chosen \in Languages \cup {None}
  BY <1>1, PlayingCaller DEF Call
<1>3. \/ /\ doc.says = "otp_accepted"
         /\ doc.redirect = CallbackUrl("LANGUAGE_MENU", s, None, None)
      \/ /\ doc.says \in {"audio", "unavailable"} /\ calls[u].chosen # None
         /\ doc.redirect = CallbackUrl("MAIN_MENU", s, calls[u].chosen, None)
  BY <1>1, <1>2, SpokenMeans DEF LiveOK
<1>4. /\ doc.redirect.reason = None
      /\ \/ doc.says = "otp_accepted" /\ doc.redirect.route = "LANGUAGE_MENU"
         \/ /\ doc.says \in {"audio", "unavailable"} /\ doc.redirect.route = "MAIN_MENU"
            /\ doc.redirect.lang = calls[u].chosen /\ calls[u].chosen # None
  BY <1>3 DEF CallbackUrl
<1>5. doc.redirect \in Url /\ doc.redirect # None
  <2>1. doc.redirect \in Url
    BY <1>2, <1>3, CallbackUrlType DEF Routes
  <2>2. QED
    BY <2>1, DocumentAssumption
<1>6. ASSUME NEW w \in Webhook, NEW new \in Call,
             w.url = doc.redirect, w.digits = "", w.dial_status = "",
             new.doc = None, new.awaiting = w, new.streak = calls[u].streak,
             new.wrongs = calls[u].wrongs, new.chosen = calls[u].chosen
      PROVE  LiveOK(u, new, FlyingOf(u) \cup {w}, SessionOf(u))
  <2>1. ~Unrecognised(w) /\ ~Recognised(w) /\ ~WrongCode(w)
    BY <1>4, <1>6, DocumentAssumption DEF Unrecognised, Recognised, WrongCode
  <2>2. Awaitable(w, new.chosen)
    BY <1>4, <1>6, DocumentAssumption DEF Awaitable
  <2>3. /\ w.url.route \in {"LANGUAGE_MENU", "LANGUAGE_SELECT", "MAIN_MENU_SELECT"} =>
              doc.says \in Protected
        /\ w.url.route \in GuardedRoutes \cup {"ASSOCIATE_DIAL_STATUS"} =>
              doc.says \in Protected \cup {"unavailable"}
        /\ doc.says \notin {"technical", "exhausted", "goodbye"}
        /\ w.url.route \notin {"ANSWER", "FALLBACK"}
    BY <1>4, <1>6 DEF Protected, GuardedRoutes
  <2>4. QED
    BY <1>1, <1>2, <1>6, <2>1, <2>2, <2>3, AskingOK
<1>7. Sendable(u, doc.redirect, "", "", calls[u])
  BY <1>6 DEF Sendable
<1>8. Send(u, doc.redirect, "", "", calls[u])
  BY <1>1, <1>5 DEF FallThrough
<1>9. QED
  BY <1>1, <1>2, <1>5, <1>7, <1>8, SendCallers

\* A transfer reports how it ended, in the caller's language.
LEMMA DialCallers ==
    ASSUME Inv, CallersInv, NEW u \in CallUuids, DialEnds(u)
    PROVE  CallersInv'
<1> DEFINE doc == calls[u].doc
           s == calls[u].session_id
<1>1. PICK status \in DialStatuses : Send(u, doc.dial, "", status, calls[u])
  BY DEF DialEnds
<1>2. calls[u].status = "live" /\ doc # None /\ doc.dial # None
  BY DEF DialEnds, Playing
<1>3. /\ calls[u] \in Call /\ SessionOf(u) \in Session \cup {None}
      /\ FlyingOf(u) \subseteq Webhook
      /\ LiveOK(u, calls[u], FlyingOf(u), SessionOf(u))
      /\ s \in SessionIds /\ calls[u].chosen \in Languages \cup {None}
  BY <1>2, PlayingCaller DEF Call
<1>4. /\ doc.says = "connecting" /\ calls[u].chosen # None
      /\ doc.dial = CallbackUrl("ASSOCIATE_DIAL_STATUS", s, calls[u].chosen, None)
  BY <1>2, <1>3, DialsMeans DEF LiveOK
<1>5. /\ doc.dial \in Url /\ doc.dial.reason = None
      /\ doc.dial.route = "ASSOCIATE_DIAL_STATUS" /\ doc.dial.lang = calls[u].chosen
  <2>1. CallbackUrl("ASSOCIATE_DIAL_STATUS", s, calls[u].chosen, None) \in Url
    BY <1>3, CallbackUrlType DEF Routes
  <2>2. QED
    BY <1>4, <2>1 DEF CallbackUrl
<1>6. ASSUME NEW w \in Webhook, NEW new \in Call,
             w.url = doc.dial, w.digits = "", w.dial_status = status,
             new.doc = None, new.awaiting = w, new.streak = calls[u].streak,
             new.wrongs = calls[u].wrongs, new.chosen = calls[u].chosen
      PROVE  LiveOK(u, new, FlyingOf(u) \cup {w}, SessionOf(u))
  <2>1. ~Unrecognised(w) /\ ~Recognised(w) /\ ~WrongCode(w)
    BY <1>5, <1>6 DEF Unrecognised, Recognised, WrongCode
  <2>2. Awaitable(w, new.chosen)
    BY <1>4, <1>5, <1>6, DocumentAssumption DEF Awaitable
  <2>3. doc.says \in Protected /\ doc.says \notin {"technical", "exhausted", "goodbye"}
    BY <1>4 DEF Protected
  <2>4. QED
    BY <1>2, <1>3, <1>5, <1>6, <2>1, <2>2, <2>3, AskingOK
<1>7. Sendable(u, doc.dial, "", status, calls[u])
  BY <1>6 DEF Sendable
<1>8. /\ status \in DialStatuses \cup {""}
      /\ "" \in OtpEntries \cup MenuKeys \cup {""}
  OBVIOUS
<1> DEFINE url == doc.dial
<1>9. /\ url \in Url /\ calls[u] \in Call /\ calls[u].status = "live"
      /\ Send(u, url, "", status, calls[u]) /\ Sendable(u, url, "", status, calls[u])
  BY <1>1, <1>2, <1>3, <1>5, <1>7
<1> HIDE DEF url
<1>10. QED
  BY <1>8, <1>9, SendCallers

\* An answered call that nobody has heard anything on yet asks for its document.
LEMMA RingingCallers ==
    ASSUME Inv, CallersInv, NEW u \in CallUuids, RingingEnds(u)
    PROVE  CallersInv'
<1>1. /\ calls[u] \in Call /\ calls[u].status = "ringing"
      /\ calls[u].session_id \in SessionIds
  BY DEF RingingEnds, Answer, NoAnswer, Inv, TypeOK, PlacedOK, Call
<1>2. Unheard(calls[u], FlyingOf(u)) /\ RingingOK(SessionOf(u))
  BY <1>1 DEF CallersInv, CallerOK
<1>3. CASE NoAnswer(u)
  BY <1>3, NothingLeft, DropCallers DEF NoAnswer, CallersInv
<1>4. CASE Answer(u)
  <2> DEFINE url == CallbackUrl("ANSWER", calls[u].session_id, None, None)
             call == [calls[u] EXCEPT !.status = "live"]
  <2>1. url \in Url /\ url.route = "ANSWER" /\ url.reason = None
    BY <1>1, CallbackUrlType DEF Routes, CallbackUrl
  <2>2. /\ call \in Call /\ call.status = "live"
        /\ call.session_id = calls[u].session_id
        /\ call.streak = 0 /\ call.wrongs = 0 /\ call.chosen = None
    BY <1>1, <1>2 DEF Call, Unheard
  <2>3. Send(u, url, "", "", call)
    BY <1>4 DEF Answer
  <2> HIDE DEF url, call
  <2>4. ASSUME NEW w \in Webhook, NEW new \in Call,
               w.url = url, w.digits = "", w.dial_status = "",
               new.doc = None, new.awaiting = w,
               new.streak = 0, new.wrongs = 0, new.chosen = None
        PROVE  LiveOK(u, new, FlyingOf(u) \cup {w}, SessionOf(u))
    <3>1. ~Unrecognised(w) /\ ~WrongCode(w) /\ w # None
      BY <2>1, <2>4, FlowAssumption DEF Unrecognised, WrongCode
    <3>2. Awaitable(w, None)
      BY <2>1, <2>4, DocumentAssumption DEF Awaitable
    <3>3. \A x \in FlyingOf(u) \cup {w} : x = w
      BY <1>2 DEF Unheard
    <3>4. ASSUME SessionOf(u) # None
          PROVE  SessionFits(u, new, SessionOf(u))
      <4>1. /\ SessionOf(u).otp_attempts = 0
            /\ SessionOf(u).consecutive_unrecognized_inputs = 0
        BY <1>2, <3>4 DEF RingingOK
      <4>2. Attached(u, new, SessionOf(u)) /\ AuthKept(new, SessionOf(u))
        BY <2>1, <2>4, <3>1 DEF Attached, AuthKept
      <4>3. Counted(new, SessionOf(u))
        <5>1. SessionOf(u).consecutive_unrecognized_inputs <= new.streak
          <6>1. new.streak = 0
            BY <2>4
          <6>2. SessionOf(u).consecutive_unrecognized_inputs = 0
            BY <4>1
          <6>3. QED
            BY <6>1, <6>2
        <5>2. ~Unrecognised(new.awaiting)
          BY <2>4, <3>1
        <5>3. QED
          BY <5>1, <5>2 DEF Counted
      <4>4. MaxOtpAttempts = 0 \/ 0 < MaxOtpAttempts
        BY SessionAssumption
      <4>5. AttemptsFit(new, SessionOf(u))
        BY <2>4, <3>1, <4>1, <4>4 DEF AttemptsFit
      <4>6. Remembered(new, SessionOf(u))
        <5>1. 0 < MaxInvalidInputs
          BY SessionAssumption
        <5>2. ~Recognised(w)
          BY <2>1, <2>4 DEF Recognised
        <5>3. w.url.route \notin GuardedRoutes \cup {"ASSOCIATE_DIAL_STATUS"}
          BY <2>1, <2>4 DEF GuardedRoutes
        <5>4. QED
          BY <2>4, <3>1, <4>1, <5>1, <5>2, <5>3 DEF Remembered
      <4>7. QED
        BY <4>2, <4>3, <4>5, <4>6 DEF SessionFits
    <3>5. QED
      BY <2>4, <3>1, <3>2, <3>3, <3>4 DEF LiveOK
  <2>5. Sendable(u, url, "", "", call)
    BY <2>2, <2>4 DEF Sendable
  <2>6. QED
    BY <2>1, <2>2, <2>3, <2>5, SendCallers
<1>5. QED
  BY <1>3, <1>4 DEF RingingEnds

\* An answer given up is asked of the fallback instead, while it may be handled late.
LEMMA GivesUpCallers ==
    ASSUME Inv, CallersInv, NEW u \in CallUuids, calls[u].awaiting # None, GivesUp(u)
    PROVE  CallersInv'
<1>1. calls[u].status = "live"
  BY DEF Inv, PlacedOK
<1>2. /\ calls[u] \in Call /\ calls[u].session_id \in SessionIds
      /\ LiveOK(u, calls[u], FlyingOf(u), SessionOf(u))
  BY <1>1, PlayingCaller
<1>3. CASE calls[u].awaiting.url.route = "ANSWER"
  <2> DEFINE url == CallbackUrl("FALLBACK", calls[u].session_id, None, None)
             was == calls[u].awaiting
  <2>1. url \in Url /\ url.route = "FALLBACK" /\ url.reason = None
    BY <1>2, CallbackUrlType DEF Routes, CallbackUrl
  <2>2. Send(u, url, "", "", calls[u])
    BY <1>3 DEF GivesUp
  <2> HIDE DEF url
  <2>3. calls[u].doc = None /\ ~Unrecognised(was) /\ ~Recognised(was) /\ ~WrongCode(was)
    BY <1>2, <1>3 DEF LiveOK, Unrecognised, Recognised, WrongCode
  <2>4. ASSUME NEW w \in Webhook, NEW new \in Call,
               w.url = url, w.digits = "", w.dial_status = "",
               new.doc = None, new.awaiting = w, new.streak = calls[u].streak,
               new.wrongs = calls[u].wrongs, new.chosen = calls[u].chosen
        PROVE  LiveOK(u, new, FlyingOf(u) \cup {w}, SessionOf(u))
    <3>1. ~Unrecognised(w) /\ ~Recognised(w) /\ ~WrongCode(w) /\ w # None
      BY <2>1, <2>4, FlowAssumption DEF Unrecognised, Recognised, WrongCode
    <3>2. Awaitable(w, new.chosen)
      BY <2>1, <2>4, DocumentAssumption DEF Awaitable
    <3>3. \A x \in FlyingOf(u) \cup {w} : x = w \/ x.url.route = "ANSWER"
      BY <1>2, <1>3 DEF LiveOK
    <3>4. SessionOf(u) # None =>
             /\ Attached(u, new, SessionOf(u)) /\ AuthKept(new, SessionOf(u))
             /\ Counted(new, SessionOf(u)) /\ AttemptsFit(new, SessionOf(u))
      BY <1>2, <2>1, <2>3, <2>4, <3>1
         DEF LiveOK, SessionFits, Attached, AuthKept, Counted, AttemptsFit
    <3>5. SessionOf(u) # None => Remembered(new, SessionOf(u))
      BY <1>2, <2>1, <2>3, <2>4, <3>1 DEF LiveOK, SessionFits, Remembered, GuardedRoutes
    <3>6. QED
      BY <2>1, <2>4, <3>1, <3>2, <3>3, <3>4, <3>5 DEF LiveOK, SessionFits
  <2>5. Sendable(u, url, "", "", calls[u])
    BY <2>4 DEF Sendable
  <2>6. QED
    BY <1>1, <1>2, <2>1, <2>2, <2>5, SendCallers
<1>4. CASE calls[u].awaiting.url.route # "ANSWER"
  <2>1. LineDrops(u) /\ UNCHANGED <<store, verified>>
    BY <1>4 DEF GivesUp
  <2>2. QED
    BY <2>1, NothingLeft, DropCallers DEF CallersInv
<1>5. QED
  BY <1>3, <1>4

\* Whatever Plivo does next leaves the caller where the server knows him to be.
LEMMA PlivoProceedsCallers ==
    ASSUME Inv, CallersInv, NEW u \in CallUuids, PlivoProceeds(u)
    PROVE  CallersInv'
<1>1. CASE HangsUp(u)
  BY <1>1, NothingLeft, DropCallers DEF HangsUp, CallersInv
<1>2. CASE WebhookFailed(u)
  BY <1>2, GivesUpCallers DEF WebhookFailed
<1>3. QED
  BY <1>1, <1>2, SilentCallers, SpokenCallers, DialCallers DEF PlivoProceeds

\* Putting the handset down is no business of the server's.
LEMMA WalksAwayCallers ==
    ASSUME Inv, CallersInv, NEW u \in CallUuids, CallerWalksAway(u)
    PROVE  CallersInv'
<1> DEFINE away == [calls[u] EXCEPT !.forgotten = TRUE]
<1>1. /\ calls \in [CallUuids -> Call] /\ calls[u].status = "live"
      /\ calls' = [calls EXCEPT ![u] = away] /\ UNCHANGED <<store, inflight, verified>>
  BY DEF CallerWalksAway, Inv, TypeOK
<1>2. /\ away.status = "live" /\ away.session_id = calls[u].session_id
      /\ away.doc = calls[u].doc /\ away.awaiting = calls[u].awaiting
      /\ away.streak = calls[u].streak /\ away.wrongs = calls[u].wrongs
      /\ away.chosen = calls[u].chosen
  BY <1>1 DEF Call
<1> HIDE DEF away
<1>3. calls'[u] = away /\ \A v \in CallUuids \ {u} : calls'[v] = calls[v]
  BY <1>1
<1>4. /\ LiveOK(u, calls[u], FlyingOf(u), SessionOf(u))
      /\ FlyingOf(u)' = FlyingOf(u) /\ SessionOf(u)' = SessionOf(u)
  <2>1. FlyingOf(u)' = FlyingOf(u)
    BY <1>1 DEF FlyingOf
  <2>2. calls'[u].session_id = calls[u].session_id /\ store' = store
    BY <1>1, <1>2, <1>3
  <2>3. SessionOf(u)' = SessionOf(u)
    BY <2>2 DEF SessionOf
  <2>4. QED
    BY <1>1, <2>1, <2>3, PlayingCaller
<1>5. LiveOK(u, away, FlyingOf(u), SessionOf(u))
  <2>1. SessionOf(u) # None => SessionFits(u, away, SessionOf(u))
    BY <1>2, <1>4 DEF LiveOK, SessionFits, Attached, AuthKept, Counted, AttemptsFit, Remembered
  <2>2. QED
    BY <1>2, <1>4, <2>1 DEF LiveOK
<1>6. CallerOK(u, calls[u], FlyingOf(u), SessionOf(u))'
  BY <1>2, <1>3, <1>4, <1>5 DEF CallerOK
<1>7. \A v \in CallUuids :
         /\ calls'[v].session_id = calls[v].session_id
         /\ \/ /\ calls'[v] = calls[v]
               /\ \A w \in inflight' : w.call_uuid = v => w \in inflight
            \/ CallerOK(v, calls[v], FlyingOf(v), SessionOf(v))'
  BY <1>1, <1>2, <1>3, <1>6
<1>8. QED
  BY <1>1, <1>7, NothingLeft, QuietKeeps DEF CallersInv

-----------------------------------------------------------------------------
(* What the operator and the server itself do *)

\* A step that leaves every call alone, and at most loses webhooks and sessions.
LEMMA ServerStepCallers ==
    ASSUME Inv, CallersInv, UNCHANGED calls, inflight' \subseteq inflight,
           \A s \in SessionIds : Left(store'.sessions[s], store.sessions[s]),
           \A x \in verified' : x \in verified /\ calls[x].session_id \in Stored(store')
    PROVE  CallersInv'
<1>1. \A v \in CallUuids :
         /\ calls'[v].session_id = calls[v].session_id
         /\ \/ /\ calls'[v] = calls[v]
               /\ \A w \in inflight' : w.call_uuid = v => w \in inflight
            \/ CallerOK(v, calls[v], FlyingOf(v), SessionOf(v))'
  OBVIOUS
<1>2. QED
  BY <1>1, QuietKeeps

\* A lost webhook, a restart, a tick.
LEMMA FaultCallers ==
    ASSUME Inv, CallersInv,
           (\E u \in CallUuids : Lose(u)) \/ Restart \/ Tick
    PROVE  CallersInv'
<1>1. CASE \E u \in CallUuids : Lose(u)
  <2>1. /\ UNCHANGED calls /\ inflight' \subseteq inflight
        /\ UNCHANGED <<store, verified>>
    BY <1>1 DEF Lose
  <2>2. QED
    BY <2>1, NothingLeft, ServerStepCallers DEF CallersInv
<1>2. CASE Restart
  <2>1. /\ UNCHANGED calls /\ inflight' \subseteq inflight /\ verified' = {}
        /\ \A s \in SessionIds : store'.sessions[s] = None
    BY <1>2 DEF Restart, EmptyStore
  <2>2. \A s \in SessionIds : Left(store'.sessions[s], store.sessions[s])
    BY <2>1 DEF Left
  <2>3. QED
    BY <2>1, <2>2, ServerStepCallers
<1>3. CASE Tick
  <2>1. /\ UNCHANGED calls /\ inflight' \subseteq inflight
        /\ store' = Age(store) /\ store \in Store /\ verified' = verified
    BY <1>3 DEF Tick, Inv, TypeOK
  <2>2. \A s \in SessionIds :
           store'.sessions[s] = IF store.sessions[s] = None THEN None
                                ELSE [store.sessions[s] EXCEPT !.idle = CountUpTo(@, TTL + 1)]
    BY <2>1 DEF Age, Store
  <2>3. ASSUME NEW s \in SessionIds
        PROVE  /\ Left(store'.sessions[s], store.sessions[s])
               /\ store.sessions[s] # None => store'.sessions[s] # None
    <3>1. CASE store.sessions[s] = None
      BY <2>2, <3>1 DEF Left
    <3>2. CASE store.sessions[s] # None
      <4>1. store.sessions[s] \in Session
        BY <2>1, <3>2 DEF Store
      <4>2. store'.sessions[s] \in Session /\ Kept(store'.sessions[s], store.sessions[s])
        BY <2>2, <3>2, <4>1, IdleType
      <4>3. QED
        BY <3>2, <4>2, SessionAssumption DEF Left
    <3>3. QED
      BY <3>1, <3>2
  <2>4. ASSUME NEW x \in verified'
        PROVE  x \in verified /\ calls[x].session_id \in Stored(store')
    <3>1. x \in verified /\ x \in CallUuids /\ SessionOf(x) # None /\ calls[x] \in Call
      BY <2>1, <2>4 DEF CallersInv, KnownVerified, Inv, TypeOK
    <3>2. /\ calls[x].session_id \in SessionIds
          /\ store.sessions[calls[x].session_id] # None
      BY <3>1 DEF SessionOf, Call
    <3>3. QED
      BY <2>3, <3>1, <3>2 DEF Stored
  <2>5. QED
    BY <2>1, <2>3, <2>4, ServerStepCallers
<1>4. QED
  BY <1>1, <1>2, <1>3

\* What eviction loses is never held against a call.
LEMMA ShrunkLeft ==
    ASSUME NEW st, Shrinks(st, store)
    PROVE  /\ \A s \in SessionIds : Left(st.sessions[s], store.sessions[s])
           /\ \A x \in StillVerified(st) : x \in verified /\ calls[x].session_id \in Stored(st)
BY LeftAlone DEF Shrinks, StillVerified

\* Reading evicts, and a hangup refused does no more.
LEMMA ReadCallers ==
    ASSUME Inv, CallersInv, ReadCalls \/ EndCallRejected
    PROVE  CallersInv'
<1>1. /\ store' = EvictExpired(store) /\ verified' = StillVerified(store')
      /\ UNCHANGED calls /\ inflight' \subseteq inflight
  BY DEF ReadCalls, EndCallRejected
<1>2. Shrinks(store', store)
  BY <1>1, EvictExpiredShrinks DEF Inv, TypeOK
<1>3. QED
  BY <1>1, <1>2, ShrunkLeft, ServerStepCallers

\* The operator's hangup ends a call, and its session says no more than that.
LEMMA EndCallCallers ==
    ASSUME Inv, CallersInv, NEW s \in SessionIds, EndCall(s)
    PROVE  CallersInv'
<1> DEFINE st == EvictExpired(store)
           noted == RecordEvent(st.sessions[s], "call_ended_by_operator")
           closed == AdvanceTo(noted, "completed")
<1>1. CASE EndCallRejected
  BY <1>1, ReadCallers
<1>2. CASE EndCallAccepted(s)
  <2>1. PICK u \in CallUuids : LineDrops(u)
    BY <1>2 DEF EndCallAccepted
  <2>2. /\ s \in Stored(st)
        /\ store' = Put(st, s, Touch(closed)) \/ store' = st
        /\ verified' = StillVerified(st)
    BY <1>2 DEF EndCallAccepted, Save
  <2>3. Shrinks(st, store)
    BY EvictExpiredShrinks DEF Inv, TypeOK
  <2>4. st.sessions[s] \in Session /\ st.sessions[s] = store.sessions[s] /\ st \in Store
    BY <2>2, <2>3 DEF Shrinks, Store, Stored
  <2>5. noted \in Session /\ Kept(noted, st.sessions[s])
    BY <2>4, RecordEventType
  <2>6. closed \in Session /\ Kept(closed, noted)
    BY <2>5, AdvanceToType DEF Stages
  <2> HIDE DEF st, noted, closed
  <2>7. Touch(closed) \in Session /\ Kept(Touch(closed), store.sessions[s])
    BY <2>4, <2>5, <2>6, TouchType DEF Kept, Counts
  <2>8. /\ \A t \in SessionIds : Left(st.sessions[t], store.sessions[t])
        /\ \A x \in StillVerified(st) : x \in verified /\ calls[x].session_id \in Stored(st)
    BY <2>3, ShrunkLeft
  <2>9. CASE store' = st
    BY <2>1, <2>2, <2>8, <2>9, DropCallers
  <2>10. CASE store' = Put(st, s, Touch(closed))
    <3>1. /\ store'.sessions[s] = Touch(closed)
          /\ \A t \in SessionIds \ {s} : store'.sessions[t] = st.sessions[t]
      BY <2>4, <2>7, <2>10, PutType
    <3>2. \A t \in SessionIds : Left(store'.sessions[t], store.sessions[t])
      BY <2>4, <2>7, <2>8, <3>1, SessionAssumption DEF Left
    <3>3. Stored(st) \subseteq Stored(store')
      BY <2>7, <3>1, SessionAssumption DEF Stored
    <3>4. \A x \in verified' : x \in verified /\ calls[x].session_id \in Stored(store')
      BY <2>2, <2>8, <3>3
    <3>5. QED
      BY <2>1, <3>2, <3>4, DropCallers
  <2>11. QED
    BY <2>2, <2>9, <2>10
<1>3. QED
  BY <1>1, <1>2 DEF EndCall

\* A placed call starts with a session that says nothing of anybody.
LEMMA PlacedCallers ==
    ASSUME Inv, CallersInv, NEW u \in CallUuids, PlaceOutboundCall(u)
    PROVE  CallersInv'
<1>1. PICK s \in SessionIds, reply \in PlaceReplies :
         /\ Fresh(s)
         /\ \E st \in Create(store, s, RecordEvent(NewCallSession(None), "call_requested")) :
               /\ store' = AfterPlacing(st, s, reply.outcome)
               /\ verified' = StillVerified(st)
         /\ calls' = IF reply.rings
                     THEN [calls EXCEPT ![u].status = "ringing", ![u].session_id = s]
                     ELSE calls
  BY DEF PlaceOutboundCall
<1>2. PICK st \in Create(store, s, RecordEvent(NewCallSession(None), "call_requested")) :
         store' = AfterPlacing(st, s, reply.outcome) /\ verified' = StillVerified(st)
  BY <1>1
<1>3. reply.outcome \in {"queued", "refused", "no_uuid", "lost"}
  BY DEF PlaceReplies, Reply
<1>4. PICK room : Shrinks(room, store) /\ Placed(s, room, st) /\ Placed(s, room, store')
  BY <1>2, <1>3, PlacingPlaces
<1>5. /\ store'.sessions[s] \in Session
      /\ RingingOK(store'.sessions[s])
      /\ \A t \in SessionIds \ {s} :
            /\ store'.sessions[t] \in {None, store.sessions[t]}
            /\ st.sessions[t] = store'.sessions[t]
  BY <1>4 DEF Placed, Shrinks, RingingOK
<1>6. /\ calls \in [CallUuids -> Call] /\ inflight' = inflight
      /\ calls[u].status = "unplaced" /\ calls[u].session_id = None
      /\ Unheard(calls[u], FlyingOf(u))
  BY DEF PlaceOutboundCall, Inv, TypeOK, PlacedOK, CallersInv, CallerOK
<1> DEFINE rung == [calls[u] EXCEPT !.status = "ringing"]
           called == [rung EXCEPT !.session_id = s]
<1>7. /\ rung \in Call /\ rung.status = "ringing" /\ rung.streak = calls[u].streak
      /\ rung.wrongs = calls[u].wrongs /\ rung.chosen = calls[u].chosen
  BY <1>6 DEF Call
<1>8. /\ calls' = [calls EXCEPT ![u] = called] \/ calls' = calls
      /\ \A v \in CallUuids \ {u} : calls'[v] = calls[v]
  <2>1. calls' = [calls EXCEPT ![u].status = "ringing", ![u].session_id = s] \/ calls' = calls
    BY <1>1
  <2>2. [calls EXCEPT ![u].status = "ringing", ![u].session_id = s]
           = [calls EXCEPT ![u] = called]
    BY <1>6
  <2>3. QED
    BY <1>6, <2>1, <2>2
<1> HIDE DEF rung
<1>9. /\ called \in Call /\ called.status = "ringing" /\ called.session_id = s
      /\ called.streak = calls[u].streak /\ called.wrongs = calls[u].wrongs
      /\ called.chosen = calls[u].chosen
  BY <1>7 DEF Call
<1> HIDE DEF called
<1>10. ASSUME NEW v \in CallUuids, calls'[v] = calls[v]
       PROVE  CallerOK(v, calls[v], FlyingOf(v), SessionOf(v))'
  <2>1. ASSUME NEW t \in SessionIds, t = calls[v].session_id
        PROVE  Left(store'.sessions[t], store.sessions[t])
    BY <1>1, <1>5, <1>10, <2>1, LeftAlone DEF Fresh
  <2>2. QED
    BY <1>6, <1>10, <2>1, OthersOK
<1>11. CallerOK(u, calls[u], FlyingOf(u), SessionOf(u))'
  <2>1. CASE calls' = calls
    BY <1>10, <2>1
  <2>2. CASE calls' = [calls EXCEPT ![u] = called]
    <3>1. calls'[u] = called
      BY <1>6, <2>2
    <3>2. FlyingOf(u)' = FlyingOf(u)
      BY <1>6 DEF FlyingOf
    <3>3. SessionOf(u)' = store'.sessions[s]
      BY <1>9, <3>1, SessionAssumption DEF SessionOf
    <3>4. Unheard(called, FlyingOf(u))
      BY <1>6, <1>9 DEF Unheard
    <3>5. CallerOK(u, called, FlyingOf(u), store'.sessions[s])
      BY <1>5, <1>9, <3>4 DEF CallerOK
    <3>6. QED
      BY <3>1, <3>2, <3>3, <3>5
  <2>3. QED
    BY <1>8, <2>1, <2>2
<1>12. ASSUME NEW v \in verified'
       PROVE  SessionOf(v)' # None /\ SessionOf(v)'.is_authenticated
  <2>1. /\ v \in verified /\ v \in CallUuids /\ calls[v].session_id \in Stored(st)
        /\ SessionOf(v) # None /\ SessionOf(v).is_authenticated
    BY <1>2, <1>12 DEF StillVerified, CallersInv, KnownVerified, Inv, TypeOK
  <2>2. v # u /\ calls[v].session_id # s
    BY <1>1, <1>6, <2>1 DEF SessionOf, Fresh
  <2> DEFINE t == calls[v].session_id
  <2>3. t \in SessionIds \ {s} /\ st.sessions[t] # None /\ calls'[v].session_id = t
    BY <1>8, <2>1, <2>2 DEF Stored
  <2>4. store'.sessions[t] # None /\ store'.sessions[t] = store.sessions[t]
    BY <1>5, <2>3
  <2>5. SessionOf(v)' = store'.sessions[t] /\ SessionOf(v) = store.sessions[t]
    BY <2>3, SessionAssumption DEF SessionOf
  <2>6. QED
    BY <2>1, <2>4, <2>5
<1>13. KnownVerified'
  BY <1>12 DEF KnownVerified
<1>14. \A v \in CallUuids : CallerOK(v, calls[v], FlyingOf(v), SessionOf(v))'
  BY <1>8, <1>10, <1>11
<1>15. QED
  BY <1>13, <1>14 DEF CallersInv

-----------------------------------------------------------------------------
(* What the handlers do *)

\* A webhook is handled, and all that is known of how.
Handling(u, w, r, session, doc) ==
    /\ w \in inflight /\ w \in Webhook /\ w.call_uuid = u
    /\ r.session_id \in SessionIds /\ calls[u].session_id = r.session_id
    /\ r \in Resolve(w) /\ r.session \in Session
    /\ Resolved(w, r)
    /\ Effect(w, r.session, session)
    /\ Answers(w, r.session_id, r.session, session, doc)
    /\ Allowed(w, r, session, doc)
    /\ Respond(w, r, session, doc)
    /\ calls[u].status \in {"live", "ended"}
    /\ calls[u].status = "live" => Known(u, calls[u], r.session)

\* Every handler knows its caller from the session it resolved.
LEMMA HandledKnows ==
    ASSUME Inv, CallersInv, NEW u \in CallUuids, Handled(u)
    PROVE  \E w, r, session, doc : Handling(u, w, r, session, doc)
<1>1. PICK w \in inflight : \E r, session, doc :
         /\ w.call_uuid = u
         /\ r \in Resolve(w)
         /\ Resolved(w, r)
         /\ Effect(w, r.session, session)
         /\ Answers(w, r.session_id, r.session, session, doc)
         /\ Respond(w, r, session, doc)
  BY DEF Handled
<1>2. PICK r, session, doc :
         /\ w.call_uuid = u
         /\ r \in Resolve(w)
         /\ Resolved(w, r)
         /\ Effect(w, r.session, session)
         /\ Answers(w, r.session_id, r.session, session, doc)
         /\ Respond(w, r, session, doc)
  BY <1>1
<1>3. /\ w \in Webhook /\ r.session_id \in SessionIds /\ r.session \in Session
      /\ Allowed(w, r, session, doc)
  BY <1>2, HandlingFacts, HandlingAllowed
<1>4. calls[u].session_id = r.session_id /\ calls[u] \in Call
  BY <1>2 DEF Inv, TypeOK, WebhooksFit, Resolved
<1>5. calls[u].status \in {"live", "ended"}
  <2>1. w \in FlyingOf(u)
    BY <1>2 DEF FlyingOf
  <2>2. calls[u].status \notin {"unplaced", "ringing"}
    BY <2>1 DEF CallersInv, CallerOK, Unheard
  <2>3. QED
    BY <1>4, <2>2 DEF Call
<1>6. ASSUME calls[u].status = "live"
      PROVE  Known(u, calls[u], r.session)
  <2>1. LiveOK(u, calls[u], FlyingOf(u), SessionOf(u))
    BY <1>6, PlayingCaller
  <2>2. CASE r.found = TRUE
    <3>1. r.session = store.sessions[r.session_id] /\ r.session # None
      BY <1>2, <1>3, <2>2, SessionAssumption DEF Resolved, Shrinks
    <3>2. SessionOf(u) = r.session
      BY <1>3, <1>4, <3>1, SessionAssumption DEF SessionOf
    <3>3. QED
      BY <2>1, <3>1, <3>2 DEF LiveOK, Known
  <2>3. CASE r.found = FALSE
    BY <1>2, <2>3 DEF Resolved, Known
  <2>4. QED
    BY <1>2, <2>2, <2>3 DEF Resolved
<1>7. QED
  BY <1>2, <1>3, <1>4, <1>5, <1>6 DEF Handling

\* The answer is given to a call that waits for it, and changes nothing else.
LEMMA HandledCalls ==
    ASSUME Inv, NEW u \in CallUuids, NEW w, NEW r, NEW session, NEW doc,
           Handling(u, w, r, session, doc)
    PROVE  /\ \A v \in CallUuids \ {u} : calls'[v] = calls[v]
           /\ calls[u].awaiting # w => calls'[u] = calls[u]
           /\ calls[u].awaiting = w =>
                 /\ calls'[u] \in Call
                 /\ calls'[u].doc = doc /\ calls'[u].awaiting = None
                 /\ calls'[u].status = calls[u].status
                 /\ calls'[u].session_id = calls[u].session_id
                 /\ calls'[u].streak = calls[u].streak
                 /\ calls'[u].wrongs = calls[u].wrongs
                 /\ calls'[u].chosen = calls[u].chosen
<1>1. /\ calls \in [CallUuids -> Call] /\ doc \in Document /\ w.call_uuid = u
      /\ Respond(w, r, session, doc)
  BY DEF Handling, Inv, TypeOK, Allowed, Carries
<1>2. CASE calls[u].awaiting # w
  BY <1>1, <1>2 DEF Respond
<1>3. CASE calls[u].awaiting = w
  <2> DEFINE given == [calls[u] EXCEPT !.doc = doc]
             heard == [given EXCEPT !.awaiting = None]
  <2>1. /\ given \in Call /\ given.doc = doc /\ given.status = calls[u].status
        /\ given.session_id = calls[u].session_id /\ given.streak = calls[u].streak
        /\ given.wrongs = calls[u].wrongs /\ given.chosen = calls[u].chosen
    BY <1>1 DEF Call
  <2>2. calls' = [calls EXCEPT ![u] = heard]
    <3>1. calls' = [calls EXCEPT ![u].doc = doc, ![u].awaiting = None]
      BY <1>1, <1>3 DEF Respond
    <3>2. [calls EXCEPT ![u].doc = doc, ![u].awaiting = None] = [calls EXCEPT ![u] = heard]
      BY <1>1
    <3>3. QED
      BY <3>1, <3>2
  <2> HIDE DEF given
  <2>3. /\ heard \in Call /\ heard.doc = doc /\ heard.awaiting = None
        /\ heard.status = given.status /\ heard.session_id = given.session_id
        /\ heard.streak = given.streak
        /\ heard.wrongs = given.wrongs /\ heard.chosen = given.chosen
    BY <2>1 DEF Call
  <2> HIDE DEF heard
  <2>4. calls'[u] = heard /\ \A v \in CallUuids \ {u} : calls'[v] = calls[v]
    BY <1>1, <2>2
  <2>5. QED
    BY <1>3, <2>1, <2>3, <2>4
<1>4. QED
  BY <1>2, <1>3

\* The caller, answered or not, is one the session saved fits.
LEMMA HandledCaller ==
    ASSUME Inv, CallersInv, NEW u \in CallUuids, NEW w, NEW r, NEW session, NEW doc,
           Handling(u, w, r, session, doc), calls[u].status = "live"
    PROVE  LiveOK(u, calls'[u], FlyingOf(u) \ {w}, session)
<1>1. /\ w \in Webhook /\ w.call_uuid = u /\ w \in FlyingOf(u)
      /\ calls[u].session_id = r.session_id
      /\ r.session \in Session /\ Known(u, calls[u], r.session)
      /\ Effect(w, r.session, session) /\ session \in Session
      /\ Answers(w, calls[u].session_id, r.session, session, doc)
      /\ doc \in Document
      /\ doc.says \in Protected => session.is_authenticated
  BY DEF Handling, Allowed, Carries, FlyingOf
<1>2. calls[u] \in Call /\ LiveOK(u, calls[u], FlyingOf(u), SessionOf(u))
  BY PlayingCaller
<1>3. CASE calls[u].awaiting = w
  <2>1. /\ calls'[u] \in Call /\ calls'[u].doc = doc /\ calls'[u].awaiting = None
        /\ calls'[u].session_id = calls[u].session_id
        /\ calls'[u].streak = calls[u].streak /\ calls'[u].wrongs = calls[u].wrongs
        /\ calls'[u].chosen = calls[u].chosen
    BY <1>3, HandledCalls
  <2> DEFINE after == calls'[u]
             session_before == SessionOf(u)
             flying == FlyingOf(u)
  <2>2. /\ after \in Call /\ after.doc = doc /\ after.awaiting = None
        /\ after.session_id = calls[u].session_id
        /\ after.streak = calls[u].streak /\ after.wrongs = calls[u].wrongs
        /\ after.chosen = calls[u].chosen
        /\ LiveOK(u, calls[u], flying, session_before)
    BY <1>2, <2>1
  <2> HIDE DEF after, session_before, flying
  <2>3. LiveOK(u, after, flying \ {w}, session)
    BY <1>1, <1>2, <1>3, <2>2, HeardOK
  <2>4. QED
    BY <2>3 DEF after, flying
<1>4. CASE calls[u].awaiting # w
  <2>1. calls'[u] = calls[u]
    BY <1>4, HandledCalls
  <2>2. LiveOK(u, calls[u], FlyingOf(u) \ {w}, session)
    BY <1>1, <1>2, <1>4, UnheardOK
  <2>3. QED
    BY <2>1, <2>2
<1>5. QED
  BY <1>3, <1>4

\* A handler leaves every caller where the sessions say.
LEMMA HandledCallers ==
    ASSUME Inv, CallersInv, NEW u \in CallUuids, Handled(u)
    PROVE  CallersInv'
<1>1. PICK w, r, session, doc : Handling(u, w, r, session, doc)
  BY HandledKnows
<1> DEFINE id == r.session_id
           touched == Touch(session)
<1>2. /\ w \in inflight /\ w.call_uuid = u /\ id \in SessionIds
      /\ calls[u].session_id = id /\ Resolved(w, r) /\ Effect(w, r.session, session)
      /\ Allowed(w, r, session, doc) /\ Respond(w, r, session, doc)
      /\ session \in Session /\ calls[u].status \in {"live", "ended"}
  BY <1>1 DEF Handling, Allowed
<1>3. touched \in Session /\ Kept(touched, session)
  BY <1>2, TouchType
<1>4. /\ store'.sessions[id] = touched
      /\ \A s \in SessionIds \ {id} : store'.sessions[s] \in {None, store.sessions[s]}
  BY <1>2, RespondStore
<1>5. /\ inflight' = inflight \ {w}
      /\ verified' = (StillVerified(store') \ (IF r.found THEN {} ELSE {u}))
                     \cup (IF CodeEntered(w) THEN {u} ELSE {})
  BY <1>2 DEF Respond
<1> HIDE DEF touched
<1>6. ASSUME NEW v \in CallUuids \ {u}
      PROVE  calls'[v] = calls[v] /\ calls[v].session_id # id
  BY <1>1, <1>2, <1>6, HandledCalls, SessionAssumption DEF Inv, OwnersApart, Owner
<1>7. ASSUME NEW v \in CallUuids \ {u}
      PROVE  CallerOK(v, calls[v], FlyingOf(v), SessionOf(v))'
  <2>1. ASSUME NEW s \in SessionIds, s = calls[v].session_id
        PROVE  Left(store'.sessions[s], store.sessions[s])
    BY <1>4, <1>6, <2>1, LeftAlone
  <2>2. \A x \in inflight' : x.call_uuid = v => x \in inflight
    BY <1>5
  <2>3. QED
    BY <1>6, <2>1, <2>2, OthersOK
<1>8. /\ calls'[u].status = calls[u].status
      /\ calls'[u].session_id = id
      /\ FlyingOf(u)' = FlyingOf(u) \ {w}
  <2>1. calls'[u].status = calls[u].status /\ calls'[u].session_id = id
    BY <1>1, <1>2, HandledCalls
  <2>2. FlyingOf(u)' = FlyingOf(u) \ {w}
    BY <1>5 DEF FlyingOf
  <2>3. QED
    BY <2>1, <2>2
<1>9. SessionOf(u)' = touched
  BY <1>2, <1>4, <1>8, SessionAssumption DEF SessionOf
<1>10. CallerOK(u, calls[u], FlyingOf(u), SessionOf(u))'
  <2>1. CASE calls[u].status = "ended"
    BY <1>8, <2>1 DEF CallerOK
  <2>2. CASE calls[u].status = "live"
    <3> DEFINE after == calls'[u]
               flying == FlyingOf(u) \ {w}
    <3>1. LiveOK(u, after, flying, session) /\ after.status = "live"
      BY <1>1, <1>8, <2>2, HandledCaller
    <3>2. Left(touched, session)
      BY <1>2, <1>3, SessionAssumption DEF Left
    <3> HIDE DEF after, flying
    <3>3. CallerOK(u, after, flying, session)
      BY <3>1 DEF CallerOK
    <3>4. CallerOK(u, after, flying, touched)
      BY <3>2, <3>3, UndisturbedOK
    <3>5. QED
      BY <1>8, <1>9, <3>4 DEF after, flying
  <2>3. QED
    BY <1>2, <2>1, <2>2
<1>11. ASSUME NEW x \in verified'
       PROVE  SessionOf(x)' # None /\ SessionOf(x)'.is_authenticated
  <2>1. CASE x # u
    <3>1. /\ x \in StillVerified(store') /\ x \in verified /\ x \in CallUuids \ {u}
          /\ calls[x].session_id \in Stored(store')
      BY <1>5, <1>11, <2>1 DEF StillVerified, Inv, TypeOK
    <3>2. SessionOf(x) # None /\ SessionOf(x).is_authenticated
      BY <3>1 DEF CallersInv, KnownVerified
    <3> DEFINE s == calls[x].session_id
    <3>3. /\ s \in SessionIds \ {id} /\ store'.sessions[s] # None
          /\ calls'[x].session_id = s
      BY <1>6, <3>1 DEF Stored
    <3>4. store'.sessions[s] = store.sessions[s]
      BY <1>4, <3>3
    <3>5. SessionOf(x)' = store'.sessions[s] /\ SessionOf(x) = store.sessions[s]
      BY <3>3, SessionAssumption DEF SessionOf
    <3>6. QED
      BY <3>2, <3>3, <3>4, <3>5
  <2>2. CASE x = u /\ CodeEntered(w)
    <3>1. session.is_authenticated
      BY <1>2, <2>2 DEF Effect
    <3>2. QED
      BY <1>3, <1>9, <2>2, <3>1, SessionAssumption DEF Kept, Counts
  <2>3. CASE x = u /\ ~CodeEntered(w)
    <3>1. r.found = TRUE /\ u \in verified
      BY <1>2, <1>5, <1>11, <2>3 DEF StillVerified, Resolved
    <3>2. r.session = store.sessions[id]
      BY <1>2, <3>1, SessionAssumption DEF Resolved, Shrinks
    <3>3. r.session.is_authenticated
      BY <1>2, <3>1, <3>2, SessionAssumption DEF CallersInv, KnownVerified, SessionOf
    <3>4. session.is_authenticated
      BY <1>2, <3>3 DEF Effect
    <3>5. QED
      BY <1>3, <1>9, <2>3, <3>4, SessionAssumption DEF Kept, Counts
  <2>4. QED
    BY <2>1, <2>2, <2>3
<1>12. KnownVerified'
  BY <1>11 DEF KnownVerified
<1>13. \A v \in CallUuids : CallerOK(v, calls[v], FlyingOf(v), SessionOf(v))'
  BY <1>7, <1>10
<1>14. QED
  BY <1>12, <1>13 DEF CallersInv

-----------------------------------------------------------------------------
(* The theorems *)

\* Nothing is known of anybody when the server starts.
LEMMA InitCallers == Init => CallersInv
<1> SUFFICES ASSUME Init PROVE CallersInv
  OBVIOUS
<1>1. ASSUME NEW v \in CallUuids
      PROVE  CallerOK(v, calls[v], FlyingOf(v), SessionOf(v))
  <2>1. calls[v] = NoCall /\ FlyingOf(v) = {}
    BY DEF Init, FlyingOf
  <2>2. QED
    BY <2>1 DEF NoCall, CallerOK, Unheard
<1>2. KnownVerified
  BY DEF Init, KnownVerified
<1>3. QED
  BY <1>1, <1>2 DEF CallersInv

\* Every step of the system, or none, keeps it.
LEMMA NextCallers ==
    ASSUME Inv, CallersInv, [Next]_vars
    PROVE  CallersInv'
<1>1. ASSUME NEW u \in CallUuids, Handle(u)
      PROVE  CallersInv'
  BY <1>1, HandleHandled, HandledCallers
<1>2. ASSUME NEW u \in CallUuids, CallerHangsUp(u)
      PROVE  CallersInv'
  BY <1>2, NothingLeft, DropCallers DEF CallerHangsUp, CallersInv
<1>3. ASSUME NEW u \in CallUuids, TimesOut(u)
      PROVE  CallersInv'
  <2>1. calls[u].awaiting # None
    BY <1>3, FlowAssumption DEF TimesOut, Inv, TypeOK
  <2>2. QED
    BY <1>3, <2>1, GivesUpCallers DEF TimesOut
<1>4. ASSUME NEW u \in CallUuids,
             RingingEnds(u) \/ PlivoProceeds(u) \/ CallerPresses(u)
                \/ CallerWalksAway(u) \/ PlaceOutboundCall(u)
      PROVE  CallersInv'
  BY <1>4, RingingCallers, PlivoProceedsCallers, PressesCallers, WalksAwayCallers,
     PlacedCallers
<1>5. CASE (\E u \in CallUuids : Lose(u)) \/ Restart \/ Tick
  BY <1>5, FaultCallers
<1>6. ASSUME NEW s \in SessionIds, EndCall(s)
      PROVE  CallersInv'
  BY <1>6, EndCallCallers
<1>7. CASE ReadCalls
  BY <1>7, ReadCallers
<1>8. CASE UNCHANGED vars
  <2>1. /\ UNCHANGED calls /\ inflight' \subseteq inflight
        /\ UNCHANGED <<store, verified>>
    BY <1>8 DEF vars
  <2>2. QED
    BY <2>1, NothingLeft, ServerStepCallers DEF CallersInv
<1>9. QED
  BY <1>1, <1>2, <1>3, <1>4, <1>5, <1>6, <1>7, <1>8 DEF Next

(***************************************************************************)
(* What the session of a live call says of its caller is true of the       *)
(* caller, whatever was lost, repeated, late or restarted in between.      *)
(***************************************************************************)
THEOREM CallersHold == Spec => []CallersInv
<1>1. Init => CallersInv
  BY InitCallers
<1>2. Inv /\ CallersInv /\ [Next]_vars => CallersInv'
  BY NextCallers
<1>3. QED
  BY <1>1, <1>2, InvHolds, PTL DEF Spec

(***************************************************************************)
(* The operator can end any answered call: the session of a call that is   *)
(* playing, a recreated one included, knows Plivo's id for it (_resolve_   *)
(* session and handle_call_answered), but for a call the fallback is       *)
(* already ending.                                                         *)
(***************************************************************************)
THEOREM OperatorCanHangUpHolds == Spec => []OperatorCanHangUp
<1>1. Inv /\ CallersInv => OperatorCanHangUp
  <2> SUFFICES ASSUME Inv, CallersInv, NEW u \in CallUuids, Playing(u),
                      calls[u].doc.says # "technical", calls[u].session_id \in Stored(store)
               PROVE  store.sessions[calls[u].session_id].call_uuid = u
    BY DEF OperatorCanHangUp
  <2>1. LiveOK(u, calls[u], FlyingOf(u), SessionOf(u)) /\ calls[u].doc # None
    BY PlayingCaller DEF Playing
  <2>2. SessionOf(u) = store.sessions[calls[u].session_id] /\ SessionOf(u) # None
    BY SessionAssumption DEF SessionOf, Stored
  <2>3. QED
    BY <2>1, <2>2 DEF LiveOK, SessionFits, Attached
<1>2. QED
  BY <1>1, InvHolds, CallersHold, PTL

(***************************************************************************)
(* Past the level-1 menu everything is said in the language chosen there,  *)
(* because it is threaded through the callback URLs and no lost session    *)
(* can forget it (_language_for and the builders of xml_builder.py).       *)
(***************************************************************************)
THEOREM LanguageHonouredHolds == Spec => []LanguageHonoured
<1>1. Inv /\ CallersInv => LanguageHonoured
  <2> SUFFICES ASSUME Inv, CallersInv, NEW u \in CallUuids, Playing(u)
               PROVE  calls[u].doc.language \in {None, calls[u].chosen}
    BY DEF LanguageHonoured
  <2>1. calls[u].doc \in DocumentsOf(calls[u].session_id, calls[u].chosen)
    BY PlayingCaller DEF Playing, LiveOK
  <2>2. ASSUME NEW s, NEW chosen, NEW doc \in DocumentsOf(s, chosen)
        PROVE  doc.language \in {None, chosen}
    BY <2>2 DEF DocumentsOf, BuildOtpPrompt, BuildOtpAccepted, BuildLanguageMenu,
       BuildMainMenu, BuildPlayAudioMessage, BuildConnectToAssociate,
       BuildAssociateUnavailable, BuildGoodbye, BuildTerminatingMessage, Speak
  <2>3. QED
    BY <2>1, <2>2
<1>2. QED
  BY <1>1, InvHolds, CallersHold, PTL

(***************************************************************************)
(* Only a lost session starts the count of wrong codes again: a caller who *)
(* used OTP_MAX_ATTEMPTS up and is asked once more has a session that says *)
(* it was recreated, or none.                                              *)
(***************************************************************************)
THEOREM CapForgottenHolds == Spec => []CapForgottenOnlyWithSession
<1>1. Inv /\ CallersInv => CapForgottenOnlyWithSession
  <2> SUFFICES ASSUME Inv, CallersInv, NEW u \in CallUuids, Playing(u),
                      calls[u].doc.says = "otp_prompt", MaxOtpAttempts # 0,
                      calls[u].session_id \in Stored(store)
               PROVE  LET s == calls[u].session_id
                      IN  \/ calls[u].wrongs < MaxOtpAttempts
                          \/ "session_recreated" \in store.sessions[s].events
    BY DEF CapForgottenOnlyWithSession
  <2>1. LiveOK(u, calls[u], FlyingOf(u), SessionOf(u)) /\ calls[u].doc # None
    BY PlayingCaller DEF Playing
  <2>2. SessionOf(u) = store.sessions[calls[u].session_id] /\ SessionOf(u) # None
    BY SessionAssumption DEF SessionOf, Stored
  <2>3. AttemptsFit(calls[u], SessionOf(u)) /\ calls[u].awaiting = None
    BY <2>1, <2>2 DEF LiveOK, SessionFits
  <2>4. \/ "session_recreated" \in SessionOf(u).events
        \/ /\ calls[u].wrongs = SessionOf(u).otp_attempts
           /\ SessionOf(u).otp_attempts < MaxOtpAttempts
    BY <2>1, <2>3 DEF AttemptsFit
  <2>5. QED
    BY <2>2, <2>4
<1>2. QED
  BY <1>1, InvHolds, CallersHold, PTL

\* The goodbye is said to whoever was asked too often or had the transfer.
LEMMA GoodbyeMeans ==
    ASSUME NEW w, NEW s, NEW old, NEW new, NEW doc, Answers(w, s, old, new, doc),
           doc.says = "goodbye"
    PROVE  OutOfPatience(new) \/ w.dial_status = "completed"
<1>1. CASE AnswersAnybody(w, s, old, new, doc)
  <2>1. /\ doc # BuildOtpPrompt(s) /\ doc # BuildOtpAccepted(s)
        /\ \A language : doc # BuildAssociateUnavailable(s, language)
        /\ doc # BuildTerminatingMessage("exhausted")
        /\ doc # BuildTerminatingMessage("technical")
        /\ doc # BuildEmptyResponse
    BY BuildersSay
  <2>2. QED
    BY <1>1, <2>1, Zenon DEF AnswersAnybody, Parts
<1>2. CASE AnswersPastCode(w, s, old, new, doc)
  BY <1>2, BuildersSay DEF AnswersPastCode, Parts
<1>3. QED
  BY <1>1, <1>2, BuildersSay DEF Answers

\* The goodbye is not said early.
GoodbyeStep ==
    \A u \in CallUuids :
        Served(u) /\ calls'[u].doc.says = "goodbye" =>
           \/ calls[u].streak = MaxInvalidInputs
           \/ calls[u].awaiting.dial_status = "completed"

(***************************************************************************)
(* The goodbye is never premature: no count in a session, recreated or     *)
(* answered late, ever runs ahead of the caller's own                      *)
(* (register_no_input, register_invalid_selection and the resets).         *)
(***************************************************************************)
THEOREM GoodbyeEarnedHolds == Spec => GoodbyeEarned
<1>1. Inv /\ CallersInv /\ [Next]_vars => [GoodbyeStep]_vars
  <2> SUFFICES ASSUME Inv, CallersInv, [Next]_vars, NEW u \in CallUuids,
                      Served(u), calls'[u].doc.says = "goodbye"
               PROVE  \/ calls[u].streak = MaxInvalidInputs
                      \/ calls[u].awaiting.dial_status = "completed"
    BY DEF GoodbyeStep
  <2>1. PICK v \in CallUuids : Handled(v)
    BY NextCases DEF NothingStarts, Served
  <2>2. PICK w, r, session, doc : Handling(v, w, r, session, doc)
    BY <2>1, HandledKnows
  <2>3. v = u /\ calls[u].awaiting = w /\ calls'[u].doc = doc
    BY <2>2, HandledCalls DEF Served
  <2>4. /\ calls'[u].awaiting = None /\ calls'[u].streak = calls[u].streak
        /\ calls[u] \in Call /\ session \in Session
    BY <2>2, <2>3, HandledCalls DEF Handling, Effect, Inv, TypeOK
  <2>5. w # None /\ calls[u].status = "live"
    BY <2>2, <2>3, FlowAssumption DEF Handling, Inv, PlacedOK
  <2>6. LiveOK(u, calls'[u], FlyingOf(u) \ {w}, session)
    BY <2>2, <2>3, <2>5, HandledCaller
  <2>7. Counted(calls'[u], session)
    BY <2>4, <2>6, SessionAssumption DEF LiveOK, SessionFits
  <2>8. session.consecutive_unrecognized_inputs <= calls[u].streak
    BY <2>4, <2>7 DEF Counted
  <2>9. OutOfPatience(session) \/ w.dial_status = "completed"
    BY <2>2, <2>3, GoodbyeMeans DEF Handling
  <2>10. CASE OutOfPatience(session)
    <3>1. /\ session.consecutive_unrecognized_inputs \in 0..MaxInvalidInputs
          /\ calls[u].streak \in 0..MaxInvalidInputs /\ MaxInvalidInputs \in Nat
      BY <2>4, Bounds DEF Call, Session
    <3>2. QED
      BY <2>8, <2>10, <3>1 DEF OutOfPatience
  <2>11. QED
    BY <2>3, <2>9, <2>10
<1>2. [][GoodbyeStep]_vars => GoodbyeEarned
  BY PTL DEF GoodbyeEarned, GoodbyeStep
<1>3. QED
  BY <1>1, <1>2, InvHolds, CallersHold, PTL DEF Spec

-----------------------------------------------------------------------------
(***************************************************************************)
(* The refinement: every step moves one call along the diagram, or is one  *)
(* the caller does not notice.                                             *)
(***************************************************************************)

\* Where every call is, and the live calls whose caller the server knows: what
\* CallJourney is instantiated with.
At == [u \in CallUuids |-> PointOf(calls[u])]

Passed == {u \in verified : calls[u].status = "live"}

-----------------------------------------------------------------------------
(* Steps of the diagram, call by call *)

\* One call moves along such an edge, and the others stay where they are.
Moves(u, edges) ==
    /\ \A v \in CallUuids \ {u} : PointOf(calls'[v]) = PointOf(calls[v])
    /\ PointOf(calls'[u]) \in Journey!Points
    /\ <<PointOf(calls[u]), PointOf(calls'[u])>> \in edges

\* Such a move is a step of the diagram.
LEMMA MovesStep ==
    ASSUME NEW u \in CallUuids, NEW edges, Moves(u, edges)
    PROVE  Journey!Step(u, edges)
<1> DEFINE p == PointOf(calls'[u])
<1>1. p \in Journey!Points /\ <<At[u], p>> \in edges
  BY DEF Moves, At
<1>2. At' = [At EXCEPT ![u] = p]
  BY DEF Moves, At
<1>3. QED
  BY <1>1, <1>2 DEF Journey!Step, At

\* A call that stays put moves nobody.
LEMMA StaysPut ==
    ASSUME \A v \in CallUuids : PointOf(calls'[v]) = PointOf(calls[v]), Passed' \subseteq Passed
    PROVE  Journey!Next
<1>1. At' = At
  BY DEF At
<1>2. Journey!ServerForgets
  BY <1>1 DEF Journey!ServerForgets, Journey!Forgets, At, Passed
<1>3. QED
  BY <1>2 DEF Journey!Next

\* What a webhook that is awaited tells of the caller, route by route.
LEMMA WaitingMeans ==
    ASSUME NEW w
    PROVE  /\ w.url.route = "ANSWER" => Waiting(w) = "answered"
           /\ w.url.route = "FALLBACK" => Waiting(w) = "fallback_wanted"
           /\ w.url.route = "OTP_PROMPT" => Waiting(w) = "code_wanted"
           /\ w.url.route = "LANGUAGE_MENU" => Waiting(w) = "language_wanted"
           /\ w.url.route = "MAIN_MENU" => Waiting(w) = "menu_wanted"
           /\ w.url.route = "LANGUAGE_SELECT" =>
                 Waiting(w) = IF w.digits \in {"1", "2"} THEN "language_chosen"
                              ELSE "language_missed"
           /\ w.url.route = "ASSOCIATE_DIAL_STATUS" =>
                 Waiting(w) = IF w.dial_status = "completed" THEN "talked" ELSE "not_reached"
BY DEF Waiting

\* And what was keyed in where there are three ways to answer.
LEMMA WaitingKeyed ==
    ASSUME NEW w
    PROVE  /\ w.url.route = "OTP_VERIFY" =>
                 /\ w.digits \in {"code", "code#"} => Waiting(w) = "code_entered"
                 /\ w.digits = "wrong" => Waiting(w) = "wrong_entered"
                 /\ w.digits \notin {"code", "code#", "wrong"} => Waiting(w) = "nothing_entered"
           /\ w.url.route = "MAIN_MENU_SELECT" =>
                 /\ w.digits = "1" => Waiting(w) = "audio_chosen"
                 /\ w.digits = "2" => Waiting(w) = "associate_chosen"
                 /\ w.digits \notin {"1", "2"} => Waiting(w) = "menu_missed"
BY DEF Waiting

\* Nobody is verified who is not on the line, and only a step of the flow adds one.
LEMMA PassedKept ==
    ASSUME Inv, CallersInv, verified' \subseteq verified,
           \A v \in CallUuids : calls'[v].status = "live" => calls[v].status \in {"ringing", "live"}
    PROVE  Passed' \subseteq Passed
<1>1. ASSUME NEW v \in verified, calls[v].status = "ringing"
      PROVE  FALSE
  <2>1. v \in CallUuids /\ SessionOf(v) # None /\ SessionOf(v).is_authenticated
    BY DEF CallersInv, KnownVerified, Inv, TypeOK
  <2>2. RingingOK(SessionOf(v))
    BY <1>1, <2>1 DEF CallersInv, CallerOK
  <2>3. QED
    BY <2>1, <2>2 DEF RingingOK
<1>2. QED
  BY <1>1 DEF Passed, Inv, TypeOK

-----------------------------------------------------------------------------
(* What Plivo and the caller do *)

\* Such a webhook follows the point the call is at.
Leads(u, url, digits, dial_status) ==
    \A w \in Webhook :
       w.url = url /\ w.digits = digits /\ w.dial_status = dial_status =>
          /\ Waiting(w) \in Journey!Points
          /\ <<PointOf(calls[u]), Waiting(w)>> \in Journey!CallerSide

\* A webhook sent moves the call from what was heard to what is waited for.
LEMMA SendJourney ==
    ASSUME Inv, CallersInv, NEW u \in CallUuids, NEW call \in Call, NEW url \in Url,
           NEW digits \in OtpEntries \cup MenuKeys \cup {""},
           NEW dial_status \in DialStatuses \cup {""},
           calls[u].status \in {"ringing", "live"}, call.status = "live",
           Send(u, url, digits, dial_status, call),
           Leads(u, url, digits, dial_status)
    PROVE  Journey!Next
<1> DEFINE sent == [url |-> url, call_uuid |-> u, digits |-> digits,
                    dial_status |-> dial_status]
           silent == [call EXCEPT !.doc = None]
           waiting == [silent EXCEPT !.awaiting = sent]
<1>1. /\ sent \in Webhook /\ sent.url = url
      /\ sent.digits = digits /\ sent.dial_status = dial_status
  BY DEF Webhook
<1>2. silent \in Call /\ silent.doc = None /\ silent.status = "live"
  BY DEF Call
<1>3. calls' = [calls EXCEPT ![u] = waiting] /\ verified' = verified
  BY DEF Send
<1> HIDE DEF sent, silent
<1>4. /\ waiting.doc = None /\ waiting.awaiting = sent /\ waiting.status = "live"
  BY <1>1, <1>2 DEF Call
<1> HIDE DEF waiting
<1>5. /\ calls'[u] = waiting
      /\ \A v \in CallUuids \ {u} : calls'[v] = calls[v]
  BY <1>3 DEF Inv, TypeOK
<1>6. PointOf(waiting) = Waiting(sent)
  BY <1>4 DEF PointOf
<1>7. Moves(u, Journey!CallerSide)
  BY <1>1, <1>5, <1>6 DEF Leads, Moves
<1>8. Passed' \subseteq Passed
  BY <1>3, <1>5, PassedKept
<1>9. Journey!CallerActs(u)
  BY <1>7, <1>8, MovesStep DEF Journey!CallerActs, Journey!Forgets, Passed
<1>10. QED
  BY <1>9 DEF Journey!Next

\* Where a call is that somebody is on: its document's point, or its webhook's.
LEMMA LivePoint ==
    ASSUME Inv, CallersInv, NEW u \in CallUuids, calls[u].status = "live"
    PROVE  /\ calls[u].doc # None => PointOf(calls[u]) = calls[u].doc.says
           /\ calls[u].doc = None => PointOf(calls[u]) = Waiting(calls[u].awaiting)
           /\ PointOf(calls[u]) \notin {"unplaced", "ended"}
<1>1. /\ calls[u].doc # None => PointOf(calls[u]) = calls[u].doc.says
      /\ calls[u].doc = None => PointOf(calls[u]) = Waiting(calls[u].awaiting)
  BY DEF PointOf
<1>2. calls[u] \in Call /\ LiveOK(u, calls[u], FlyingOf(u), SessionOf(u))
  BY PlayingCaller
<1>3. CASE calls[u].doc # None
  BY <1>1, <1>2, <1>3 DEF Call, Document, Speeches
<1>4. CASE calls[u].doc = None
  <2> DEFINE w == calls[u].awaiting
  <2>1. w \in Webhook /\ w.url.route \in Routes /\ w.url.route # "HANGUP_EVENT"
    BY <1>2, <1>4 DEF LiveOK, Awaitable, Call, Webhook, Url
  <2> HIDE DEF w
  <2>2. Waiting(w) \notin {"unplaced", "ended"}
    BY <2>1, WaitingMeans, WaitingKeyed DEF Routes
  <2>3. QED
    BY <1>1, <1>4, <2>2 DEF w
<1>5. QED
  BY <1>1, <1>3, <1>4

\* A line that drops ends the call, and the server may forget it.
LEMMA DropJourney ==
    ASSUME Inv, CallersInv, NEW u \in CallUuids, calls[u].status \in {"ringing", "live"},
           LineDrops(u), verified' \subseteq verified
    PROVE  Journey!Next
<1> DEFINE over == Over(calls[u])
<1>1. over.status = "ended" /\ calls \in [CallUuids -> Call]
  BY DEF Over, NoCall, Inv, TypeOK
<1>2. calls' = [calls EXCEPT ![u] = over]
  BY <1>1 DEF LineDrops
<1> HIDE DEF over
<1>3. calls'[u] = over /\ \A v \in CallUuids \ {u} : calls'[v] = calls[v]
  BY <1>1, <1>2
<1>4. PointOf(calls[u]) \notin {"unplaced", "ended"}
  BY LivePoint DEF PointOf
<1>5. PointOf(over) = "ended"
  BY <1>1 DEF PointOf
<1>6. At' = [At EXCEPT ![u] = "ended"] /\ At[u] = PointOf(calls[u])
  BY <1>3, <1>5 DEF At
<1>7. Passed' \subseteq Passed /\ u \notin Passed'
  <2>1. Passed' \subseteq Passed
    BY <1>1, <1>3, PassedKept
  <2>2. QED
    BY <1>1, <1>3, <2>1 DEF Passed
<1>8. Journey!LineEnds(u)
  BY <1>4, <1>6, <1>7 DEF Journey!LineEnds, Journey!Forgets, At, Passed
<1>9. QED
  BY <1>8 DEF Journey!Next

\* Keying something in, or nothing, answers the prompt that was heard.
LEMMA PressesJourney ==
    ASSUME Inv, CallersInv, NEW u \in CallUuids, CallerPresses(u)
    PROVE  Journey!Next
<1> DEFINE doc == calls[u].doc
           s == calls[u].session_id
<1>1. PICK digits \in IF doc.get_digits.route = "OTP_VERIFY" THEN OtpEntries ELSE MenuKeys :
         Send(u, doc.get_digits, digits, "", AfterPressing(calls[u], digits))
  BY DEF CallerPresses
<1>2. /\ calls[u].status = "live" /\ doc # None /\ doc.get_digits # None
      /\ doc.get_digits \in Url
      /\ digits \in OtpEntries \cup MenuKeys
  BY PlayingFacts DEF CallerPresses, Playing
<1>3. /\ calls[u] \in Call /\ LiveOK(u, calls[u], FlyingOf(u), SessionOf(u))
      /\ PointOf(calls[u]) = doc.says
  BY <1>2, PlayingCaller, LivePoint
<1> DEFINE call == AfterPressing(calls[u], digits)
<1>4. call \in Call /\ call.status = "live"
  BY <1>2, <1>3, PressingType
<1> HIDE DEF call
<1>5. \/ /\ doc.says = "otp_prompt"
         /\ doc.get_digits = CallbackUrl("OTP_VERIFY", s, None, None)
      \/ /\ doc.says = "language_menu"
         /\ doc.get_digits = CallbackUrl("LANGUAGE_SELECT", s, None, None)
      \/ /\ doc.says = "main_menu"
         /\ doc.get_digits = CallbackUrl("MAIN_MENU_SELECT", s, calls[u].chosen, None)
  BY <1>2, <1>3, AsksMeans DEF LiveOK
<1>6. \/ doc.says = "otp_prompt" /\ doc.get_digits.route = "OTP_VERIFY"
      \/ doc.says = "language_menu" /\ doc.get_digits.route = "LANGUAGE_SELECT"
      \/ doc.says = "main_menu" /\ doc.get_digits.route = "MAIN_MENU_SELECT"
  BY <1>5 DEF CallbackUrl
<1>7. ASSUME NEW w \in Webhook, w.url = doc.get_digits, w.digits = digits
      PROVE  /\ Waiting(w) \in Journey!Points
             /\ <<doc.says, Waiting(w)>> \in Journey!CallerSide
  <2>1. CASE doc.says = "otp_prompt"
    <3>1. Waiting(w) \in {"code_entered", "wrong_entered", "nothing_entered"}
      BY <1>6, <1>7, <2>1, WaitingKeyed
    <3>2. QED
      BY <2>1, <3>1 DEF Journey!Points, Journey!CallerSide, Journey!From
  <2>2. CASE doc.says = "language_menu"
    <3>1. Waiting(w) \in {"language_chosen", "language_missed"}
      BY <1>6, <1>7, <2>2, WaitingMeans
    <3>2. QED
      BY <2>2, <3>1 DEF Journey!Points, Journey!CallerSide, Journey!From
  <2>3. CASE doc.says = "main_menu"
    <3>1. Waiting(w) \in {"audio_chosen", "associate_chosen", "menu_missed"}
      BY <1>6, <1>7, <2>3, WaitingKeyed
    <3>2. QED
      BY <2>3, <3>1 DEF Journey!Points, Journey!CallerSide, Journey!From
  <2>4. QED
    BY <1>6, <2>1, <2>2, <2>3
<1>8. Leads(u, doc.get_digits, digits, "")
  BY <1>3, <1>7 DEF Leads
<1>9. Send(u, doc.get_digits, digits, "", call)
  BY <1>1 DEF call
<1>10. QED
  BY <1>2, <1>4, <1>8, <1>9, SendJourney

\* A prompt not answered is asked for again.
LEMMA SilentJourney ==
    ASSUME Inv, CallersInv, NEW u \in CallUuids, CallerSilent(u)
    PROVE  Journey!Next
<1> DEFINE doc == calls[u].doc
           s == calls[u].session_id
           call == [calls[u] EXCEPT !.streak = CountUpTo(@, MaxInvalidInputs)]
<1>1. /\ calls[u].status = "live" /\ doc # None /\ doc.get_digits # None
      /\ FallThrough(u, call)
  BY DEF CallerSilent, Playing
<1>2. /\ calls[u] \in Call /\ s \in SessionIds /\ calls[u].chosen \in Languages \cup {None}
      /\ LiveOK(u, calls[u], FlyingOf(u), SessionOf(u))
      /\ PointOf(calls[u]) = doc.says
  BY <1>1, PlayingCaller, LivePoint DEF Call
<1>3. CountUpTo(calls[u].streak, MaxInvalidInputs) \in 0..MaxInvalidInputs
  BY <1>2, Bounds, CountUpToType DEF Call
<1>4. call \in Call /\ call.status = "live" /\ call.doc = doc
  BY <1>1, <1>2, <1>3 DEF Call
<1> HIDE DEF call
<1>5. \/ /\ doc.says = "otp_prompt"
         /\ doc.redirect = CallbackUrl("OTP_PROMPT", s, None, "no_input")
      \/ /\ doc.says = "language_menu"
         /\ doc.redirect = CallbackUrl("LANGUAGE_MENU", s, None, "no_input")
      \/ /\ doc.says = "main_menu"
         /\ doc.redirect = CallbackUrl("MAIN_MENU", s, calls[u].chosen, "no_input")
  BY <1>1, <1>2, AsksMeans DEF LiveOK
<1>6. \/ doc.says = "otp_prompt" /\ doc.redirect.route = "OTP_PROMPT"
      \/ doc.says = "language_menu" /\ doc.redirect.route = "LANGUAGE_MENU"
      \/ doc.says = "main_menu" /\ doc.redirect.route = "MAIN_MENU"
  BY <1>5 DEF CallbackUrl
<1>7. doc.redirect \in Url /\ doc.redirect # None
  <2>1. doc.redirect \in Url
    BY <1>2, <1>5, CallbackUrlType DEF Routes
  <2>2. QED
    BY <2>1, DocumentAssumption
<1>8. Leads(u, doc.redirect, "", "")
  <2>1. ASSUME NEW w \in Webhook, w.url = doc.redirect
        PROVE  \/ doc.says = "otp_prompt" /\ Waiting(w) = "code_wanted"
               \/ doc.says = "language_menu" /\ Waiting(w) = "language_wanted"
               \/ doc.says = "main_menu" /\ Waiting(w) = "menu_wanted"
    BY <1>6, <2>1, WaitingMeans
  <2>2. QED
    BY <1>2, <2>1 DEF Leads, Journey!Points, Journey!CallerSide, Journey!From
<1>9. Send(u, doc.redirect, "", "", call)
  BY <1>1, <1>4, <1>7 DEF FallThrough
<1>10. QED
  BY <1>1, <1>4, <1>7, <1>8, <1>9, SendJourney

\* A document spoken to its end leads on to a menu.
LEMMA SpokenJourney ==
    ASSUME Inv, CallersInv, NEW u \in CallUuids, DocumentSpoken(u)
    PROVE  Journey!Next
<1> DEFINE doc == calls[u].doc
           s == calls[u].session_id
<1>1. /\ calls[u].status = "live" /\ doc # None
      /\ doc.get_digits = None /\ doc.dial = None /\ ~doc.hangup
      /\ FallThrough(u, calls[u])
  BY DEF DocumentSpoken, Playing
<1>2. /\ calls[u] \in Call /\ s \in SessionIds /\ calls[u].chosen \in Languages \cup {None}
      /\ LiveOK(u, calls[u], FlyingOf(u), SessionOf(u))
      /\ PointOf(calls[u]) = doc.says
  BY <1>1, PlayingCaller, LivePoint DEF Call
<1>3. \/ /\ doc.says = "otp_accepted"
         /\ doc.redirect = CallbackUrl("LANGUAGE_MENU", s, None, None)
      \/ /\ doc.says \in {"audio", "unavailable"}
         /\ doc.redirect = CallbackUrl("MAIN_MENU", s, calls[u].chosen, None)
  BY <1>1, <1>2, SpokenMeans DEF LiveOK
<1>4. \/ doc.says = "otp_accepted" /\ doc.redirect.route = "LANGUAGE_MENU"
      \/ doc.says \in {"audio", "unavailable"} /\ doc.redirect.route = "MAIN_MENU"
  BY <1>3 DEF CallbackUrl
<1>5. doc.redirect \in Url /\ doc.redirect # None
  <2>1. doc.redirect \in Url
    BY <1>2, <1>3, CallbackUrlType DEF Routes
  <2>2. QED
    BY <2>1, DocumentAssumption
<1>6. Leads(u, doc.redirect, "", "")
  <2>1. ASSUME NEW w \in Webhook, w.url = doc.redirect
        PROVE  \/ doc.says = "otp_accepted" /\ Waiting(w) = "language_wanted"
               \/ doc.says \in {"audio", "unavailable"} /\ Waiting(w) = "menu_wanted"
    BY <1>4, <2>1, WaitingMeans
  <2>2. QED
    BY <1>2, <2>1 DEF Leads, Journey!Points, Journey!CallerSide, Journey!From
<1>7. Send(u, doc.redirect, "", "", calls[u])
  BY <1>1, <1>5 DEF FallThrough
<1>8. QED
  BY <1>1, <1>2, <1>5, <1>6, <1>7, SendJourney

\* A transfer has put the caller through, or it has not.
LEMMA DialJourney ==
    ASSUME Inv, CallersInv, NEW u \in CallUuids, DialEnds(u)
    PROVE  Journey!Next
<1> DEFINE doc == calls[u].doc
           s == calls[u].session_id
<1>1. PICK status \in DialStatuses : Send(u, doc.dial, "", status, calls[u])
  BY DEF DialEnds
<1>2. calls[u].status = "live" /\ doc # None /\ doc.dial # None
  BY DEF DialEnds, Playing
<1>3. /\ calls[u] \in Call /\ s \in SessionIds /\ calls[u].chosen \in Languages \cup {None}
      /\ LiveOK(u, calls[u], FlyingOf(u), SessionOf(u))
      /\ PointOf(calls[u]) = doc.says
  BY <1>2, PlayingCaller, LivePoint DEF Call
<1>4. /\ doc.says = "connecting"
      /\ doc.dial = CallbackUrl("ASSOCIATE_DIAL_STATUS", s, calls[u].chosen, None)
  BY <1>2, <1>3, DialsMeans DEF LiveOK
<1>5. doc.dial \in Url /\ doc.dial.route = "ASSOCIATE_DIAL_STATUS"
  <2>1. CallbackUrl("ASSOCIATE_DIAL_STATUS", s, calls[u].chosen, None) \in Url
    BY <1>3, CallbackUrlType DEF Routes
  <2>2. QED
    BY <1>4, <2>1 DEF CallbackUrl
<1>6. Leads(u, doc.dial, "", status)
  <2>1. ASSUME NEW w \in Webhook, w.url = doc.dial
        PROVE  Waiting(w) \in {"talked", "not_reached"}
    BY <1>5, <2>1, WaitingMeans
  <2>2. QED
    BY <1>3, <1>4, <2>1 DEF Leads, Journey!Points, Journey!CallerSide, Journey!From
<1>7. /\ status \in DialStatuses \cup {""}
      /\ "" \in OtpEntries \cup MenuKeys \cup {""}
  OBVIOUS
<1> DEFINE url == doc.dial
<1>8. /\ url \in Url /\ calls[u] \in Call /\ calls[u].status = "live"
      /\ Send(u, url, "", status, calls[u]) /\ Leads(u, url, "", status)
  BY <1>1, <1>2, <1>3, <1>5, <1>6
<1> HIDE DEF url
<1>9. QED
  BY <1>7, <1>8, SendJourney

\* The called party answers, or does not.
LEMMA RingingJourney ==
    ASSUME Inv, CallersInv, NEW u \in CallUuids, RingingEnds(u)
    PROVE  Journey!Next
<1>1. /\ calls[u] \in Call /\ calls[u].status = "ringing"
      /\ calls[u].session_id \in SessionIds /\ PointOf(calls[u]) = "ringing"
  BY DEF RingingEnds, Answer, NoAnswer, Inv, TypeOK, PlacedOK, Call, PointOf
<1>2. CASE NoAnswer(u)
  BY <1>1, <1>2, DropJourney DEF NoAnswer
<1>3. CASE Answer(u)
  <2> DEFINE url == CallbackUrl("ANSWER", calls[u].session_id, None, None)
             call == [calls[u] EXCEPT !.status = "live"]
  <2>1. url \in Url /\ url.route = "ANSWER"
    BY <1>1, CallbackUrlType DEF Routes, CallbackUrl
  <2>2. call \in Call /\ call.status = "live"
    BY <1>1 DEF Call
  <2>3. Send(u, url, "", "", call)
    BY <1>3 DEF Answer
  <2> HIDE DEF url, call
  <2>4. Leads(u, url, "", "")
    <3>1. ASSUME NEW w \in Webhook, w.url = url
          PROVE  Waiting(w) = "answered"
      BY <2>1, <3>1, WaitingMeans
    <3>2. QED
      BY <1>1, <3>1 DEF Leads, Journey!Points, Journey!CallerSide, Journey!From
  <2>5. QED
    BY <1>1, <2>1, <2>2, <2>3, <2>4, SendJourney
<1>4. QED
  BY <1>2, <1>3 DEF RingingEnds

\* An answer given up leads to the fallback, or the line drops.
LEMMA GivesUpJourney ==
    ASSUME Inv, CallersInv, NEW u \in CallUuids, calls[u].awaiting # None, GivesUp(u)
    PROVE  Journey!Next
<1>1. calls[u].status = "live"
  BY DEF Inv, PlacedOK
<1>2. /\ calls[u] \in Call /\ calls[u].session_id \in SessionIds
      /\ calls[u].doc = None
      /\ PointOf(calls[u]) = Waiting(calls[u].awaiting)
  BY <1>1, PlayingCaller, LivePoint DEF LiveOK
<1>3. CASE calls[u].awaiting.url.route = "ANSWER"
  <2> DEFINE url == CallbackUrl("FALLBACK", calls[u].session_id, None, None)
  <2>1. url \in Url /\ url.route = "FALLBACK"
    BY <1>2, CallbackUrlType DEF Routes, CallbackUrl
  <2>2. Send(u, url, "", "", calls[u])
    BY <1>3 DEF GivesUp
  <2> HIDE DEF url
  <2>3. PointOf(calls[u]) = "answered"
    BY <1>2, <1>3, WaitingMeans
  <2>4. Leads(u, url, "", "")
    <3>1. ASSUME NEW w \in Webhook, w.url = url
          PROVE  Waiting(w) = "fallback_wanted"
      BY <2>1, <3>1, WaitingMeans
    <3>2. QED
      BY <2>3, <3>1 DEF Leads, Journey!Points, Journey!CallerSide, Journey!From
  <2>5. QED
    BY <1>1, <1>2, <2>1, <2>2, <2>4, SendJourney
<1>4. CASE calls[u].awaiting.url.route # "ANSWER"
  <2>1. LineDrops(u) /\ UNCHANGED <<store, verified>>
    BY <1>4 DEF GivesUp
  <2>2. QED
    BY <1>1, <2>1, DropJourney
<1>5. QED
  BY <1>3, <1>4

\* Whatever Plivo does next is a step of the diagram.
LEMMA PlivoProceedsJourney ==
    ASSUME Inv, CallersInv, NEW u \in CallUuids, PlivoProceeds(u)
    PROVE  Journey!Next
<1>1. CASE HangsUp(u)
  BY <1>1, DropJourney DEF HangsUp, Playing
<1>2. CASE WebhookFailed(u)
  BY <1>2, GivesUpJourney DEF WebhookFailed
<1>3. QED
  BY <1>1, <1>2, SilentJourney, SpokenJourney, DialJourney DEF PlivoProceeds

\* Putting the handset down is not seen in the diagram.
LEMMA WalksAwayJourney ==
    ASSUME Inv, CallersInv, NEW u \in CallUuids, CallerWalksAway(u)
    PROVE  Journey!Next
<1>1. calls \in [CallUuids -> Call]
  BY DEF Inv, TypeOK
<1>2. \A v \in CallUuids : /\ calls'[v].status = calls[v].status
                           /\ calls'[v].doc = calls[v].doc
                           /\ calls'[v].awaiting = calls[v].awaiting
  BY <1>1 DEF CallerWalksAway, Call
<1>3. verified' = verified
  BY DEF CallerWalksAway
<1>4. \A v \in CallUuids : PointOf(calls'[v]) = PointOf(calls[v])
  BY <1>2 DEF PointOf
<1>5. Passed' \subseteq Passed
  BY <1>2, <1>3, PassedKept
<1>6. QED
  BY <1>4, <1>5, StaysPut

-----------------------------------------------------------------------------
(* What the operator and the server itself do *)

\* A step that leaves every call alone and verifies nobody moves nobody.
LEMMA ServerStepJourney ==
    ASSUME Inv, CallersInv, UNCHANGED calls, verified' \subseteq verified
    PROVE  Journey!Next
<1>1. Passed' \subseteq Passed
  BY PassedKept
<1>2. QED
  BY <1>1, StaysPut

\* A call placed rings, or Plivo refused it.
LEMMA PlacedJourney ==
    ASSUME Inv, CallersInv, NEW u \in CallUuids, PlaceOutboundCall(u)
    PROVE  Journey!Next
<1>1. PICK s \in SessionIds, reply \in PlaceReplies :
         /\ \E st \in Create(store, s, RecordEvent(NewCallSession(None), "call_requested")) :
               verified' = StillVerified(st)
         /\ calls' = IF reply.rings
                     THEN [calls EXCEPT ![u].status = "ringing", ![u].session_id = s]
                     ELSE calls
  BY DEF PlaceOutboundCall
<1>2. verified' \subseteq verified
  BY <1>1 DEF StillVerified
<1>3. calls[u].status = "unplaced" /\ calls \in [CallUuids -> Call]
  BY DEF PlaceOutboundCall, Inv, TypeOK
<1> DEFINE rung == [calls[u] EXCEPT !.status = "ringing"]
           called == [rung EXCEPT !.session_id = s]
<1>4. rung \in Call /\ rung.status = "ringing"
  BY <1>3 DEF Call
<1>5. calls' = [calls EXCEPT ![u] = called] \/ calls' = calls
  <2>1. [calls EXCEPT ![u].status = "ringing", ![u].session_id = s]
           = [calls EXCEPT ![u] = called]
    BY <1>3
  <2>2. QED
    BY <1>1, <2>1
<1> HIDE DEF rung
<1>6. called.status = "ringing"
  BY <1>4 DEF Call
<1> HIDE DEF called
<1>7. CASE calls' = calls
  BY <1>2, <1>7, ServerStepJourney
<1>8. CASE calls' = [calls EXCEPT ![u] = called]
  <2>1. calls'[u] = called /\ \A v \in CallUuids \ {u} : calls'[v] = calls[v]
    BY <1>3, <1>8
  <2>2. PointOf(calls[u]) = "unplaced" /\ PointOf(calls'[u]) = "ringing"
    BY <1>3, <1>6, <2>1 DEF PointOf
  <2>3. Moves(u, Journey!CallerSide)
    BY <2>1, <2>2 DEF Moves, Journey!Points, Journey!CallerSide, Journey!From
  <2>4. Passed' \subseteq Passed
    BY <1>2, <1>6, <2>1, PassedKept
  <2>5. Journey!CallerActs(u)
    BY <2>3, <2>4, MovesStep DEF Journey!CallerActs, Journey!Forgets, Passed
  <2>6. QED
    BY <2>5 DEF Journey!Next
<1>9. QED
  BY <1>5, <1>7, <1>8

\* The operator's hangup drops the line, or nothing happens to the call.
LEMMA EndCallJourney ==
    ASSUME Inv, CallersInv, NEW s \in SessionIds, EndCall(s)
    PROVE  Journey!Next
<1>1. verified' \subseteq verified
  BY DEF EndCall, EndCallRejected, EndCallAccepted, StillVerified
<1>2. CASE EndCallRejected
  BY <1>1, <1>2, ServerStepJourney DEF EndCallRejected
<1>3. CASE EndCallAccepted(s)
  <2>1. PICK u \in CallUuids : calls[u].status = "live" /\ LineDrops(u)
    BY <1>3 DEF EndCallAccepted
  <2>2. QED
    BY <1>1, <2>1, DropJourney
<1>4. QED
  BY <1>2, <1>3 DEF EndCall

-----------------------------------------------------------------------------
(* What the handlers do *)

\* The answers that anybody is given are edges open to anybody.
LEMMA OpenEdges ==
    ASSUME NEW w \in Webhook, NEW chosen, Awaitable(w, chosen), ~CodeEntered(w),
           NEW s, NEW old, NEW new, NEW doc, AnswersAnybody(w, s, old, new, doc)
    PROVE  <<Waiting(w), doc.says>> \in Journey!Open /\ doc.says \in Journey!Points
<1>1. CASE w.url.route \in {"ANSWER", "OTP_PROMPT"}
  <2>1. \/ w.url.route = "ANSWER" /\ doc = BuildOtpPrompt(s)
        \/ /\ w.url.route = "OTP_PROMPT"
           /\ doc = BuildOtpPrompt(s) \/ doc = BuildGoodbye(None)
    BY <1>1 DEF AnswersAnybody, CodeEntered, WrongCode
  <2>2. \/ Waiting(w) = "answered" /\ doc.says = "otp_prompt"
        \/ Waiting(w) = "code_wanted" /\ doc.says \in {"otp_prompt", "goodbye"}
    BY <2>1, WaitingMeans, BuildersSay
  <2>3. QED
    BY <2>2 DEF Journey!Open, Journey!From, Journey!Points, Journey!Heard
<1>2. CASE w.url.route = "OTP_VERIFY" /\ w.digits \in {"", "#"}
  <2>1. doc = BuildOtpPrompt(s) \/ doc = BuildGoodbye(None)
    BY <1>2 DEF AnswersAnybody, CodeEntered, WrongCode
  <2>2. Waiting(w) = "nothing_entered" /\ doc.says \in {"otp_prompt", "goodbye"}
    BY <1>2, <2>1, WaitingKeyed, BuildersSay
  <2>3. QED
    BY <2>2 DEF Journey!Open, Journey!From, Journey!Points, Journey!Heard
<1>3. CASE w.url.route = "OTP_VERIFY" /\ w.digits \notin {"", "#"}
  <2>1. w.digits = "wrong"
    BY <1>3 DEF Awaitable, CodeEntered, OtpEntries
  <2>2. doc = BuildOtpPrompt(s) \/ doc = BuildTerminatingMessage("exhausted")
    BY <1>3 DEF AnswersAnybody, CodeEntered, WrongCode
  <2>3. Waiting(w) = "wrong_entered" /\ doc.says \in {"otp_prompt", "exhausted"}
    BY <1>3, <2>1, <2>2, WaitingKeyed, BuildersSay
  <2>4. QED
    BY <2>3 DEF Journey!Open, Journey!From, Journey!Points, Journey!Heard
<1>4. CASE w.url.route = "ASSOCIATE_DIAL_STATUS"
  <2>1. \/ w.dial_status = "completed" /\ doc = BuildGoodbye(LanguageFor(old, w))
        \/ /\ w.dial_status # "completed"
           /\ doc = BuildAssociateUnavailable(s, LanguageFor(old, w))
    BY <1>4 DEF AnswersAnybody, CodeEntered, WrongCode
  <2>2. \/ Waiting(w) = "talked" /\ doc.says = "goodbye"
        \/ Waiting(w) = "not_reached" /\ doc.says = "unavailable"
    BY <1>4, <2>1, WaitingMeans, BuildersSay
  <2>3. QED
    BY <2>2 DEF Journey!Open, Journey!From, Journey!Points, Journey!Heard
<1>5. CASE w.url.route = "FALLBACK"
  <2>1. doc = BuildTerminatingMessage("technical")
    BY <1>5 DEF AnswersAnybody, CodeEntered, WrongCode
  <2>2. Waiting(w) = "fallback_wanted" /\ doc.says = "technical"
    BY <1>5, <2>1, WaitingMeans, BuildersSay
  <2>3. QED
    BY <2>2 DEF Journey!Open, Journey!From, Journey!Points, Journey!Heard
<1>6. QED
  BY <1>1, <1>2, <1>3, <1>4, <1>5 DEF AnswersAnybody, CodeEntered, WrongCode, Awaitable

\* The right code is the one edge to the other side of it.
LEMMA CodeEdge ==
    ASSUME NEW w \in Webhook, CodeEntered(w),
           NEW s, NEW old, NEW new, NEW doc, AnswersAnybody(w, s, old, new, doc)
    PROVE  /\ <<Waiting(w), doc.says>> \in Journey!Guarded /\ doc.says \in Journey!Points
           /\ Waiting(w) = "code_entered"
<1>1. /\ w.url.route = "OTP_VERIFY" /\ w.digits \in {"code", "code#"}
      /\ doc = BuildOtpAccepted(s)
  BY DEF AnswersAnybody, CodeEntered, WrongCode
<1>2. Waiting(w) = "code_entered" /\ doc.says = "otp_accepted"
  BY <1>1, WaitingKeyed, BuildersSay
<1>3. QED
  BY <1>2 DEF Journey!Guarded, Journey!From, Journey!Points, Journey!Heard

\* The answers past the access code are edges for those who passed.
LEMMA GuardedEdges ==
    ASSUME NEW w \in Webhook, NEW s, NEW old, NEW new, NEW doc,
           AnswersPastCode(w, s, old, new, doc)
    PROVE  /\ <<Waiting(w), doc.says>> \in Journey!Guarded /\ doc.says \in Journey!Points
           /\ Waiting(w) # "code_entered"
<1>1. CASE w.url.route \in {"LANGUAGE_MENU", "LANGUAGE_SELECT"}
  <2>1. \/ /\ w.url.route = "LANGUAGE_MENU"
           /\ doc = BuildLanguageMenu(s) \/ doc = BuildGoodbye(None)
        \/ /\ w.url.route = "LANGUAGE_SELECT" /\ w.digits \notin {"1", "2"}
           /\ doc = BuildLanguageMenu(s) \/ doc = BuildGoodbye(None)
        \/ /\ w.url.route = "LANGUAGE_SELECT" /\ w.digits \in {"1", "2"}
           /\ doc = BuildMainMenu(s, FromMenuDigit(w.digits))
    BY <1>1 DEF AnswersPastCode
  <2>2. \/ /\ Waiting(w) \in {"language_wanted", "language_missed"}
           /\ doc.says \in {"language_menu", "goodbye"}
        \/ Waiting(w) = "language_chosen" /\ doc.says = "main_menu"
    BY <2>1, WaitingMeans, BuildersSay
  <2>3. QED
    BY <2>2 DEF Journey!Guarded, Journey!From, Journey!Points, Journey!Heard
<1>2. CASE w.url.route = "MAIN_MENU"
  <2>1. doc = BuildMainMenu(s, LanguageFor(old, w)) \/ doc = BuildGoodbye(LanguageFor(old, w))
    BY <1>2 DEF AnswersPastCode
  <2>2. Waiting(w) = "menu_wanted" /\ doc.says \in {"main_menu", "goodbye"}
    BY <1>2, <2>1, WaitingMeans, BuildersSay
  <2>3. QED
    BY <2>2 DEF Journey!Guarded, Journey!From, Journey!Points, Journey!Heard
<1>3. CASE w.url.route = "MAIN_MENU_SELECT"
  <2>1. \/ w.digits = "1" /\ doc = BuildPlayAudioMessage(s, LanguageFor(old, w))
        \/ w.digits = "2" /\ doc = BuildConnectToAssociate(s, LanguageFor(old, w))
        \/ /\ w.digits \notin {"1", "2"}
           /\ \/ doc = BuildMainMenu(s, LanguageFor(old, w))
              \/ doc = BuildGoodbye(LanguageFor(old, w))
    BY <1>3 DEF AnswersPastCode
  <2>2. \/ Waiting(w) = "audio_chosen" /\ doc.says = "audio"
        \/ Waiting(w) = "associate_chosen" /\ doc.says = "connecting"
        \/ Waiting(w) = "menu_missed" /\ doc.says \in {"main_menu", "goodbye"}
    BY <1>3, <2>1, WaitingKeyed, BuildersSay
  <2>3. QED
    BY <2>2 DEF Journey!Guarded, Journey!From, Journey!Points, Journey!Heard
<1>4. QED
  BY <1>1, <1>2, <1>3 DEF AnswersPastCode

\* And everybody else is asked for the code again.
LEMMA AskedAgainEdges ==
    ASSUME NEW w, NEW s, NEW old, NEW doc, TurnedAway(w, old), doc = BuildOtpPrompt(s)
    PROVE  <<Waiting(w), doc.says>> \in Journey!AskedAgain /\ doc.says \in Journey!Points
<1>1. Waiting(w) \in Journey!PastTheCode
  BY WaitingMeans, WaitingKeyed DEF TurnedAway, GuardedRoutes, Journey!PastTheCode
<1>2. doc.says = "otp_prompt"
  BY BuildersSay
<1>3. QED
  BY <1>1, <1>2 DEF Journey!AskedAgain, Journey!From, Journey!Points, Journey!Heard

\* Who is verified after a handler.
LEMMA HandledVerified ==
    ASSUME Inv, CallersInv, NEW u \in CallUuids, NEW w, NEW r, NEW session, NEW doc,
           Handling(u, w, r, session, doc)
    PROVE  /\ \A x \in verified' : x \in verified \/ (x = u /\ CodeEntered(w))
           /\ r.session.is_authenticated \/ CodeEntered(w) => u \in verified'
           /\ TurnedAway(w, r.session) => u \notin verified'
<1>1. /\ w \in inflight /\ w.call_uuid = u /\ Resolved(w, r) /\ Effect(w, r.session, session)
      /\ Allowed(w, r, session, doc) /\ Respond(w, r, session, doc)
      /\ r.session_id \in SessionIds /\ calls[u].session_id = r.session_id
      /\ r.session \in Session
  BY DEF Handling
<1>2. verified' = (StillVerified(store') \ (IF r.found THEN {} ELSE {u}))
                  \cup (IF CodeEntered(w) THEN {u} ELSE {})
  BY <1>1 DEF Respond
<1>3. \A x \in verified' : x \in verified \/ (x = u /\ CodeEntered(w))
  BY <1>2 DEF StillVerified
<1>4. r.session.is_authenticated \/ CodeEntered(w) => u \in verified'
  BY <1>1, RespondVerified DEF Effect
<1>5. ASSUME TurnedAway(w, r.session)
      PROVE  u \notin verified'
  <2>1. ~CodeEntered(w) /\ ~r.session.is_authenticated
    BY <1>5 DEF TurnedAway, GuardedRoutes, CodeEntered
  <2>2. CASE r.found = FALSE
    BY <1>2, <2>1, <2>2
  <2>3. CASE r.found = TRUE
    <3>1. r.session = store.sessions[r.session_id]
      BY <1>1, <2>3, SessionAssumption DEF Resolved, Shrinks
    <3>2. SessionOf(u) = r.session
      BY <1>1, <3>1, SessionAssumption DEF SessionOf
    <3>3. u \notin verified
      BY <2>1, <3>2 DEF CallersInv, KnownVerified
    <3>4. QED
      BY <1>3, <2>1, <3>3
  <2>4. QED
    BY <1>1, <2>2, <2>3 DEF Resolved
<1>6. QED
  BY <1>3, <1>4, <1>5

\* A handler answers along the diagram, or too late to be heard.
LEMMA HandledJourney ==
    ASSUME Inv, CallersInv, NEW u \in CallUuids, Handled(u)
    PROVE  Journey!Next
<1>1. PICK w, r, session, doc : Handling(u, w, r, session, doc)
  BY HandledKnows
<1>2. /\ w \in inflight /\ w \in Webhook /\ w.call_uuid = u
      /\ Answers(w, r.session_id, r.session, session, doc)
      /\ doc \in Document /\ calls[u].status \in {"live", "ended"}
  BY <1>1 DEF Handling, Allowed, Carries
<1>3. /\ \A v \in CallUuids \ {u} : calls'[v] = calls[v]
      /\ calls'[u].status = calls[u].status
  BY <1>1, HandledCalls
<1>4. /\ \A x \in verified' : x \in verified \/ (x = u /\ CodeEntered(w))
      /\ r.session.is_authenticated \/ CodeEntered(w) => u \in verified'
      /\ TurnedAway(w, r.session) => u \notin verified'
  BY <1>1, HandledVerified
<1>5. \A x \in Passed' : x \in Passed \/ (x = u /\ CodeEntered(w))
  BY <1>3, <1>4 DEF Passed, Inv, TypeOK
<1>6. CASE calls[u].awaiting # w
  <2>1. \A v \in CallUuids : calls'[v] = calls[v]
    BY <1>1, <1>3, <1>6, HandledCalls
  <2>2. calls[u].status = "live" => w.url.route = "ANSWER"
    BY <1>2, <1>6, PlayingCaller DEF LiveOK, FlyingOf
  <2>3. calls[u].status = "live" => ~CodeEntered(w)
    BY <2>2 DEF CodeEntered
  <2>4. Passed' \subseteq Passed
    BY <1>3, <1>5, <2>3 DEF Passed
  <2>5. QED
    BY <2>1, <2>4, StaysPut
<1>7. CASE calls[u].awaiting = w
  <2>1. w # None /\ calls[u].status = "live"
    BY <1>2, <1>7, FlowAssumption DEF Inv, PlacedOK
  <2>2. LiveOK(u, calls[u], FlyingOf(u), SessionOf(u))
    BY <2>1, PlayingCaller
  <2>3. calls[u].doc = None /\ Awaitable(w, calls[u].chosen)
    BY <1>7, <2>1, <2>2 DEF LiveOK
  <2>4. PointOf(calls[u]) = Waiting(w)
    BY <1>7, <2>1, <2>3, LivePoint
  <2>5. calls'[u].doc = doc /\ doc # None /\ calls'[u].status = "live"
    BY <1>1, <1>2, <1>3, <1>7, <2>1, HandledCalls, DocumentAssumption
  <2>6. PointOf(calls'[u]) = doc.says
    BY <2>5 DEF PointOf
  <2>7. ASSUME NEW edges, <<Waiting(w), doc.says>> \in edges, doc.says \in Journey!Points
        PROVE  Journey!Step(u, edges)
    <3>1. Moves(u, edges)
      BY <1>3, <2>4, <2>6, <2>7 DEF Moves
    <3>2. QED
      BY <3>1, MovesStep
  <2>8. CASE AnswersAnybody(w, r.session_id, r.session, session, doc) /\ ~CodeEntered(w)
    <3>1. Journey!Step(u, Journey!Open)
      BY <1>2, <2>3, <2>7, <2>8, OpenEdges
    <3>2. Journey!AnsweredAnybody(u)
      BY <1>5, <2>8, <3>1 DEF Journey!AnsweredAnybody, Journey!Forgets, Passed
    <3>3. QED
      BY <3>2 DEF Journey!Next
  <2>9. CASE AnswersAnybody(w, r.session_id, r.session, session, doc) /\ CodeEntered(w)
    <3>1. Journey!Step(u, Journey!Guarded) /\ At[u] = "code_entered"
      BY <1>2, <2>4, <2>7, <2>9, CodeEdge DEF At
    <3>2. u \in Passed' /\ Passed' \subseteq Passed \cup {u}
      BY <1>4, <1>5, <2>5, <2>9 DEF Passed
    <3>3. Journey!AnsweredIfPassed(u)
      BY <3>1, <3>2 DEF Journey!AnsweredIfPassed, Journey!Forgets, Passed, At
    <3>4. QED
      BY <3>3 DEF Journey!Next
  <2>10. CASE /\ r.session.is_authenticated
              /\ AnswersPastCode(w, r.session_id, r.session, session, doc)
    <3>1. Journey!Step(u, Journey!Guarded) /\ Waiting(w) # "code_entered"
      BY <1>2, <2>7, <2>10, GuardedEdges
    <3>2. ~CodeEntered(w)
      BY <3>1, WaitingKeyed DEF CodeEntered
    <3>3. u \in Passed' /\ Passed' \subseteq Passed
      BY <1>4, <1>5, <2>5, <2>10, <3>2 DEF Passed
    <3>4. Journey!AnsweredIfPassed(u)
      BY <3>1, <3>3 DEF Journey!AnsweredIfPassed, Journey!Forgets, Passed
    <3>5. QED
      BY <3>4 DEF Journey!Next
  <2>11. CASE TurnedAway(w, r.session) /\ doc = BuildOtpPrompt(r.session_id)
    <3>1. Journey!Step(u, Journey!AskedAgain)
      BY <2>7, <2>11, AskedAgainEdges
    <3>2. ~CodeEntered(w)
      BY <2>11 DEF TurnedAway, GuardedRoutes, CodeEntered
    <3>3. u \notin Passed' /\ Passed' \subseteq Passed
      BY <1>4, <1>5, <2>11, <3>2 DEF Passed
    <3>4. Journey!AskedForTheCodeAgain(u)
      BY <3>1, <3>3 DEF Journey!AskedForTheCodeAgain, Journey!Forgets, Passed
    <3>5. QED
      BY <3>4 DEF Journey!Next
  <2>12. QED
    BY <1>2, <2>8, <2>9, <2>10, <2>11 DEF Answers
<1>8. QED
  BY <1>6, <1>7

-----------------------------------------------------------------------------
(* The theorem *)

\* Every step of the system is a step of the diagram, or one nobody notices.
LEMMA NextJourney ==
    ASSUME Inv, CallersInv, [Next]_vars
    PROVE  Journey!Next
<1>1. ASSUME NEW u \in CallUuids, Handle(u)
      PROVE  Journey!Next
  BY <1>1, HandleHandled, HandledJourney
<1>2. ASSUME NEW u \in CallUuids, CallerHangsUp(u)
      PROVE  Journey!Next
  BY <1>2, DropJourney DEF CallerHangsUp
<1>3. ASSUME NEW u \in CallUuids, TimesOut(u)
      PROVE  Journey!Next
  <2>1. calls[u].awaiting # None
    BY <1>3, FlowAssumption DEF TimesOut, Inv, TypeOK
  <2>2. QED
    BY <1>3, <2>1, GivesUpJourney DEF TimesOut
<1>4. ASSUME NEW u \in CallUuids,
             RingingEnds(u) \/ PlivoProceeds(u) \/ CallerPresses(u)
                \/ CallerWalksAway(u) \/ PlaceOutboundCall(u)
      PROVE  Journey!Next
  BY <1>4, RingingJourney, PlivoProceedsJourney, PressesJourney, WalksAwayJourney,
     PlacedJourney
<1>5. CASE \E u \in CallUuids : Lose(u)
  BY <1>5, ServerStepJourney DEF Lose
<1>6. CASE Restart
  BY <1>6, ServerStepJourney DEF Restart
<1>7. CASE Tick
  BY <1>7, ServerStepJourney DEF Tick
<1>8. ASSUME NEW s \in SessionIds, EndCall(s)
      PROVE  Journey!Next
  BY <1>8, EndCallJourney
<1>9. CASE ReadCalls
  BY <1>9, ServerStepJourney DEF ReadCalls, StillVerified
<1>10. CASE UNCHANGED vars
  BY <1>10, ServerStepJourney DEF vars
<1>11. QED
  BY <1>1, <1>2, <1>3, <1>4, <1>5, <1>6, <1>7, <1>8, <1>9, <1>10 DEF Next

\* Nobody has been called, and nobody has passed.
LEMMA InitJourney == Init => Journey!Init
<1> SUFFICES ASSUME Init PROVE Journey!Init
  OBVIOUS
<1>1. \A u \in CallUuids : PointOf(calls[u]) = "unplaced"
  BY DEF Init, NoCall, PointOf
<1>2. verified = {}
  BY DEF Init
<1>3. QED
  BY <1>1, <1>2 DEF Journey!Init

(***************************************************************************)
(* The server of app/routers/ivr.py, with Plivo around it, implements the  *)
(* diagram of what a caller may live through: no interleaving of lost,     *)
(* late and repeated webhooks, restarts, evictions and operators takes a   *)
(* caller anywhere else, or past the access code without it.               *)
(***************************************************************************)
THEOREM JourneyImplemented == Spec => ImplementsJourney
<1>1. Init => Journey!Init
  BY InitJourney
<1>2. Inv /\ CallersInv /\ [Next]_vars => [Journey!Next]_(Journey!journey)
  BY NextJourney
<1>3. QED
  BY <1>1, <1>2, InvHolds, CallersHold, PTL DEF Spec, ImplementsJourney, Journey!Spec
=============================================================================
