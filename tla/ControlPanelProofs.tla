------------------------- MODULE ControlPanelProofs -------------------------
(***************************************************************************)
(* What ControlPanel keeps in every state, for any number of sessions and  *)
(* requests: whatever overtakes whatever, the page only ever asks about,   *)
(* shows and ends sessions that were placed, and the dial button is dead   *)
(* only while a request that will give it back is under way.               *)
(***************************************************************************)
EXTENDS ControlPanel, TLAPS

\* What a request under way carries.
RequestOK(q, ids) ==
    /\ q.kind \in {"poll", "end"} => q.session_id \in ids
    /\ q.answer # None /\ q.answer.outcome = "ok" =>
          /\ q.kind = "poll" => q.answer.view \in View
          /\ q.kind = "place" => q.answer.session_id \in ids

\* The requests that end in giving the button back.
HoldsButton(q) == q # None /\ q.kind \in {"place", "place_list"}

\* Before anything is selected there is nothing to show, and nothing to be
\* done but to place a call.
SelectedFirst ==
    activeSessionId = None =>
        /\ panel = Placeholder
        /\ \A r \in Requests : requests[r] # None => requests[r].kind = "place"

PanelInv ==
    /\ TypeOK
    /\ \A s \in SessionIds : sessions[s] # None => s \in placed
    /\ \A r \in Requests : requests[r] # None => RequestOK(requests[r], placed)
    /\ SelectedFirst
    /\ DialButtonHeld

-----------------------------------------------------------------------------
(* Data *)

\* None is nothing else.
LEMMA Nones ==
    None \notin SessionIds /\ None \notin View /\ None \notin Answer /\ None \notin Request
BY PanelAssumption

\* A request as it is sent.
LEMMA SentOK ==
    ASSUME NEW kind \in {"place", "place_list", "poll", "end"},
           NEW s \in SessionIds \cup {None}, NEW ids,
           kind \in {"poll", "end"} => s \in ids
    PROVE  /\ Sent(kind, s) \in Request
           /\ Sent(kind, s) # None
           /\ Sent(kind, s).kind = kind
           /\ RequestOK(Sent(kind, s), ids)
<1>1. Sent(kind, s) \in Request
  BY DEF Sent, Request
<1>2. QED
  BY <1>1, Nones DEF Sent, RequestOK

\* Answering a request changes its answer only.
LEMMA AnsweredOK ==
    ASSUME NEW q \in Request, NEW answer \in Answer
    PROVE  /\ [q EXCEPT !.answer = answer] \in Request
           /\ [q EXCEPT !.answer = answer].kind = q.kind
           /\ [q EXCEPT !.answer = answer].session_id = q.session_id
           /\ [q EXCEPT !.answer = answer].answer = answer
BY DEF Request

\* A session that is shown, and one that is new.
LEMMA ShowingOK ==
    /\ \A s \in SessionIds, view \in View :
          Showing(s, view) \in Panel /\ Showing(s, view).shows = "session"
    /\ NotFound \in Panel /\ Placeholder \in Panel
    /\ Placeholder.shows # "session"
    /\ Initiated \in View /\ [Initiated EXCEPT !.stage = "failed"] \in View
<1>1. ASSUME NEW s \in SessionIds, NEW view \in View
      PROVE  Showing(s, view) \in Panel /\ Showing(s, view).shows = "session"
  BY DEF Panel, Showing
<1>2. NotFound \in Panel /\ Placeholder \in Panel
  BY DEF Panel
<1>3. Placeholder.shows # "session"
  BY DEF Placeholder
<1>4. Initiated \in View /\ [Initiated EXCEPT !.stage = "failed"] \in View
  BY DEF Initiated, View
<1>5. QED
  BY <1>1, <1>2, <1>3, <1>4

-----------------------------------------------------------------------------
(* One request changes *)

\* All a step does is to start, answer, go on from or finish one request, and
\* perhaps to add to the sessions, to select, to show or to say something.
LEMMA RequestSteps ==
    ASSUME PanelInv, NEW r \in Requests, NEW x \in Request \cup {None},
           requests' = [requests EXCEPT ![r] = x],
           x # None => RequestOK(x, placed'),
           placed \subseteq placed', placed' \subseteq SessionIds,
           sessions' \in [SessionIds -> View \cup {None}],
           \A s \in SessionIds : sessions'[s] # None => s \in placed',
           activeSessionId' \in placed' \cup {activeSessionId},
           \/ activeSessionId' # None
           \/ panel' = panel /\ (x # None => x.kind = "place"),
           panel' \in Panel,
           dialDisabled' \in BOOLEAN,
           dialDisabled' => HoldsButton(x) \/ (dialDisabled /\ ~HoldsButton(requests[r])),
           toast' \in {None, "call_queued", "request_failed", "call_ended", "could_not_end"},
           events' \in 0..MaxEvents
    PROVE  PanelInv'
<1>1. /\ requests \in [Requests -> Request \cup {None}]
      /\ activeSessionId \in placed \cup {None}
  BY DEF PanelInv, TypeOK
<1>2. /\ requests' \in [Requests -> Request \cup {None}]
      /\ requests'[r] = x
      /\ \A q \in Requests \ {r} : requests'[q] = requests[q]
  BY <1>1
<1>3. TypeOK'
  BY <1>1, <1>2 DEF TypeOK
<1>4. \A q \in Requests : requests'[q] # None => RequestOK(requests'[q], placed')
  BY <1>2 DEF PanelInv, RequestOK
<1>5. SelectedFirst'
  <2>1. ASSUME activeSessionId' = None
        PROVE  activeSessionId = None /\ panel' = panel /\ (x # None => x.kind = "place")
    BY <1>1, <2>1, Nones
  <2>2. QED
    BY <1>2, <2>1 DEF PanelInv, SelectedFirst
<1>6. DialButtonHeld'
  <2>1. CASE HoldsButton(x)
    BY <1>2, <2>1 DEF DialButtonHeld, HoldsButton
  <2>2. CASE dialDisabled /\ ~HoldsButton(requests[r])
    BY <1>2, <2>2 DEF PanelInv, DialButtonHeld, HoldsButton
  <2>3. QED
    BY <2>1, <2>2 DEF DialButtonHeld
<1>7. QED
  BY <1>3, <1>4, <1>5, <1>6 DEF PanelInv

-----------------------------------------------------------------------------
(* The page's steps *)

\* The state the invariant describes, taken apart.
LEMMA PanelState ==
    ASSUME PanelInv
    PROVE  /\ sessions \in [SessionIds -> View \cup {None}]
           /\ \A s \in SessionIds : sessions[s] # None => s \in placed
           /\ placed \subseteq SessionIds
           /\ activeSessionId \in placed \cup {None}
           /\ panel \in Panel
           /\ dialDisabled \in BOOLEAN
           /\ toast \in {None, "call_queued", "request_failed", "call_ended", "could_not_end"}
           /\ requests \in [Requests -> Request \cup {None}]
           /\ events \in 0..MaxEvents
           /\ panel.shows = "session" => activeSessionId # None
BY ShowingOK DEF PanelInv, TypeOK, SelectedFirst

\* The bound of the model.
LEMMA HappensBound ==
    ASSUME PanelInv, Happens
    PROVE  events' \in 0..MaxEvents
BY PanelState, PanelAssumption DEF Happens

\* The timer, a selection, the buttons: each sends a request.
LEMMA ClicksKeep ==
    ASSUME PanelInv,
           TimerPolls \/ PlaceCall \/ HangupActiveCall \/ \E s \in SessionIds : SelectSession(s)
    PROVE  PanelInv'
<1>1. CASE TimerPolls
  <2>1. PICK r \in Requests : Send(r, "poll", activeSessionId)
    BY <1>1 DEF TimerPolls
  <2>2. activeSessionId \in placed /\ activeSessionId # None
    BY <1>1, PanelState DEF TimerPolls, WorthPolling
  <2>3. /\ requests' = [requests EXCEPT ![r] = Sent("poll", activeSessionId)]
        /\ requests[r] = None
        /\ UNCHANGED <<sessions, placed, activeSessionId, panel, dialDisabled, toast, events>>
    BY <1>1, <2>1 DEF TimerPolls, Send, server, page
  <2>4. /\ Sent("poll", activeSessionId) \in Request
        /\ RequestOK(Sent("poll", activeSessionId), placed')
    BY <2>2, <2>3, SentOK, PanelState
  <2>5. ~HoldsButton(requests[r])
    BY <2>3 DEF HoldsButton
  <2>6. QED
    BY <2>2, <2>3, <2>4, <2>5, PanelState, RequestSteps
<1>2. CASE PlaceCall
  <2>1. PICK r \in Requests : Send(r, "place", None)
    BY <1>2 DEF PlaceCall
  <2>2. /\ requests' = [requests EXCEPT ![r] = Sent("place", None)]
        /\ dialDisabled' = TRUE /\ events' \in 0..MaxEvents
        /\ UNCHANGED <<sessions, placed, activeSessionId, panel, toast>>
    BY <1>2, <2>1, HappensBound DEF PlaceCall, Send, server
  <2>3. /\ Sent("place", None) \in Request /\ Sent("place", None).kind = "place"
        /\ RequestOK(Sent("place", None), placed') /\ HoldsButton(Sent("place", None))
    BY SentOK DEF HoldsButton
  <2>4. QED
    BY <2>2, <2>3, PanelState, RequestSteps
<1>3. CASE HangupActiveCall
  <2>1. PICK r \in Requests : Send(r, "end", activeSessionId)
    BY <1>3 DEF HangupActiveCall
  <2>2. activeSessionId \in placed /\ activeSessionId # None
    BY <1>3, PanelState DEF HangupActiveCall, CanHangup
  <2>3. /\ requests' = [requests EXCEPT ![r] = Sent("end", activeSessionId)]
        /\ requests[r] = None /\ events' \in 0..MaxEvents
        /\ UNCHANGED <<sessions, placed, activeSessionId, panel, dialDisabled, toast>>
    BY <1>3, <2>1, HappensBound DEF HangupActiveCall, Send, server, page
  <2>4. /\ Sent("end", activeSessionId) \in Request
        /\ RequestOK(Sent("end", activeSessionId), placed')
    BY <2>2, <2>3, SentOK, PanelState
  <2>5. ~HoldsButton(requests[r])
    BY <2>3 DEF HoldsButton
  <2>6. QED
    BY <2>2, <2>3, <2>4, <2>5, PanelState, RequestSteps
<1>4. ASSUME NEW s \in SessionIds, SelectSession(s)
      PROVE  PanelInv'
  <2>1. PICK r \in Requests : Send(r, "poll", s)
    BY <1>4 DEF SelectSession
  <2>2. /\ requests' = [requests EXCEPT ![r] = Sent("poll", s)]
        /\ requests[r] = None /\ s \in placed /\ s # None
        /\ activeSessionId' = s /\ events' \in 0..MaxEvents
        /\ UNCHANGED <<sessions, placed, panel, dialDisabled, toast>>
    BY <1>4, <2>1, HappensBound, Nones DEF SelectSession, Send, server
  <2>3. Sent("poll", s) \in Request /\ RequestOK(Sent("poll", s), placed')
    BY <2>2, SentOK
  <2>4. ~HoldsButton(requests[r])
    BY <2>2 DEF HoldsButton
  <2>5. QED
    BY <2>2, <2>3, <2>4, PanelState, RequestSteps
<1>5. QED
  BY <1>1, <1>2, <1>3, <1>4

\* An answer is rendered, or said, and the function that awaited it goes on.
LEMMA DeliverKeeps ==
    ASSUME PanelInv, NEW r \in Requests, Deliver(r)
    PROVE  PanelInv'
<1> DEFINE q == requests[r]
<1>1. /\ q \in Request /\ q # None /\ RequestOK(q, placed) /\ q.answer \in Answer
      /\ q.answer # None
      /\ UNCHANGED <<sessions, placed, events>>
  <2>1. q # None /\ q.answer # None /\ UNCHANGED <<sessions, placed, events>>
    BY DEF Deliver, PollAnswered, PlaceRefused, PlaceQueued, PlaceListed, EndAnswered,
           Answered, server
  <2>2. q \in Request /\ RequestOK(q, placed)
    BY <2>1, PanelState DEF PanelInv
  <2>3. QED
    BY <2>1, <2>2 DEF Request
<1>2. q.kind # "place" => activeSessionId # None
  BY <1>1 DEF PanelInv, SelectedFirst
<1>3. CASE PollAnswered(r)
  <2>1. /\ q.kind = "poll" /\ requests' = [requests EXCEPT ![r] = None]
        /\ panel' = IF q.answer.outcome = "ok"
                    THEN Showing(q.session_id, q.answer.view) ELSE NotFound
        /\ UNCHANGED <<activeSessionId, dialDisabled, toast>>
    BY <1>3 DEF PollAnswered, Answered, Done
  <2>2. panel' \in Panel
    BY <1>1, <2>1, ShowingOK, PanelState DEF RequestOK
  <2>3. ~HoldsButton(q)
    BY <2>1 DEF HoldsButton
  <2>4. QED
    BY <1>1, <1>2, <2>1, <2>2, <2>3, PanelState, RequestSteps
<1>4. CASE PlaceRefused(r)
  <2>1. /\ requests' = [requests EXCEPT ![r] = None]
        /\ toast' = "request_failed" /\ dialDisabled' = FALSE
        /\ UNCHANGED <<activeSessionId, panel>>
    BY <1>4 DEF PlaceRefused, Done
  <2>2. QED
    BY <1>1, <2>1, PanelState, RequestSteps
<1>5. CASE PlaceQueued(r)
  <2>1. /\ q.kind = "place" /\ q.answer.outcome = "ok"
        /\ requests' = [requests EXCEPT ![r] = Sent("place_list", None)]
        /\ toast' = "call_queued" /\ activeSessionId' = q.answer.session_id
        /\ UNCHANGED <<panel, dialDisabled>>
    BY <1>5 DEF PlaceQueued, Answered, GoesOn
  <2>2. activeSessionId' \in placed /\ activeSessionId' # None
    BY <1>1, <2>1, PanelState, Nones DEF RequestOK
  <2>3. /\ Sent("place_list", None) \in Request
        /\ RequestOK(Sent("place_list", None), placed')
        /\ HoldsButton(Sent("place_list", None))
    BY SentOK DEF HoldsButton
  <2>4. QED
    BY <1>1, <2>1, <2>2, <2>3, PanelState, RequestSteps
<1>6. CASE PlaceListed(r)
  <2>1. /\ q.kind = "place_list" /\ dialDisabled' = FALSE
        /\ requests' = [requests EXCEPT ![r] = Sent("poll", activeSessionId)]
        /\ UNCHANGED <<activeSessionId, panel, toast>>
    BY <1>6 DEF PlaceListed, Answered, GoesOn
  <2>2. activeSessionId \in placed
    BY <1>2, <2>1, PanelState
  <2>3. /\ Sent("poll", activeSessionId) \in Request
        /\ RequestOK(Sent("poll", activeSessionId), placed')
    BY <1>1, <2>2, SentOK, PanelState
  <2>4. QED
    BY <1>1, <1>2, <2>1, <2>2, <2>3, PanelState, RequestSteps
<1>7. CASE EndAnswered(r)
  <2>1. /\ q.kind = "end" /\ toast' \in {"could_not_end", "call_ended"}
        /\ UNCHANGED <<activeSessionId, panel, dialDisabled>>
    BY <1>7 DEF EndAnswered, Answered
  <2>2. \E x \in {None, Sent("poll", activeSessionId)} :
           requests' = [requests EXCEPT ![r] = x]
    BY <1>7 DEF EndAnswered, Done, GoesOn
  <2>3. activeSessionId \in placed
    BY <1>2, <2>1, PanelState
  <2>4. /\ Sent("poll", activeSessionId) \in Request
        /\ RequestOK(Sent("poll", activeSessionId), placed')
    BY <1>1, <2>3, SentOK, PanelState
  <2>5. ~HoldsButton(q)
    BY <2>1 DEF HoldsButton
  <2>6. QED
    BY <1>1, <1>2, <2>1, <2>2, <2>4, <2>5, PanelState, RequestSteps
<1>8. QED
  BY <1>3, <1>4, <1>5, <1>6, <1>7 DEF Deliver

-----------------------------------------------------------------------------
(* The server's steps *)

\* A request gets an answer, and the page does not see it yet.
LEMMA RepliesKeep ==
    ASSUME PanelInv, NEW r \in Requests, requests[r] # None,
           NEW outcome \in {"ok", "error", "unreachable"},
           NEW s \in SessionIds \cup {None}, NEW view \in View \cup {None},
           Replies(r, outcome, s, view),
           outcome = "ok" => /\ requests[r].kind = "poll" => view \in View
                             /\ requests[r].kind = "place" => s \in placed',
           placed \subseteq placed', placed' \subseteq SessionIds,
           sessions' \in [SessionIds -> View \cup {None}],
           \A t \in SessionIds : sessions'[t] # None => t \in placed',
           UNCHANGED page, events' \in 0..MaxEvents
    PROVE  PanelInv'
<1> DEFINE answer == [outcome |-> outcome, session_id |-> s, view |-> view]
           x == [requests[r] EXCEPT !.answer = answer]
<1>1. answer \in Answer /\ requests[r] \in Request
  BY PanelState DEF Answer
<1>2. requests' = [requests EXCEPT ![r] = x]
  BY PanelState DEF Replies
<1>3. /\ x \in Request /\ x.kind = requests[r].kind
      /\ x.session_id = requests[r].session_id /\ x.answer = answer
  BY <1>1, AnsweredOK
<1>4. RequestOK(requests[r], placed)
  BY DEF PanelInv
<1>5. RequestOK(x, placed')
  BY <1>3, <1>4 DEF RequestOK
<1>6. activeSessionId # None \/ x.kind = "place"
  BY <1>3 DEF PanelInv, SelectedFirst
<1>7. HoldsButton(x) <=> HoldsButton(requests[r])
  BY <1>1, <1>3, Nones DEF HoldsButton
<1>8. UNCHANGED <<activeSessionId, panel, dialDisabled, toast>>
  BY DEF page
<1>9. QED
  <2> HIDE DEF x
  <2>1. QED
    BY <1>2, <1>3, <1>5, <1>6, <1>7, <1>8, PanelState, RequestSteps

\* What the call API answers, from the sessions as they are then.
LEMMA ServerKeeps ==
    ASSUME PanelInv, NEW r \in Requests, ServerAnswers(r) \/ Unreachable(r)
    PROVE  PanelInv'
<1>1. CASE PlaceOutboundCall(r)
  <2>1. requests[r] # None /\ requests[r].kind = "place" /\ UNCHANGED <<page, events>>
    BY <1>1 DEF PlaceOutboundCall, Unanswered
  <2>2. CASE Replies(r, "error", None, None) /\ UNCHANGED server
    BY <2>1, <2>2, PanelState, RepliesKeep DEF server
  <2>3. ASSUME NEW s \in SessionIds \ placed, placed' = placed \cup {s},
               NEW view \in View, sessions' = [sessions EXCEPT ![s] = view],
               \/ Replies(r, "ok", s, None)
               \/ Replies(r, "error", None, None)
        PROVE  PanelInv'
    <3>1. /\ sessions' \in [SessionIds -> View \cup {None}]
          /\ \A t \in SessionIds : sessions'[t] # None => t \in placed'
          /\ placed \subseteq placed' /\ placed' \subseteq SessionIds /\ s \in placed'
      BY <2>3, PanelState
    <3>2. QED
      BY <2>1, <2>3, <3>1, PanelState, RepliesKeep
  <2>4. QED
    BY <1>1, <2>2, <2>3, ShowingOK DEF PlaceOutboundCall
<1>2. CASE GetCallStatus(r)
  <2>1. /\ requests[r] # None /\ requests[r].kind = "poll"
        /\ UNCHANGED <<server, page, events>>
    BY <1>2 DEF GetCallStatus, Unanswered
  <2>2. requests[r].session_id \in placed
    BY <2>1 DEF PanelInv, RequestOK
  <2>3. PICK view \in View \cup {None} :
           Replies(r, IF view = None THEN "error" ELSE "ok", None, view)
    BY <1>2, <2>2, PanelState DEF GetCallStatus
  <2>4. QED
    BY <2>1, <2>3, PanelState, RepliesKeep DEF server
<1>3. CASE ListRecentCalls(r)
  <2>1. /\ requests[r] # None /\ requests[r].kind = "place_list"
        /\ Replies(r, "ok", None, None) /\ UNCHANGED <<server, page, events>>
    BY <1>3 DEF ListRecentCalls, Unanswered
  <2>2. QED
    BY <2>1, PanelState, RepliesKeep DEF server
<1>4. CASE EndCall(r)
  <2>1. requests[r] # None /\ requests[r].kind = "end" /\ UNCHANGED <<placed, page, events>>
    BY <1>4 DEF EndCall, Unanswered
  <2>2. CASE Replies(r, "error", None, None) /\ UNCHANGED sessions
    BY <2>1, <2>2, PanelState, RepliesKeep
  <2>3. ASSUME sessions[requests[r].session_id] # None,
               sessions' = [sessions EXCEPT ![requests[r].session_id].stage = "completed"],
               Replies(r, "ok", None, None)
        PROVE  PanelInv'
    <3> DEFINE s == requests[r].session_id
    <3>1. s \in placed
      BY <2>1 DEF PanelInv, RequestOK
    <3>2. sessions[s] \in View
      BY <2>3, <3>1, PanelState
    <3>3. [sessions[s] EXCEPT !.stage = "completed"] \in View
      BY <3>2 DEF View
    <3>4. /\ sessions' \in [SessionIds -> View \cup {None}]
          /\ \A t \in SessionIds : sessions'[t] # None => t \in placed'
      BY <2>1, <2>3, <3>1, <3>3, PanelState
    <3>5. QED
      BY <2>1, <2>3, <3>4, PanelState, RepliesKeep
  <2>4. QED
    BY <1>4, <2>2, <2>3 DEF EndCall
<1>5. CASE Unreachable(r)
  <2>1. /\ requests[r] # None /\ events' \in 0..MaxEvents
        /\ Replies(r, "unreachable", None, None) /\ UNCHANGED <<server, page>>
    BY <1>5, HappensBound DEF Unreachable
  <2>2. QED
    BY <2>1, PanelState, RepliesKeep DEF server
<1>6. QED
  BY <1>1, <1>2, <1>3, <1>4, <1>5 DEF ServerAnswers

\* A session changes, or the toast fades: no request is touched.
LEMMA OthersKeep ==
    ASSUME PanelInv, ToastFades \/ \E s \in SessionIds : SessionChanges(s)
    PROVE  PanelInv'
<1>1. /\ UNCHANGED <<placed, activeSessionId, panel, dialDisabled, requests>>
      /\ toast' \in {None, toast} /\ events' \in 0..MaxEvents
  BY PanelState, HappensBound DEF ToastFades, SessionChanges, server, page
<1>2. /\ sessions' \in [SessionIds -> View \cup {None}]
      /\ \A s \in SessionIds : sessions'[s] # None => s \in placed
  <2>1. CASE ToastFades
    BY <2>1, PanelState DEF ToastFades, server
  <2>2. ASSUME NEW s \in SessionIds, SessionChanges(s)
        PROVE  /\ sessions' \in [SessionIds -> View \cup {None}]
               /\ \A t \in SessionIds : sessions'[t] # None => t \in placed
    <3>1. PICK session \in View \cup {None} : sessions' = [sessions EXCEPT ![s] = session]
      BY <2>2 DEF SessionChanges
    <3>2. s \in placed
      BY <2>2 DEF SessionChanges
    <3>3. QED
      BY <3>1, <3>2, PanelState
  <2>3. QED
    BY <2>1, <2>2
<1>3. TypeOK'
  BY <1>1, <1>2, PanelState DEF TypeOK
<1>4. QED
  BY <1>1, <1>2, <1>3 DEF PanelInv, SelectedFirst, DialButtonHeld

-----------------------------------------------------------------------------
(* Theorems *)

\* The page as it is loaded.
LEMMA InitPanel == Init => PanelInv
<1> SUFFICES ASSUME Init PROVE PanelInv
  OBVIOUS
<1>1. MaxEvents \in Nat
  BY PanelAssumption
<1>2. panel \in Panel
  BY ShowingOK DEF Init
<1>3. TypeOK
  <2>1. sessions \in [SessionIds -> View \cup {None}]
    BY DEF Init
  <2>2. requests \in [Requests -> Request \cup {None}]
    BY DEF Init
  <2>3. events \in 0..MaxEvents
    BY <1>1 DEF Init
  <2>4. dialDisabled \in BOOLEAN
    BY DEF Init
  <2>5. placed \subseteq SessionIds /\ activeSessionId \in placed \cup {None} /\ toast = None
    BY DEF Init
  <2>6. QED
    BY <1>2, <2>1, <2>2, <2>3, <2>4, <2>5 DEF TypeOK
<1>4. DialButtonHeld
  BY DEF Init, DialButtonHeld
<1>5. SelectedFirst
  BY DEF Init, SelectedFirst
<1>6. QED
  BY <1>3, <1>4, <1>5 DEF Init, PanelInv

\* Every step keeps the invariant.
LEMMA NextPanel == PanelInv /\ [Next]_vars => PanelInv'
<1> SUFFICES ASSUME PanelInv, [Next]_vars PROVE PanelInv'
  OBVIOUS
<1>1. CASE UNCHANGED vars
  BY <1>1 DEF vars, server, page, PanelInv, TypeOK, SelectedFirst, DialButtonHeld
<1>2. QED
  BY <1>1, ClicksKeep, OthersKeep, DeliverKeeps, ServerKeeps DEF Next

\* PanelInv is an invariant of the page.
LEMMA PanelInvHolds == Spec => []PanelInv
BY InitPanel, NextPanel, PTL DEF Spec

(***************************************************************************)
(* The page only ever selects and shows sessions, and a request that has   *)
(* an answer has one of its kind: what is selected is always a session     *)
(* that was placed, however requests overtake each other.                  *)
(***************************************************************************)
THEOREM PanelTypeCorrect == Spec => []TypeOK
<1>1. PanelInv => TypeOK
  BY DEF PanelInv
<1>2. QED
  BY <1>1, PanelInvHolds, PTL

(***************************************************************************)
(* The dial button is dead only while a request is under way that will     *)
(* give it back (placeCall's finally), for any number of them at once.     *)
(***************************************************************************)
THEOREM DialButtonHeldHolds == Spec => []DialButtonHeld
<1>1. PanelInv => DialButtonHeld
  BY DEF PanelInv
<1>2. QED
  BY <1>1, PanelInvHolds, PTL
=============================================================================
