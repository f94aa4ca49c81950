---------------------------- MODULE ControlPanel ----------------------------
(***************************************************************************)
(* The browser control panel (app/static/index.html) against the call API  *)
(* (app/routers/calls.py).                                                 *)
(*                                                                         *)
(* The page is one thread of callbacks around `activeSessionId': a timer   *)
(* that polls it every two seconds, the operator's clicks, and requests    *)
(* whose answers come back in any order, or never.  Polls are started      *)
(* whether or not the last one has returned, and an answer is rendered     *)
(* without a look at what is selected by then.                             *)
(*                                                                         *)
(* A session is reduced to what the page branches on: its stage, of which  *)
(* one stands for every stage in mid-call, and whether it has a call id.   *)
(* What webhooks do to it is CallFlow's subject; here it just changes.     *)
(* The list of recent calls is reduced to what can be clicked: any session *)
(* there ever was, for a listed one may be gone by the time of the click.  *)
(***************************************************************************)
EXTENDS Naturals

CONSTANTS
    SessionIds,   \* ids new_session_id() may return
    None,         \* null
    Requests,     \* requests the page may have under way at once
    MaxEvents     \* bound: clicks, failures and changes of sessions by others

\* What the API tells of a session.
View == [stage : {"initiated", "awaiting_otp", "completed", "failed"},
         call_uuid : BOOLEAN]

Answer == [outcome : {"ok", "error", "unreachable"},
           session_id : SessionIds \cup {None},
           view : View \cup {None}]

\* A request under way: its answer is None until it has one.
Request == [kind : {"place", "place_list", "poll", "end"},
            session_id : SessionIds \cup {None},
            answer : Answer \cup {None}]

ASSUME PanelAssumption ==
    /\ None \notin SessionIds \cup View \cup Answer \cup Request
    /\ MaxEvents \in Nat

VARIABLES
    sessions,          \* the server's: a view of each, None when it has none
    placed,            \* observer: the ids sessions were created under
    activeSessionId,
    panel,             \* live-panel-content
    dialDisabled,      \* dialButton.disabled
    toast,             \* the message shown, None once it has faded
    requests,
    events             \* how much of MaxEvents is spent

server == <<sessions, placed>>
page == <<activeSessionId, panel, dialDisabled, toast>>
vars == <<server, page, requests, events>>

Placeholder == [shows |-> "placeholder", session_id |-> None, view |-> None]
NotFound == [shows |-> "not_found", session_id |-> None, view |-> None]
Showing(s, view) == [shows |-> "session", session_id |-> s, view |-> view]

Panel == {Placeholder, NotFound} \cup {Showing(s, view) : s \in SessionIds, view \in View}

Init ==
    /\ sessions = [s \in SessionIds |-> None]
    /\ placed = {}
    /\ activeSessionId = None
    /\ panel = Placeholder
    /\ dialDisabled = FALSE
    /\ toast = None
    /\ requests = [r \in Requests |-> None]
    /\ events = 0

Happens == events < MaxEvents /\ events' = events + 1

TerminalStages == {"completed", "failed"}

-----------------------------------------------------------------------------
(* The page *)

Sent(kind, s) == [kind |-> kind, session_id |-> s, answer |-> None]

Send(r, kind, s) ==
    /\ requests[r] = None
    /\ requests' = [requests EXCEPT ![r] = Sent(kind, s)]

\* An async function goes on with its next request, or is done.
GoesOn(r, kind, s) == requests' = [requests EXCEPT ![r] = Sent(kind, s)]
Done(r) == requests' = [requests EXCEPT ![r] = None]

\* Bug: a call that is over is not polled any more.
WorthPollingUntilOver ==
    activeSessionId # None /\ ~(panel.shows = "session" /\ panel.view.stage \in TerminalStages)

WorthPolling == activeSessionId # None

\* setInterval(..., 2000)
TimerPolls ==
    /\ WorthPolling
    /\ \E r \in Requests : Send(r, "poll", activeSessionId)
    /\ UNCHANGED <<server, page, events>>

SelectSession(s) ==
    /\ s \in placed
    /\ Happens
    /\ activeSessionId' = s
    /\ \E r \in Requests : Send(r, "poll", s)
    /\ UNCHANGED <<server, panel, dialDisabled, toast>>

\* The button while it is enabled, or the Enter key whether it is or not.
PlaceCall ==
    /\ Happens
    /\ dialDisabled' = TRUE
    /\ \E r \in Requests : Send(r, "place", None)
    /\ UNCHANGED <<server, activeSessionId, panel, toast>>

CanHangup ==
    /\ panel.shows = "session"
    /\ panel.view.call_uuid
    /\ panel.view.stage \notin TerminalStages

\* The End Call button of the session shown ends the session selected.
HangupActiveCall ==
    /\ CanHangup
    /\ Happens
    /\ \E r \in Requests : Send(r, "end", activeSessionId)
    /\ UNCHANGED <<server, page>>

ToastFades ==
    /\ toast # None
    /\ toast' = None
    /\ UNCHANGED <<server, activeSessionId, panel, dialDisabled, requests, events>>

-----------------------------------------------------------------------------
(* Answers reach the page *)

Answered(r, kind) ==
    requests[r] # None /\ requests[r].kind = kind /\ requests[r].answer # None

PollAnswered(r) ==
    /\ Answered(r, "poll")
    /\ panel' = IF requests[r].answer.outcome = "ok"
                THEN Showing(requests[r].session_id, requests[r].answer.view)
                ELSE NotFound
    /\ Done(r)
    /\ UNCHANGED <<server, activeSessionId, dialDisabled, toast, events>>

\* Bug: the button is given back only when the call was placed.
PlaceRefusedKeepingButton(r) ==
    /\ Answered(r, "place")
    /\ requests[r].answer.outcome # "ok"
    /\ toast' = "request_failed"
    /\ Done(r)
    /\ UNCHANGED <<server, activeSessionId, panel, dialDisabled, events>>

PlaceRefused(r) ==
    /\ Answered(r, "place")
    /\ requests[r].answer.outcome # "ok"
    /\ toast' = "request_failed"
    /\ dialDisabled' = FALSE
    /\ Done(r)
    /\ UNCHANGED <<server, activeSessionId, panel, events>>

\* The new session is selected at once; the button waits for the list.
PlaceQueued(r) ==
    /\ Answered(r, "place")
    /\ requests[r].answer.outcome = "ok"
    /\ toast' = "call_queued"
    /\ activeSessionId' = requests[r].answer.session_id
    /\ GoesOn(r, "place_list", None)
    /\ UNCHANGED <<server, panel, dialDisabled, events>>

\* refreshRecentCalls swallows a failure of its own.
PlaceListed(r) ==
    /\ Answered(r, "place_list")
    /\ dialDisabled' = FALSE
    /\ GoesOn(r, "poll", activeSessionId)
    /\ UNCHANGED <<server, activeSessionId, panel, toast, events>>

\* fetch only fails when there is no answer at all.
EndAnswered(r) ==
    /\ Answered(r, "end")
    /\ IF requests[r].answer.outcome = "unreachable"
       THEN toast' = "could_not_end" /\ Done(r)
       ELSE toast' = "call_ended" /\ GoesOn(r, "poll", activeSessionId)
    /\ UNCHANGED <<server, activeSessionId, panel, dialDisabled, events>>

Deliver(r) ==
    \/ PollAnswered(r)
    \/ PlaceRefused(r)
    \/ PlaceQueued(r)
    \/ PlaceListed(r)
    \/ EndAnswered(r)

-----------------------------------------------------------------------------
(* The server *)

Replies(r, outcome, s, view) ==
    requests' = [requests EXCEPT ![r].answer =
                    [outcome |-> outcome, session_id |-> s, view |-> view]]

Unanswered(r, kind) ==
    requests[r] # None /\ requests[r].kind = kind /\ requests[r].answer = None

Initiated == [stage |-> "initiated", call_uuid |-> FALSE]

PlaceOutboundCall(r) ==
    /\ Unanswered(r, "place")
    /\ \/ \* no usable number: nothing is created
          /\ Replies(r, "error", None, None)
          /\ UNCHANGED server
       \/ \E s \in SessionIds \ placed :
             /\ placed' = placed \cup {s}
             /\ \/ /\ sessions' = [sessions EXCEPT ![s] = Initiated]
                   /\ Replies(r, "ok", s, None)
                \/ /\ sessions' = [sessions EXCEPT ![s] = [Initiated EXCEPT !.stage = "failed"]]
                   /\ Replies(r, "error", None, None)
    /\ UNCHANGED <<page, events>>

\* Bug: a session that is gone is answered with an empty body.
GetCallStatusEmpty(r) ==
    /\ Unanswered(r, "poll")
    /\ Replies(r, "ok", None, sessions[requests[r].session_id])
    /\ UNCHANGED <<server, page, events>>

GetCallStatus(r) ==
    /\ Unanswered(r, "poll")
    /\ LET session == sessions[requests[r].session_id]
       IN  Replies(r, IF session = None THEN "error" ELSE "ok", None, session)
    /\ UNCHANGED <<server, page, events>>

ListRecentCalls(r) ==
    /\ Unanswered(r, "place_list")
    /\ Replies(r, "ok", None, None)
    /\ UNCHANGED <<server, page, events>>

\* No such session, or no call id yet, or Plivo will not end the call.
EndCall(r) ==
    /\ Unanswered(r, "end")
    /\ LET s == requests[r].session_id
       IN  \/ /\ Replies(r, "error", None, None)
              /\ UNCHANGED sessions
           \/ /\ sessions[s] # None
              /\ sessions[s].call_uuid
              /\ sessions' = [sessions EXCEPT ![s].stage = "completed"]
              /\ Replies(r, "ok", None, None)
    /\ UNCHANGED <<placed, page, events>>

ServerAnswers(r) ==
    \/ PlaceOutboundCall(r)
    \/ GetCallStatus(r)
    \/ ListRecentCalls(r)
    \/ EndCall(r)

\* A webhook moves a session, or recreates one that was lost; only the fallback
\* handler leaves it without a call id.  A restart, an expiry or an eviction
\* loses it.
SessionChanges(s) ==
    /\ s \in placed
    /\ Happens
    /\ \E session \in {v \in View : v.call_uuid \/ v.stage = "failed"} \cup {None} :
          /\ session # sessions[s]
          /\ session # None /\ session.stage = "initiated" => sessions[s] = None
          /\ sessions' = [sessions EXCEPT ![s] = session]
    /\ UNCHANGED <<placed, page, requests>>

\* No answer reaches the page, whether the request was served or not.
Unreachable(r) ==
    /\ requests[r] # None
    /\ Happens
    /\ Replies(r, "unreachable", None, None)
    /\ UNCHANGED <<server, page>>

-----------------------------------------------------------------------------
Next ==
    \/ TimerPolls
    \/ PlaceCall
    \/ HangupActiveCall
    \/ ToastFades
    \/ \E s \in SessionIds : SelectSession(s) \/ SessionChanges(s)
    \/ \E r \in Requests : Deliver(r) \/ ServerAnswers(r) \/ Unreachable(r)

Spec == Init /\ [][Next]_vars

(***************************************************************************)
(* The server answers, answers arrive, and the timer fires: it is strongly *)
(* fair because a browser does not run out of requests; Requests is a      *)
(* bound of the model.  Nothing is assumed of the operator.                *)
(***************************************************************************)
FairSpec ==
    /\ Spec
    /\ SF_vars(TimerPolls)
    /\ \A r \in Requests : WF_vars(ServerAnswers(r)) /\ WF_vars(Deliver(r))

-----------------------------------------------------------------------------
TypeOK ==
    /\ sessions \in [SessionIds -> View \cup {None}]
    /\ placed \subseteq SessionIds
    /\ activeSessionId \in placed \cup {None}
    /\ panel \in Panel
    /\ dialDisabled \in BOOLEAN
    /\ toast \in {None, "call_queued", "request_failed", "call_ended", "could_not_end"}
    /\ requests \in [Requests -> Request \cup {None}]
    /\ events \in 0..MaxEvents

\* What the panel should show of the selected session.
Current ==
    IF sessions[activeSessionId] = None
    THEN NotFound ELSE Showing(activeSessionId, sessions[activeSessionId])

(***************************************************************************)
(* However polls overlap and answers overtake each other: once nothing     *)
(* changes any more, the panel comes to show the selected session as it    *)
(* is, and stays there.                                                    *)
(***************************************************************************)
PanelCatchesUp == <>[](activeSessionId # None => panel = Current)

(***************************************************************************)
(* The dial button never stays dead: whatever becomes of the request, the  *)
(* operator can place another call.                                        *)
(***************************************************************************)
DialButtonFreed == dialDisabled ~> ~dialDisabled

(***************************************************************************)
(* What that rests on: the button is dead only while a request is under    *)
(* way that will give it back, though placing takes two requests in a row  *)
(* and the Enter key starts another while the button is disabled.          *)
(***************************************************************************)
DialButtonHeld ==
    dialDisabled =>
        \E r \in Requests : requests[r] # None /\ requests[r].kind \in {"place", "place_list"}

(***************************************************************************)
(* "Call ended." is said of a call the server ended: "Could not end the    *)
(* call." (index.html:631) is what the page has for the other case.        *)
(***************************************************************************)
EndAnnouncedTruly ==
    [][\A r \in Requests :
          Answered(r, "end") /\ requests'[r] # requests[r] /\ toast' = "call_ended" =>
              requests[r].answer.outcome = "ok"]_vars
=============================================================================
