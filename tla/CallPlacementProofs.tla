------------------------- MODULE CallPlacementProofs -------------------------
(***************************************************************************)
(* For any numbers, any settings and any failures of Plivo's API: what a   *)
(* placement may dial, what its refusal leaves behind, and when an         *)
(* operator's hangup may be told.                                          *)
(***************************************************************************)
EXTENDS CallPlacement, TLAPS

\* No phone is involved before there is a session.
SessionFirst == session = None => line = "idle"

IInv == TypeOK /\ SessionFirst /\ NeverDialsItself /\ HangupConfirmed

\* A failed placement's session is the new one, failed and saying so.
LEMMA Sessions ==
    /\ NewSession \in Session /\ ~NewSession.ended_by_operator
    /\ FailedSession \in Session /\ ~FailedSession.ended_by_operator
    /\ FailedSession.stage = "failed" /\ FailedSession.failure_noted
BY DEF NewSession, FailedSession, Session

\* A session is not None.
LEMMA NoneIsNoSession == None \notin Session
BY PlacementAssumption

\* Every refusal of Plivo has a status of its own.
LEMMA Statuses ==
    ASSUME NEW failure \in ApiErrors \ {"unreachable"}
    PROVE  StatusOf(failure) \in {400, 502}
BY PlacementAssumption DEF StatusOf, ApiFailures

\* What is normalised is a number or nothing.
LEMMA Numbered ==
    ASSUME TypeOK
    PROVE  /\ \A entry \in Entry : Normalize(entry) \in Numbers \cup {None}
           /\ CallerNumberE164 \in Numbers \cup {None}
           /\ AssociateNumberE164 \in Numbers \cup {None}
           /\ \A to_number \in Entry \cup {None} : Destination(to_number) \in Entry \cup {None}
BY DEF TypeOK, Entry, Normalize, CallerNumberE164, AssociateNumberE164, Destination

\* It starts without a session.
LEMMA InitIInv == Init => IInv
<1> SUFFICES ASSUME Init
             PROVE  IInv
  OBVIOUS
<1>1. status # 204
  BY PlacementAssumption DEF Init, StatusCodes
<1>2. TypeOK
  BY DEF Init, TypeOK
<1> QED
  BY <1>1, <1>2 DEF Init, IInv, SessionFirst, NeverDialsItself, HangupConfirmed

\* A refusal that comes first leaves everything but the status.
LEMMA RefusedKeeps ==
    ASSUME IInv, NEW code \in {422, 500}, RefusedAtOnce(code)
    PROVE  IInv'
BY DEF IInv, TypeOK, StatusCodes, SessionFirst, NeverDialsItself, HangupConfirmed, RefusedAtOnce, Answers,
       CallerNumberE164, Normalize

\* A placement that gets as far as dialling.
LEMMA DialKeeps ==
    ASSUME IInv, session = None, NEW destination \in Entry,
           Normalize(destination) # None, CallerNumberE164 # None, Dial(destination)
    PROVE  IInv'
<1>1. /\ line = "idle" /\ Normalize(destination) \in Numbers
      /\ dialled \in Numbers \cup {None} /\ NeverDialsItself
  BY Numbered DEF IInv, SessionFirst, TypeOK
<1>2. UNCHANGED <<settings, bridged>> /\ CallerNumberE164' = CallerNumberE164
  BY DEF Dial, PlivoRefuses, PlivoUnreachable, PlivoQueues, Answers, CallerNumberE164, Normalize
<1>3. /\ session' \in {NewSession, FailedSession}
      /\ line' \in {"idle", "ringing"}
      /\ status' \in {201, 400, 422, 500, 502}
      /\ \/ dialled' = dialled
         \/ ~CallsItself(destination) /\ dialled' = Normalize(destination)
  <2>1. CASE CallsItself(destination)
    BY <1>1, <2>1 DEF Dial, Answers
  <2>2. CASE ~CallsItself(destination) /\ PlivoRefuses(destination)
    BY <1>1, <2>2, Statuses DEF PlivoRefuses, Answers
  <2>3. CASE ~CallsItself(destination) /\ PlivoUnreachable(destination)
    BY <1>1, <2>3 DEF PlivoUnreachable, Answers
  <2>4. CASE ~CallsItself(destination) /\ PlivoQueues(destination)
    BY <1>1, <2>4 DEF PlivoQueues, Answers
  <2> QED
    BY <2>1, <2>2, <2>3, <2>4 DEF Dial
<1>4. session' \in Session /\ ~session'.ended_by_operator
  BY <1>3, Sessions
<1>5. TypeOK'
  BY <1>1, <1>2, <1>3, <1>4 DEF IInv, TypeOK, StatusCodes
<1>6. SessionFirst' /\ HangupConfirmed'
  BY <1>3, <1>4, NoneIsNoSession DEF SessionFirst, HangupConfirmed
<1>7. NeverDialsItself'
  BY <1>1, <1>2, <1>3 DEF NeverDialsItself, CallsItself
<1> QED
  BY <1>5, <1>6, <1>7 DEF IInv

\* POST /api/calls
LEMMA PlaceKeeps ==
    ASSUME IInv, PlaceOutboundCall
    PROVE  IInv'
<1>1. PICK to_number \in Entry \cup {None} :
          LET destination == Destination(to_number)
          IN  \/ RefusedAtOnce(422)
              \/ RefusedAtOnce(500)
              \/ /\ destination # None
                 /\ Normalize(destination) # None
                 /\ CallerNumberE164 # None
                 /\ Dial(destination)
  BY DEF PlaceOutboundCall
<1>2. session = None /\ Destination(to_number) \in Entry \cup {None}
  BY Numbered DEF PlaceOutboundCall, IInv
<1> QED
  BY <1>1, <1>2, RefusedKeeps, DialKeeps

\* What a webhook makes of a session: a session, as ended as it was.
Moved(s, t) == t \in Session /\ t.ended_by_operator = s.ended_by_operator

LEMMA Moves ==
    ASSUME NEW s \in Session
    PROVE  /\ Moved(s, s)
           /\ Moved(s, HandleHangupEvent(s))
           /\ \A stage \in {"answered", "connecting_associate", "completed", "failed"} :
                 /\ Moved(s, [s EXCEPT !.stage = stage])
                 /\ \A attached \in BOOLEAN :
                       Moved(s, [s EXCEPT !.stage = stage, !.call_uuid = attached])
<1>1. ASSUME NEW stage \in {"answered", "connecting_associate", "completed", "failed"},
             NEW attached \in BOOLEAN
      PROVE  /\ Moved(s, [s EXCEPT !.stage = stage])
             /\ Moved(s, [s EXCEPT !.stage = stage, !.call_uuid = attached])
  BY DEF Moved, Session
<1>2. Moved(s, HandleHangupEvent(s))
  BY DEF Moved, Session, HandleHangupEvent
<1> QED
  BY <1>1, <1>2 DEF Moved

CallSteps == Answered \/ Fallback \/ GivesUp \/ Transfer \/ HandleAssociateDialStatus \/ LineDrops

\* A call's own step moves its session, and a line that is down has none.
LEMMA CallStepMoves ==
    ASSUME IInv, CallSteps
    PROVE  /\ session \in Session /\ Moved(session, session')
           /\ line # "down" /\ line' \in {"up", "down"}
           /\ bridged' \in Numbers \cup {None}
           /\ WebhookOnly
<1>1. /\ session \in Session /\ session.call_uuid \in BOOLEAN
      /\ bridged \in Numbers \cup {None}
      /\ line # "down"
  BY DEF IInv, TypeOK, Session, SessionFirst, CallSteps, Answered, Fallback, GivesUp, Transfer,
         HandleAssociateDialStatus, LineDrops
<1>2. CASE Answered \/ LineDrops
  BY <1>1, <1>2, Moves DEF Answered, LineDrops
<1>3. CASE Fallback
  <2>1. PICK attached \in {session.call_uuid, TRUE} :
            session' = [session EXCEPT !.stage = "failed", !.call_uuid = attached]
    BY <1>3 DEF Fallback
  <2> QED
    BY <1>1, <1>3, <2>1, Moves DEF Fallback
<1>4. CASE GivesUp
  BY <1>1, <1>4, Moves DEF GivesUp
<1>5. CASE Transfer
  <2> DEFINE connecting == [session EXCEPT !.stage = "connecting_associate"]
  <2>1. Moved(session, connecting) /\ Moved(session, HandleHangupEvent(connecting))
    BY <1>1, Moves DEF Moved
  <2>2. /\ session' \in {connecting, HandleHangupEvent(connecting)}
        /\ line' \in {"up", "down"}
        /\ bridged' \in {bridged, AssociateNumberE164}
        /\ WebhookOnly
    BY <1>5 DEF Transfer
  <2>3. AssociateNumberE164 \in Numbers \cup {None}
    BY Numbered DEF IInv
  <2> HIDE DEF connecting
  <2> QED
    BY <1>1, <2>1, <2>2, <2>3
<1>6. CASE HandleAssociateDialStatus
  BY <1>1, <1>6, Moves DEF HandleAssociateDialStatus
<1> QED
  BY <1>2, <1>3, <1>4, <1>5, <1>6 DEF CallSteps

LEMMA CallKeeps ==
    ASSUME IInv, CallSteps
    PROVE  IInv'
<1>1. /\ session \in Session /\ session' \in Session
      /\ session'.ended_by_operator = session.ended_by_operator
      /\ line # "down" /\ line' \in {"up", "down"}
      /\ bridged' \in Numbers \cup {None}
      /\ UNCHANGED <<settings, status, dialled>>
  BY CallStepMoves DEF Moved, WebhookOnly
<1>2. TypeOK'
  BY <1>1 DEF IInv, TypeOK
<1>3. SessionFirst' /\ HangupConfirmed'
  BY <1>1, NoneIsNoSession DEF IInv, SessionFirst, HangupConfirmed
<1>4. NeverDialsItself'
  BY <1>1 DEF IInv, NeverDialsItself, CallerNumberE164, Normalize
<1> QED
  BY <1>2, <1>3, <1>4 DEF IInv

\* DELETE /api/calls/{session_id}
LEMMA EndCallKeeps ==
    ASSUME IInv, EndCall
    PROVE  IInv'
<1>1. UNCHANGED <<settings, dialled, bridged>>
  BY DEF EndCall, EndCallRejected, EndCallFails, EndCallSucceeds, Answers
<1>2. \/ /\ status' \in {404, 409, 500, 502}
         /\ session' = session
         /\ line' \in {line, "down"} /\ (session = None => line' = line)
      \/ /\ session # None /\ session' = [session EXCEPT !.stage = "completed", !.ended_by_operator = TRUE]
         /\ status' = 204
         /\ line' = "down"
  BY DEF EndCall, EndCallRejected, EndCallFails, EndCallSucceeds, Answers
<1>3. session' \in Session \cup {None} /\ (session' = None => session = None)
  <2>1. session \in Session \cup {None}
    BY DEF IInv, TypeOK
  <2>2. ASSUME NEW s \in Session
        PROVE  [s EXCEPT !.stage = "completed", !.ended_by_operator = TRUE] \in Session
    BY DEF Session
  <2>3. CASE session' = session
    BY <2>1, <2>3
  <2>4. CASE session' # session
    <3>1. /\ session \in Session
          /\ session' = [session EXCEPT !.stage = "completed", !.ended_by_operator = TRUE]
      BY <1>2, <2>1, <2>4
    <3>2. session' \in Session
      BY <2>2, <3>1
    <3> QED
      BY <3>2, NoneIsNoSession
  <2> QED
    BY <2>3, <2>4
<1>4. TypeOK'
  BY <1>1, <1>2, <1>3 DEF IInv, TypeOK, StatusCodes
<1>5. SessionFirst' /\ HangupConfirmed'
  BY <1>2, <1>3 DEF IInv, SessionFirst, HangupConfirmed
<1>6. NeverDialsItself'
  BY <1>1 DEF IInv, NeverDialsItself, CallerNumberE164, Normalize
<1> QED
  BY <1>4, <1>5, <1>6 DEF IInv

\* Every step keeps the invariant.
LEMMA NextKeeps == IInv /\ [Next]_vars => IInv'
<1> SUFFICES ASSUME IInv, [Next]_vars
             PROVE  IInv'
  OBVIOUS
<1>1. CASE Next
  BY <1>1, PlaceKeeps, CallKeeps, EndCallKeeps DEF Next, CallSteps
<1>2. CASE UNCHANGED vars
  BY <1>2
  DEF vars, IInv, TypeOK, SessionFirst, NeverDialsItself, HangupConfirmed, CallerNumberE164, Normalize
<1> QED
  BY <1>1, <1>2

(***************************************************************************)
(* The inductive invariant: types, no phone before a session, and the two  *)
(* properties themselves.                                                  *)
(***************************************************************************)
THEOREM IInvHolds == Spec => []IInv
BY InitIInv, NextKeeps, PTL DEF Spec

(***************************************************************************)
(* Only numbers in E.164 form are ever given to Plivo, and every answer of *)
(* the API has one of its statuses.                                        *)
(***************************************************************************)
THEOREM PlacementTypeCorrect == Spec => []TypeOK
<1>1. IInv => TypeOK
  BY DEF IInv
<1> QED
  BY <1>1, IInvHolds, PTL

(***************************************************************************)
(* place_call never rings the service's own number, for any settings, any  *)
(* way to spell a number and any reply of Plivo, the one without a request *)
(* UUID included.                                                          *)
(***************************************************************************)
THEOREM NeverDialsItselfHolds == Spec => []NeverDialsItself
<1>1. IInv => NeverDialsItself
  BY DEF IInv
<1> QED
  BY <1>1, IInvHolds, PTL

(***************************************************************************)
(* A call that end_call reports as ended is down, whichever way Plivo's    *)
(* API fails and in whatever part of the call the operator asks.           *)
(***************************************************************************)
THEOREM HangupConfirmedHolds == Spec => []HangupConfirmed
<1>1. IInv => HangupConfirmed
  BY DEF IInv
<1> QED
  BY <1>1, IInvHolds, PTL

-----------------------------------------------------------------------------
(* What a refusal leaves behind *)

\* The first session comes from a placement that got as far as dialling.
LEMMA OnlyDialPlaces ==
    ASSUME IInv, [Next]_vars, Placing
    PROVE  line = "idle" /\ \E destination \in Entry : Dial(destination)
<1> USE DEF IInv
<1>1. session = None /\ session' # None /\ line = "idle"
  BY DEF Placing, SessionFirst
<1>2. PlaceOutboundCall
  BY <1>1
  DEF Next, vars, Answered, Fallback, GivesUp, Transfer, HandleAssociateDialStatus,
      LineDrops, EndCall, EndCallRejected, EndCallFails, EndCallSucceeds
<1>3. PICK to_number \in Entry \cup {None} :
          LET destination == Destination(to_number)
          IN  \/ RefusedAtOnce(422)
              \/ RefusedAtOnce(500)
              \/ destination # None /\ Dial(destination)
  BY <1>2 DEF PlaceOutboundCall
<1>4. Destination(to_number) \in Entry \cup {None}
  BY Numbered
<1> QED
  BY <1>1, <1>3, <1>4 DEF RefusedAtOnce

\* Refused by a check or by Plivo, the session is left as failed.
LEMMA RefusalsRecorded ==
    ASSUME IInv, [Next]_vars, Placing, status' \notin {201, 500}
    PROVE  /\ session'.stage = "failed" /\ session'.failure_noted
           /\ status' # 502 => line' = "idle"
<1>1. PICK destination \in Entry : line = "idle" /\ Dial(destination)
  BY OnlyDialPlaces
<1>2. CASE CallsItself(destination)
  BY <1>1, <1>2, Sessions DEF Dial
<1>3. CASE ~CallsItself(destination)
  <2>1. PICK failure \in ApiErrors \ {"unreachable"} :
            /\ session' = FailedSession
            /\ line' = IF failure = "no_uuid" THEN "ringing" ELSE line
            /\ status' = StatusOf(failure)
    BY <1>1, <1>3 DEF Dial, PlivoRefuses, PlivoUnreachable, PlivoQueues, Answers
  <2>2. status' # 502 => failure # "no_uuid"
    BY <2>1 DEF StatusOf
  <2> QED
    BY <1>1, <2>1, <2>2, Sessions
<1> QED
  BY <1>2, <1>3

(***************************************************************************)
(* A refused placement leaves a session that is failed and says so, and    *)
(* rings no phone when it was the request that was wrong: for every way in *)
(* which create_call, place_call and Plivo may refuse.                     *)
(***************************************************************************)
THEOREM RefusalOnRecordHolds == Spec => RefusalOnRecord
<1>1. IInv /\ [Next]_vars
        => [Placing /\ status' \notin {201, 500}
              => /\ session'.stage = "failed" /\ session'.failure_noted
                 /\ status' # 502 => line' = "idle"]_vars
  BY RefusalsRecorded
<1> QED
  BY <1>1, IInvHolds, PTL DEF Spec, RefusalOnRecord
=============================================================================
