----------------------------- MODULE CallJourney -----------------------------
(***************************************************************************)
(* What a caller may live through, and nothing else: the call flow as one  *)
(* diagram of points a call is at, without sessions, webhooks, counters or *)
(* faults.  CallFlowRefinement shows that the server implements it,        *)
(* whatever it forgets.                                                    *)
(*                                                                         *)
(* A point is what the caller hears, or what the call is waiting for once  *)
(* the caller has acted.  `passed' holds the calls whose caller proved to  *)
(* know the access code; the server may forget that at any time, and then  *)
(* asks for the code again.                                                *)
(***************************************************************************)
CONSTANT Calls

VARIABLES at, passed

journey == <<at, passed>>

Heard == {"otp_prompt", "otp_accepted", "language_menu", "main_menu", "audio",
          "connecting", "unavailable", "goodbye", "exhausted", "technical"}

Points == Heard \cup
    {"unplaced", "ringing", "ended", "answered", "fallback_wanted",
     "code_wanted", "code_entered", "wrong_entered", "nothing_entered",
     "language_wanted", "language_chosen", "language_missed",
     "menu_wanted", "audio_chosen", "associate_chosen", "menu_missed",
     "talked", "not_reached"}

\* From any point of the first set to any of the second.
From(points, next) == points \X next

(***************************************************************************)
(* What Plivo and the caller do: from something heard to what is waited    *)
(* for, whoever the caller is.                                             *)
(***************************************************************************)
CallerSide == UNION {
    From({"unplaced"}, {"ringing"}),
    From({"ringing"}, {"answered"}),
    From({"answered"}, {"fallback_wanted"}),
    From({"otp_prompt"},
         {"code_entered", "wrong_entered", "nothing_entered", "code_wanted"}),
    From({"otp_accepted"}, {"language_wanted"}),
    From({"language_menu"}, {"language_chosen", "language_missed", "language_wanted"}),
    From({"main_menu"}, {"audio_chosen", "associate_chosen", "menu_missed", "menu_wanted"}),
    From({"audio", "unavailable"}, {"menu_wanted"}),
    From({"connecting"}, {"talked", "not_reached"})}

\* What the server answers anybody.
Open == UNION {
    From({"answered", "code_wanted", "wrong_entered", "nothing_entered"}, {"otp_prompt"}),
    From({"code_wanted", "nothing_entered", "talked"}, {"goodbye"}),
    From({"wrong_entered"}, {"exhausted"}),
    From({"not_reached"}, {"unavailable"}),
    From({"fallback_wanted"}, {"technical"})}

\* What it answers only a caller who passed.
Guarded == UNION {
    From({"code_entered"}, {"otp_accepted"}),
    From({"language_wanted", "language_missed"}, {"language_menu", "goodbye"}),
    From({"language_chosen"}, {"main_menu"}),
    From({"menu_wanted", "menu_missed"}, {"main_menu", "goodbye"}),
    From({"audio_chosen"}, {"audio"}),
    From({"associate_chosen"}, {"connecting"})}

\* Past the access code, but the server has forgotten it: asked again.
PastTheCode == {"language_wanted", "language_chosen", "language_missed",
                "menu_wanted", "audio_chosen", "associate_chosen", "menu_missed"}

AskedAgain == From(PastTheCode, {"otp_prompt"})

Init ==
    /\ at = [u \in Calls |-> "unplaced"]
    /\ passed = {}

Step(u, edges) ==
    \E p \in Points :
        /\ <<at[u], p>> \in edges
        /\ at' = [at EXCEPT ![u] = p]

\* The server may lose what it knew of any call meanwhile.
Forgets(kept) == passed' \subseteq kept

CallerActs(u) == Step(u, CallerSide) /\ Forgets(passed)

AnsweredAnybody(u) == Step(u, Open) /\ Forgets(passed)

AnsweredIfPassed(u) ==
    /\ Step(u, Guarded)
    /\ Forgets(passed \cup (IF at[u] = "code_entered" THEN {u} ELSE {}))
    /\ u \in passed'

AskedForTheCodeAgain(u) == Step(u, AskedAgain) /\ Forgets(passed \ {u})

LineEnds(u) ==
    /\ at[u] \notin {"unplaced", "ended"}
    /\ at' = [at EXCEPT ![u] = "ended"]
    /\ Forgets(passed \ {u})

ServerForgets == UNCHANGED at /\ Forgets(passed)

Next ==
    \/ \E u \in Calls :
          \/ CallerActs(u)
          \/ AnsweredAnybody(u)
          \/ AnsweredIfPassed(u)
          \/ AskedForTheCodeAgain(u)
          \/ LineEnds(u)
    \/ ServerForgets

Spec == Init /\ [][Next]_journey
=============================================================================
