------------------------- MODULE CallFlowRefinement -------------------------
(***************************************************************************)
(* The call flow implements CallJourney.                                   *)
(***************************************************************************)
EXTENDS CallFlowProperties

\* What an awaited webhook tells of the caller.
Waiting(w) ==
    CASE w.url.route = "ANSWER" -> "answered"
      [] w.url.route = "FALLBACK" -> "fallback_wanted"
      [] w.url.route = "OTP_PROMPT" -> "code_wanted"
      [] w.url.route = "OTP_VERIFY" ->
            CASE w.digits \in {"code", "code#"} -> "code_entered"
              [] w.digits = "wrong" -> "wrong_entered"
              [] OTHER -> "nothing_entered"
      [] w.url.route = "LANGUAGE_MENU" -> "language_wanted"
      [] w.url.route = "LANGUAGE_SELECT" ->
            IF w.digits \in {"1", "2"} THEN "language_chosen" ELSE "language_missed"
      [] w.url.route = "MAIN_MENU" -> "menu_wanted"
      [] w.url.route = "MAIN_MENU_SELECT" ->
            CASE w.digits = "1" -> "audio_chosen"
              [] w.digits = "2" -> "associate_chosen"
              [] OTHER -> "menu_missed"
      [] w.url.route = "ASSOCIATE_DIAL_STATUS" ->
            IF w.dial_status = "completed" THEN "talked" ELSE "not_reached"

PointOf(call) ==
    CASE call.status # "live" -> call.status
      [] call.status = "live" /\ call.doc # None -> call.doc.says
      [] OTHER -> Waiting(call.awaiting)

Journey == INSTANCE CallJourney WITH
    Calls <- CallUuids,
    at <- [u \in CallUuids |-> PointOf(calls[u])],
    passed <- {u \in verified : calls[u].status = "live"}

(***************************************************************************)
(* Whatever is forgotten, lost or late, a caller only ever moves along the *)
(* diagram of CallJourney: past the access code only after passing it, in  *)
(* the order of the menus, and asked for the code again if and only if the *)
(* server no longer knows that it was entered.                             *)
(***************************************************************************)
ImplementsJourney == Journey!Spec
=============================================================================
