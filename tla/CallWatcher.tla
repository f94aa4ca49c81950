----------------------------- MODULE CallWatcher -----------------------------
(***************************************************************************)
(* The command line placing a call and watching it (cli/trigger_call.py,   *)
(* `--watch'): it polls the session's audit trail, prints what it has not  *)
(* printed yet, and stops at the first terminal stage, at its deadline or  *)
(* at the first request that fails.                                        *)
(*                                                                         *)
(* Events are numbered in the order they are recorded, over every session  *)
(* the call ever has: a session lost by a restart, an expiry or an         *)
(* eviction is recreated by the next webhook with a trail of its own.      *)
(* What the handlers do is CallFlow's subject; here they record events     *)
(* and set the stage, in any way, also before the line drops and after.    *)
(*                                                                         *)
(* The client is synchronous, and an answer is a snapshot: a poll is one   *)
(* step, with what it prints.                                              *)
(***************************************************************************)
EXTENDS Integers, SequencesExt

CONSTANTS
    None,        \* no session
    MaxPolls,    \* WATCH_TIMEOUT_SECONDS, in polls
    MaxEvents,   \* bound: events ever recorded
    MaxLosses    \* bound: sessions lost

ASSUME WatcherAssumption ==
    /\ MaxPolls \in Nat \ {0}
    /\ MaxEvents \in Nat
    /\ MaxLosses \in Nat
    /\ None \notin Seq(Nat)

VARIABLES
    events,            \* the session's trail, None when there is no session
    terminal,          \* its stage is in TERMINAL_STAGES
    recorded,          \* events recorded so far
    line,              \* the call itself
    losses,            \* sessions lost so far
    phase,             \* of the command
    last_event_count,
    printed,           \* events printed, in order
    polls              \* polls since watching began, at most MaxPolls

session == <<events, terminal, recorded>>
client == <<phase, last_event_count, printed, polls>>
vars == <<session, line, losses, client>>

Init ==
    /\ events = None
    /\ terminal = FALSE
    /\ recorded = 0
    /\ line = "unplaced"
    /\ losses = 0
    /\ phase = "placing"
    /\ last_event_count = 0
    /\ printed = <<>>
    /\ polls = 0

-----------------------------------------------------------------------------
(* The server *)

\* The next n events.
News(n) == [i \in 1..n |-> recorded + i]

\* A handler leaves one event or two, and the stage anywhere.
HandlerRuns ==
    /\ line # "unplaced"
    /\ \E n \in 1..2 :
          /\ recorded + n <= MaxEvents
          /\ recorded' = recorded + n
          /\ events' = (IF events = None THEN <<>> ELSE events) \o News(n)
    /\ terminal' \in BOOLEAN
    /\ UNCHANGED <<line, losses, client>>

LineDrops ==
    /\ line = "up"
    /\ line' = "down"
    /\ UNCHANGED <<session, losses, client>>

SessionLost ==
    /\ events # None
    /\ losses < MaxLosses
    /\ losses' = losses + 1
    /\ events' = None
    /\ terminal' = FALSE
    /\ UNCHANGED <<recorded, line, client>>

-----------------------------------------------------------------------------
(* The command *)

\* "call_requested" and "call_queued" are in the trail from the start.
PlaceCall ==
    /\ phase = "placing"
    /\ recorded + 2 <= MaxEvents
    /\ events' = News(2)
    /\ recorded' = recorded + 2
    /\ line' = "up"
    /\ phase' = "watching"
    /\ UNCHANGED <<terminal, losses, last_event_count, printed, polls>>

\* An error status, or no connection: reported, and the exit code is 1.
Fails ==
    /\ phase \in {"placing", "watching"}
    /\ phase' = "failed"
    /\ UNCHANGED <<session, line, losses, last_event_count, printed, polls>>

\* Bug: one poll too many.
InTimeLate == polls <= MaxPolls

InTime == polls < MaxPolls

\* Bug: one event is skipped at every poll.
UnseenOffByOne(trail) == SubSeq(trail, last_event_count + 2, Len(trail))

\* events[last_event_count:]
Unseen(trail) == SubSeq(trail, last_event_count + 1, Len(trail))

\* Bug: the cursor does not move on.
CursorStuck(trail) == last_event_count

Cursor(trail) == Len(trail)

Poll ==
    /\ phase = "watching"
    /\ InTime
    /\ events # None
    /\ printed' = printed \o Unseen(events)
    /\ last_event_count' = Cursor(events)
    /\ phase' = IF terminal THEN "finished" ELSE "watching"
    /\ polls' = IF terminal THEN polls ELSE polls + 1
    /\ UNCHANGED <<session, line, losses>>

\* Bug: a session that is gone is waited for, and the deadline with it.
PollFailsRetried ==
    /\ phase = "watching"
    /\ InTime
    /\ events = None
    /\ UNCHANGED vars

\* 404 for a session that is gone.
PollFails ==
    /\ events = None
    /\ InTime
    /\ phase = "watching"
    /\ Fails

TimesOut ==
    /\ phase = "watching"
    /\ ~InTime
    /\ phase' = "timed_out"
    /\ UNCHANGED <<session, line, losses, last_event_count, printed, polls>>

\* Ctrl+C
Interrupted ==
    /\ phase = "watching"
    /\ phase' = "interrupted"
    /\ UNCHANGED <<session, line, losses, last_event_count, printed, polls>>

Watch == Poll \/ PollFails \/ TimesOut

-----------------------------------------------------------------------------
Next ==
    \/ PlaceCall
    \/ Watch
    \/ Fails
    \/ Interrupted
    \/ HandlerRuns
    \/ LineDrops
    \/ SessionLost

Spec == Init /\ [][Next]_vars

\* The loop runs on; nothing is assumed of the server or the call.
FairSpec == Spec /\ WF_vars(Watch)

-----------------------------------------------------------------------------
TypeOK ==
    /\ events = None \/ events \in Seq(1..MaxEvents)
    /\ terminal \in BOOLEAN
    /\ recorded \in 0..MaxEvents
    /\ line \in {"unplaced", "up", "down"}
    /\ losses \in 0..MaxLosses
    /\ phase \in {"placing", "watching", "finished", "timed_out", "interrupted", "failed"}
    /\ last_event_count \in 0..MaxEvents
    /\ printed \in Seq(1..MaxEvents)
    /\ polls \in 0..MaxPolls

(***************************************************************************)
(* No event is printed twice or out of order, whatever becomes of the      *)
(* session the cursor into its trail was taken from.                       *)
(***************************************************************************)
PrintedInOrderOnce ==
    \A i, j \in DOMAIN printed : i < j => printed[i] < printed[j]

Polled == phase = "watching" /\ (polls' # polls \/ phase' = "finished")

(***************************************************************************)
(* Short of a lost session, what is printed is the whole trail.            *)
(***************************************************************************)
StreamedUntilLost == [][Polled /\ losses = 0 => printed' = events]_vars

(***************************************************************************)
(* The command returns in the end, also when the call never does.          *)
(***************************************************************************)
WatcherStops == phase = "watching" ~> phase # "watching"
=============================================================================
