# The plivo-placements call flow in TLA+

Specifications of the outbound IVR of this repository: an operator places a call
through Plivo, the callee enters an access code, chooses a language and then an
audio message or a transfer. The modules are translated from `src/app`; TLC checks
them on small instances and TLAPS proves the central results for every number of
calls and sessions and for every setting.

## The system

| Part | State it keeps | Operations | Talks to |
|---|---|---|---|
| IVR handlers (`app/routers/ivr.py`) | none of their own | ten webhook endpoints, each: find or recreate the session, branch, save, answer with a document | the store; Plivo, through documents |
| Call session (`app/core/models.py`) | stage, language, authentication, two counters, Plivo's call id, audit trail, time of the last update | `advance_to`, `record_event`, `register_*`, `select_language` | handlers mutate it |
| Session store (`app/services/call_session_store.py`) | sessions by id, an index from Plivo's call id | `create`, `get`, `get_by_call_uuid`, `save`, `delete`, `list_recent`; lazy expiry, capacity | handlers and API |
| XML builder, callback URLs (`app/ivr`) | none | one document per moment of the call; session id, language and prompt reason travel in its URLs | Plivo returns the URLs as webhooks |
| Call API (`app/routers/calls.py`) | none | place, read, list, end a call | the store, Plivo's API |
| Plivo call service (`app/services/plivo_call_service.py`) | none | `place_call`, `hangup_call` | Plivo's API |
| OTP verifier, webhook parsing and signature, phone numbers | none | pure functions | handlers, API |
| Control panel (`app/static/index.html`) | the session shown, the list of calls | poll, select, place, hang up | call API |
| Command line (`cli/trigger_call.py`) | how many events were printed | place, watch, list, hang up | call API |
| Plivo, the caller (not in the repository) | the call, the document playing, the webhook waited for | what documents and URLs ask of them | handlers |

What makes it hard: every webhook is an HTTP request of its own, so those of one
call and of several arrive in any order, late or not at all; Plivo gives up on slow
answers while their handlers still run; the sessions live in the memory of one
process, which may restart, expire or evict them in mid-call; the operator acts in
between; replies of Plivo's API may be lost.

What makes it correct:

- *handlers*: nobody gets past the access code without it, whatever is lost;
  prompts end, neither early nor late; the language chosen is kept;
- *session and store*: one call, one session; the index agrees with the sessions;
  the cap holds; the stage shows where the caller is; the end is recorded;
- *API*: a session exists before its first webhook; a live call can be ended;
  what the client is told of a placement and of a hangup agrees with what was done; no
  placement rings the service's own number, however the numbers are spelled;
- *numbers and codes*: spellings of one number agree, the mask hides, exactly the
  configured code opens the gate;
- *control panel, command line*: what is shown ends up being the session selected as
  it is, a refusal is not announced as a success, the watcher prints the trail once
  and in order and returns.

## Modules

```
CallSession                the session record and its methods
  |-- IvrXml               documents and callback URLs
  \-- SessionStore         the store as operators from store to store
        |-- StoreClients   every method of the store, called by anybody in any order
        |     |-- MCStoreClients
        |     \-- StoreClientsProofs
        \-- CallFlow       VARIABLES, handlers, API, Plivo, the caller, faults
              \-- CallFlowProperties         what is claimed
                    |-- CallFlowInvariants   the inductive invariants of the proofs
                    |     \-- CallFlowProofs              handlers, the gate, one call one session
                    |           \-- CallFlowCallerProofs  what the server knows of a caller,
                    |                 |                   the refinement
                    |                 \-- CallFlowStoreProofs   the store, calls that keep their session
                    \-- CallFlowRefinement   with CallJourney, the abstract call
                          \-- MCCallFlow     (with CallFlowInvariants)
CallPlacement              statuses, settings and errors of placing and ending a call
  \-- CallPlacementProofs
ControlPanel               the page, its overlapping requests, the API it sees
  \-- ControlPanelProofs
CallWatcher                the command line's --watch
  \-- CallWatcherProofs
Texts                      Python's string methods
  |-- Typing               every text up to a length is a state
  |-- PhoneNumbers         normalising and masking
  |     \-- PhoneEntry     what is promised of it
  \-- OtpVerifier          the access code, from settings and keypad to the verdict
        \-- CodeEntry      what is promised of it
              |-- MCTextEntry       (with PhoneEntry)
              \-- TextEntryProofs   (with PhoneEntry)
```

`CallFlow` composes the others. Its variables:

- `store` - `InMemoryCallSessionStore`: `_sessions` and `_call_uuid_index`;
- `calls` - for each call Plivo's view (status, document playing, webhook whose
  answer is awaited, the session id it was placed with) and the caller's (handset
  put down, unrecognised inputs in a row, wrong codes, language pressed). The
  caller's fields and `verified` only observe: the server's steps never read them;
- `inflight` - webhooks sent and not handled yet;
- `verified` - calls whose caller has entered the code since their session was
  last lost (or recreated);
- `faults` - how much of the fault budget is spent.

Actions and code: each endpoint is one action with the endpoint's name
(`HandleCallAnswered` is `handle_call_answered`, and so on), `PlaceOutboundCall`,
`EndCall` and `ReadCalls` are the call API, `Restart` and `Tick` the process and its
clock. `Respond` is the common end: the save, and the document on its way to Plivo.
A document is played if the call still waits for this very webhook; otherwise the
answer came too late and is dropped, but what the handler did to the store stays.

### The other modules

- **`CallJourney`** is what a caller may live through, with two variables: the point
  each call is `at` and who has `passed` the access code. Its edges are those of the
  diagram in `docs/CALL_FLOW.md` as the routers implement it, split by who may take
  them: anybody (`Open`), a caller who passed (`Guarded`), one the server has forgotten
  (`AskedAgain`). `CallFlowRefinement` maps a call of `CallFlow` to a point: what is
  being played, or else what the awaited webhook says the caller did.
- **`StoreClients`** calls every method of the store: `create` and `save` from the call
  API and from webhooks that carry our session id, that carry none (`ForeignEvent`,
  found through the index), that attach their call or not; `get`, `get_by_call_uuid`,
  `list_recent`, `delete`, `clear`. `older` is the order of `created_at`.
- **`CallPlacement`** follows one call through `place_outbound_call`, `place_call`,
  `end_call` and `hangup_call` with every combination of settings and every failure of
  Plivo's API. It keeps the HTTP `status` told to the client against what was done: the
  session left, the `line`, the number `dialled` (what `place_call` gave to Plivo). Of the
  handlers it has what moves a stage while the line is up or drops: the answer, the
  fallback, a prompt or menu that gives up (`GivesUp`), the transfer (`bridged` is the
  number of its `<Dial>`) and its end, the hangup event. `CallFlow` has the handlers in
  full, and of a placement only whether Plivo queued the call.
- **`ControlPanel`** is `static/index.html` as what it is, callbacks around
  `activeSessionId`: `requests` holds those under way, of which any may be served,
  answered or lost next. The server's half is `calls.py` over sessions that change as
  webhooks please (`SessionChanges`).
- **`CallWatcher`** is `watch_session`: a poll is one step, for the client is synchronous
  and an answer is a snapshot. Handlers record events and set the stage in any way.
- **`PhoneNumbers`**, **`OtpVerifier`** are pure operators over sequences of characters;
  `Typing` makes every text up to `MaxTyped` a state, so that TLC checks
  `PhoneEntry` and `CodeEntry` on all of them.

### Choices of abstraction

- **A handler is one step.** Handlers and API endpoints are `async def` and await
  nothing after the request body is read, on one event loop; the Plivo client
  blocks that loop. The store's lock is therefore never contended and not modelled.
- **Counters stop at the threshold** they are compared with (`CountUpTo`); all
  comparisons are `>=`, so going on counting could not be told apart.
- **The clock is coarse.** `idle` counts ticks since `updated_at`, up to one past the
  TTL. Sessions the coarse clock cannot tell apart are evicted in any order, which
  includes the order of the real timestamps.
- **The audit trail is a set** of the event types properties look for.
- **Access code entries** are of four kinds in `CallFlow`: the code, the code with its
  terminator, a wrong entry, the terminator alone (which the verifier reduces to
  nothing); `OtpVerifier` has the characters.
- **Left out**: wording and voices (with the prompt reason that only picks wording),
  phone numbers, logging, the signature check (a request that fails it is refused
  before it reaches a handler), and Plivo sending one webhook twice.
- Webhooks of this flow always carry their own session id, so in `CallFlow` the lookup
  by call id in `_resolve_session` only ever confirms it; `StoreClients` has the case of
  a URL without one.
- **The page** shows a session as its stage (one stands for all those in mid-call) and
  whether it has a call id, which is all the page branches on. The list of recent calls
  is what can be clicked: any session ever placed.
- **Numbers** in `CallPlacement` are a value and a spelling; `None` is one that no
  spelling makes valid.
- **External**: Plivo and the people on the line. Of `<GetDigits>`, `<Redirect>`,
  `<Dial>` and `<Hangup>` the model has what the builder's comments rely on: no
  input falls through to the redirect, a document without one ends the call; the
  fallback URL is tried when the answer URL gives nothing.

Definitions introduced by `Bug:` are not part of the model: each is a mistake that
could be made in the definition below it, used to see that a property notices.

## Runs

`CHECK_DEADLOCK FALSE` in all of them: an instance has finitely many calls, events or
characters, after which the system rightly stops.

| Run | Instance | Question |
|---|---|---|
| `flow_kept` | 1 call, 2 sessions and room for both, 3 unrecognised inputs, 2 wrong codes, 2 lost webhooks or odd API replies | As long as no session is lost: are the caps exact, does the stage follow the caller, does every webhook find its session? (`OtpCapKept`, `ToleranceKept`, `StageTracksCaller`, `NeverRecreated`, `TypeOK`) |
| `flow_faults` | 1 call, 2 sessions, store of 1, TTL of one tick, 2 faults of any kind | What holds however sessions and webhooks are lost, and is it still the diagram's flow? (`OtpGate`, `GoodbyeEarned`, `LanguageHonoured`, `OperatorCanHangUp`, `CapForgottenOnlyWithSession`, `ServedInStage`, `ImplementsJourney`, and `CallersInv` of the proofs) |
| `two_calls` | 2 calls, 2 sessions, store of 1, no cap on wrong codes, 1 restart or late answer | Can one call get at another's session, or pass the gate through it? (`OwnSession`, `IndexSound`, `StoreBounded`, `Inv`, `OtpGate`) |
| `call_ends` | 1 call, 2 sessions, fair, no expiry, 2 faults | Is the line released, is every end recorded? (`LineReleased`, `EndRecorded`) |
| `store` | 5 sessions, 2 calls, room for 3, lists of 2, TTL of one tick | Do index and list hold for every order of calls to the store, and does a session that stays keep its entry? (`IndexLeadsHome`, `EntryKept`, `NewestListed`) |
| `placement` | 2 numbers in 2 spellings or none, for each setting and destination; every API failure | Does what the client is told fit what was done? (`NeverDialsItself`, `RefusalOnRecord`, `HangupConfirmed`, `TypeOK`) |
| `text_entry` | every text of up to 8 of 5 characters | Are numbers and codes read right? (`NormalizedOnce`, `SpellingsAgree`, `MaskHides`, `AcceptsExactly`, `OwnCodeAccepted`) |
| `panel` | 2 sessions, 2 requests at once, 4 events, fair | Does the page catch up, is the button given back? (`PanelCatchesUp`, `DialButtonFreed`, `DialButtonHeld`, `TypeOK`) |
| `watch` | 3 polls, 6 events, 2 lost sessions, fair | Is the trail printed once, in order, whole, and does the watch end? (`PrintedInOrderOnce`, `StreamedUntilLost`, `WatcherStops`, `TypeOK`) |
| `hangup_reopened` | 1 call, no faults | expected violation, below |
| `dial_unchecked` | 1 call, 1 restart | expected violation, below |
| `end_announced` | as `panel` | expected violation, below |

**Bounds.** `MaxInvalidInputs` 3 is the default and lets silence and stray keys mix;
elsewhere 1 or 2, the smallest that has a "not yet" and an "enough" or none.
`MaxOtpAttempts` 2 has a wrong code that is forgiven, 0 is the default without a cap.
`TTL` 1 has a fresh, an old and an expired session. A store of 1 is full as soon as
there is a call, so the second session (another call's, a refused one's) evicts it.
`MaxFaults` 2 lets a fault hit the recovery from another. A session id is free for a
new call once nothing knows it, so `SessionIds` bounds only how many are known at
once. In `store` a call with two sessions and another call's session fit together in a
store that is full, and a list may be shorter than what is stored (`MaxListed`, 100 in
the code). `IdSymmetry` is sound in `two_calls` and `store`: no definition tells ids
apart and no liveness is checked there.

In `text_entry` the country code has one digit, a subscriber number at least five, a
number at most seven, so that texts of eight characters reach both ends of the length
check, with and without a prefix, and both sides of the length from which a bare number
is read as carrying the country code (`CarriesCountryCode`); the code has two digits, so
that it fits with terminators and blanks on both sides and with a digit too many. The
characters are those the code tells apart: the plus sign, the trunk zero, a digit of the
country code, a terminator key, a blank (the `-` of a spelling is put in by
`SpellingsAgree`; `*` is treated as `#`). Two requests are enough for an answer to
overtake another; four events for a call placed, selected away from, changed and ended.
`MaxEvents` counts clicks, failures and changes, not polls, which go on for ever. In
`watch` a trail may be lost after the first poll, grow again past the cursor, and be
lost again.

**Fairness** (`FairSpec` of `CallFlow`): the server eventually handles a webhook of a call
that has one, Plivo moves a call on (prompts time out, documents end, transfers end,
missing answers are given up), ringing ends. These are the server's event loop and
Plivo's timers (`ring_timeout`, `<GetDigits timeout>`, `<Dial timeout>`). No fairness is
assumed of the caller, the operator, or any fault. `call_ends` excludes
expiry: the prompt timeouts the settings allow (30 s) are below the smallest TTL
(60 s). It keeps the budget of faults finite: a line whose session is lost between
any two prompts is asked for the code for ever. `EndRecorded` excuses a fault that
comes after the end, for it may be the loss of the hangup webhook or of the trail.

In `ControlPanel` the server answers, answers arrive (weak fairness, per request) and
the timer fires: strong fairness, because with `Requests` full the timer's step is
disabled in the model only, a browser queues more. The operator and the network are
free. In `CallWatcher` only the loop itself is fair.

### What the expected violations show

- `ClosedStaysClosed`: hang up while a webhook of the call is on its way and the
  hangup event is handled first. The late handler's `advance_to` moves the session
  from `completed` back to, say, `awaiting_otp`, although the hangup event is
  documented to close it (`ivr.py:394`, `docs/CALL_FLOW.md:36`).
- `ReauthenticatedOnEveryHop`: restart during a transfer. The dial-status endpoint
  does not check authentication and plays its message to a caller it no longer
  knows, against `ivr.py:10-12`. The next hop does check: `OtpGate` holds.
- `EndAnnouncedTruly`: `fetch` rejects only when there is no answer at all, and
  `hangupActiveCall` does not look at `response.ok`: a hangup refused with 404, 409 or
  502 is announced as "Call ended." although the page has "Could not end the call."
  (`index.html:626-631`).

### Deviations the models contain

The models behave as the code does, so they also contain these; no run is about them.

- A session lost at the access-code prompt is recreated by `verify_otp`, which asks
  again without setting the stage: it stays `initiated` (`ivr.py:172`, `models.py:46`).
  The dial-status endpoint does the same after a failed transfer. `ServedInStage` says
  that these are the only ones; it lasts to the next handler that sets a stage.
  `StageTracksCaller`, without an exception, holds only as long as no session is lost and
  no webhook is given up (the handler of one that was moves the stage behind the
  fallback's back).
- A failure below Plivo's SDK passes every `except` of `place_call`: the client is told
  500 and the session stays `initiated`, without the failure in its trail, whether the
  phone rings or not (`PlivoUnreachable`; `RefusalOnRecord` excepts 500).
- The numbers in the settings are plain strings until somebody needs them: a caller
  number that is none makes every placement a 500, an associate number that is none
  ends the call in mid-transfer with its stage saved (`Transfer`; `ivr.py:331`,
  `config.py:169-174`), where README.md:222 of the repository has all of them
  validated at startup. The country code has no validator either (`config.py:56`): that it
  is made of digits is an assumption of `PhoneNumbers` about how the service is set up.
- The comparison with the service's own number is `place_call`'s only: an associate number
  that is the caller's own number is dialled by the transfer (`bridged`, of which
  `NeverDialsItself` says nothing).
- A bare national number of ten digits and more that begins with the digits of the
  country code is taken for an international one (`CarriesCountryCode`):
  9111111111 becomes +9111111111. `SpellingsAgree` says that this is the only other
  reading there is, and that no number is read so that would leave the country code
  without a subscriber number.
- A call that got two sessions (a URL without our id before the first was attached)
  has one index entry; when either session goes, the entry goes, whichever it leads
  to, and the other session is not found by its call id until it is saved
  (`call_session_store.py:115-116`). `EntryKept` says that only such a twin can take a
  session's entry away.
- The End Call button is drawn with the session shown and ends the session selected
  (`index.html:626,683`): between a selection and its first poll, another one.
- The watcher's cursor is an index into a trail that may be replaced: the first events
  of a recreated session are not printed (`trigger_call.py:97`); nothing is printed
  twice. It stops at a terminal stage (`trigger_call.py:101`).
- A session is `completed` or `failed` before its goodbye is spoken, with the line still up
  (`ivr.py:149-153`, `234`, `296`, `342`, `374`, `466`). What the API shows as over need
  not be; `HangupConfirmed` therefore speaks of what `end_call` told, not of the stage.

## Proofs

For all constants that satisfy the named assumptions (`SessionAssumption`,
`StoreAssumption`, `DocumentAssumption`, `FlowAssumption`, `PlacementAssumption`,
`ClientsAssumption`, `WatcherAssumption`, `PanelAssumption`, `PhoneAssumption`,
`CodeAssumption`). They are what the settings' validators enforce, that the constants of
the code are numbers of their kind, that there are finitely many session ids, that `None`
is no id, number, session, document or answer, and, enforced by nobody, that the country
code is made of digits.

| Module | Theorem | Statement |
|---|---|---|
| `CallFlowProofs` | `InvHolds` | `Spec => []Inv` |
| | `TypeCorrect` | `Spec => []TypeOK` |
| | `OtpGateHolds` | `Spec => OtpGate` |
| | `OwnSessionHolds` | `Spec => []OwnSession` |
| `CallFlowCallerProofs` | `CallersHold` | `Spec => []CallersInv` |
| | `GoodbyeEarnedHolds` | `Spec => GoodbyeEarned` |
| | `CapForgottenHolds` | `Spec => []CapForgottenOnlyWithSession` |
| | `LanguageHonouredHolds` | `Spec => []LanguageHonoured` |
| | `OperatorCanHangUpHolds` | `Spec => []OperatorCanHangUp` |
| | `JourneyImplemented` | `Spec => ImplementsJourney` |
| `CallFlowStoreProofs` | `IndexSoundHolds` | `Spec => []IndexSound` |
| | `StoreBoundedHolds` | `Spec => []StoreBounded` |
| | `KeptHolds` | `SessionsKept`: `Spec => []KeptInv` |
| | `NeverRecreatedHolds` | `SessionsKept`: `Spec => []NeverRecreated` |
| | `OtpCapHolds` | `SessionsKept`: `Spec => []OtpCapKept` |
| | `ToleranceHolds` | `SessionsKept`: `Spec => []ToleranceKept` |
| | `StageHolds` | `Spec => []StageInv` |
| | `ServedInStageHolds` | `Spec => ServedInStage` |
| | `StageTracksHolds` | `SessionsKept`, no timeouts: `Spec => []StageTracksCaller` |
| `StoreClientsProofs` | `IndexLeadsHomeHolds` | `Spec => []IndexLeadsHome` |
| | `EntryKeptHolds` | `Spec => EntryKept` |
| | `NewestListedHolds` | `Spec => [](NewestListed /\ \A limit \in Int : ListedFor(limit))` |
| `CallPlacementProofs` | `PlacementTypeCorrect` | `Spec => []TypeOK` |
| | `NeverDialsItselfHolds` | `Spec => []NeverDialsItself` |
| | `HangupConfirmedHolds` | `Spec => []HangupConfirmed` |
| | `RefusalOnRecordHolds` | `Spec => RefusalOnRecord` |
| `CallWatcherProofs` | `WatcherTypeCorrect` | `Spec => []TypeOK` |
| | `PrintedInOrderOnceHolds` | `Spec => []PrintedInOrderOnce` |
| | `StreamedUntilLostHolds` | `Spec => StreamedUntilLost` |
| `ControlPanelProofs` | `PanelTypeCorrect` | `Spec => []TypeOK` |
| | `DialButtonHeldHolds` | `Spec => []DialButtonHeld` |
| `TextEntryProofs` | `AcceptsExactlyHolds` | `Spec => []AcceptsExactly` |
| | `OwnCodeAcceptedHolds` | `Spec => []OwnCodeAccepted` |
| | `NormalizedOnceHolds` | `Spec => []NormalizedOnce` |
| | `SpellingsAgreeHolds` | `Spec => []SpellingsAgree` |
| | `MaskHidesHolds` | `Spec => []MaskHides` |

**The gate** (`CallFlowProofs`). `OtpGate` is not inductive:
that a protected document goes to a verified caller only rests on authenticated
sessions belonging to verified callers (`AuthFits`), which rests on the session a
webhook resolves to being its own call's, by URL (`WebhooksFit`) or by index
(`StoreFits`), on URLs coming from documents that carry that session (`DocsFit`),
and on sessions being apart (`OwnersApart`). `Inv` is their conjunction with `TypeOK`
and `PlacedOK`; TLC checks it in `two_calls` first.

The argument goes in layers: lemmas on session methods (who keeps type, call id and
authentication), on documents (`Carries`), on the store (`Shrinks`: eviction only
takes away); `ResolveIsOwn`: a webhook gets its own call's session or an
unauthenticated one. Each handler is then shown to be one `Respond` with a session
and document that are `Allowed`; `HandledKeeps` does once for all what follows from
that. Plivo's steps, the operator's and the faults have a lemma each, and `NextKeeps`
collects them.

**What the server knows of a caller** (`CallFlowCallerProofs`). None of the properties
about counts, language and call ids is inductive: each speaks of a document playing,
and the decision was taken from the session when the webhook before it was handled.
`CallersInv` therefore says of every live call what its session holds, if the server
still has it, *both* while a document plays and while an answer is awaited:

| Part | What it says | Gives |
|---|---|---|
| `Attached` | the session has the call's id, once the answer webhook was handled | `OperatorCanHangUp` |
| `AuthKept`, `KnownVerified` | past the code it is authenticated, and so is that of every verified caller | the guarded edges of the refinement |
| `Counted` | it never counted more unrecognised inputs than there were | `GoodbyeEarned` |
| `AttemptsFit` | its wrong codes are the caller's, or it was recreated | `CapForgottenOnlyWithSession` |
| `Remembered` | one that was never recreated knows the caller exactly | `OtpCapKept`, `ToleranceKept` |
| `DocumentsOf`, `Awaitable` | what may play and be waited for, in the language pressed | `LanguageHonoured`, the refinement |

With it goes what makes this survive reordering: a call has one webhook in flight, the
one it waits for, or else an answer webhook that Plivo has given up and whose handler
comes late (`LiveOK`). TLC checks `CallersInv` in `flow_faults`, under all faults. What a
handler finds and saves is in `HandledKnows`, what becomes of the caller, whether the
document still gets there or not, in `HandledCaller`.

**The store** (`CallFlowStoreProofs`). `IndexSound` and `StoreBounded` carry themselves
with `TypeOK` (`StoreOK`). `PutSound`: storing a session keeps the index sound if it was
attached to no other call before (`AttachedToOwn`, from `Inv`);
`EnforceCapacityMakesRoom`: after it the store is below the cap, from the cardinality of
the set chosen. The reason `save` cannot overflow the store although it does not
enforce the cap is that it writes a session that is stored (`SaveBounded`).

**As long as no session is lost.** The exact statements cannot hold when a session goes
with everything it counted, so these theorems have the hypothesis `SessionsKept`: no
restart, no expiry, and `MaxSessions` at least as many as session ids. Webhooks and API
replies may still be lost, and answers be late. `flow_kept` is an instance. Under it
`KeptInv` is inductive: every step writes the session of one call and leaves the others
(`Writes`, `HandledWrites`), so no session is ever recreated and `Remembered` says
everything of all of them. `StageTracksCaller` follows from it and `StageInv`, and
needs also that Plivo waits for each answer, for the reason under Deviations.

**The stage.** Some handlers set no stage (wrong code, stray key, failed transfer) and are
right only if they find the one they mean to keep. `StageInv` carries that across every
step: while a document plays the session is at its stage (`StageSaying`), while an
answer is awaited at the one its endpoint counts on (`StageMet`), except where the session
was recreated by an endpoint that set none (`Unstaged`) and where the line is being dropped
by the fallback with a late handler at work. With a restart, an eviction or an expiry
there is nothing to be found, and the next handler is judged by what it recreates. It
rests on `CallersInv` for what may be awaited at all. `ServedInStage` is the step of it
(`ServedStage`).

**The refinement** (end of `CallFlowCallerProofs`). Under `Inv` and `CallersInv`
every action is mapped to an edge of `CallJourney` or to no change: what is
playing or awaited determines the point a call is at (`WaitingMeans`, `LivePoint`);
`OpenEdges`, `CodeEdge`, `GuardedEdges` and `AskedAgainEdges` say of every handler which
edge its document is, `HandledJourney` adds whether the document reaches the call.

**The store's clients.** `IndexLeadsHome` is not inductive either: a session attached to
a second call would leave the entry of the first behind. `StoreClientsProofs` adds
`Owned`: the session in a call's URLs is in no other call's, and is attached to that
call or to none. Taking sessions out keeps the index sound because their entries go
along (`RemoveShrinks`, which `EvictExpired`, `EnforceCapacity` and `Delete` reduce to);
storing one does if it was not another call's (`PutHome`). `EntryKept` is shown for one
method after another: what is taken out with a session is its own call's entry
(`RemoveFits`), so whoever loses one has a twin, and storing a session indexes
itself (`PutKept`).

`NewestListed` rests on the sessions stored being ordered by creation (`Timeline`: a new
one comes after all of them, and saving one changes nobody's place), and on a finite
ordered set being the range of a sorted sequence (`ListExists`). That is an induction over
finite sets, done without an induction theorem: of the subsets without a list there is
a smallest (`SmallestSet`, from the library's well-foundedness of strict inclusion), and
its newest session comes off it. What `list_recent` cuts off that sequence is `SliceBegins`,
for every integer: TLC's limits are those around the ends of the slice.

**Placements.** In `CallPlacementProofs` the two invariants carry themselves, with the
types and `SessionFirst`: no phone is involved before there is a session, so a
placement starts on an idle line. `HangupConfirmed` survives everything after because a
line that is down stays down and 204 is told only where `end_call` put it down,
whatever stage the handlers gave the session meanwhile. `RefusalOnRecord` follows action
by action from there.

**The watcher.** That nothing is printed twice although the trail behind the cursor may
be replaced by another one rests on `UnseenIsNew`: whatever is past the cursor was
recorded after everything printed, because a trail that was replaced is made of later
events only. `StreamedUntilLost` rests on `CursorOK`: until the first loss the cursor is
a place in this very trail, and what was printed is the trail up to there.

**The page.** `PanelInv` adds to the types that whatever is selected, asked about or shown
was placed, that nothing is polled or ended before something is selected
(`SelectedFirst`), and the button. `RequestSteps` does once for all what follows when one
request starts, is answered, goes on or is done.

**Texts.** `Typing` has texts up to `MaxTyped`; `MaxTyped` and `Keyboard` are any, so the
theorems are about every text, and about codes, country codes and limits of any length. None of the
string methods is computed by recursion here: each is described by the positions it keeps.

- `strip` is the cut between the first and the last character it does not strip
  (`StripIs`; that these exist is `SmallestSet` again: `FirstOne`, `LastOne`). Two cuts of
  a text with the code between them and nothing but padding around are the same cut, so
  what is accepted is what was keyed in (`AcceptsExactly`, both directions).
- `re.sub` is `Kept`: a text and an increasing map from its places to those of the original
  that hits exactly the characters kept (`Places`). There is only one such text
  (`KeptIs`, by counting the places up to each), so `Kept` is found by giving the map:
  for a text with nothing to drop (`KeptWhole`), with something around the part to keep
  (`KeptPart`), with one separator put in (`KeptBut`).
- The spellings of a number then reduce to two, with the plus sign and with digits only,
  and these to one case of `Internationalised` each. `NormalizedOnce` needs that what
  comes out begins with the plus sign and has only digits after it.

**Only model-checked:** liveness, which needs fairness and is beyond the prover
(`LineReleased`, `EndRecorded`, `PanelCatchesUp`, `DialButtonFreed`, `WatcherStops`).
Every safety property of the passing runs has a theorem.

## Not modelled

Left aside, and why:

- the signature check (`core/security.py`): an HMAC over the URL; a request that fails
  it is refused before any state is touched, one that passes is any webhook of `CallFlow`;
- `--status`, `--hangup`, `--list` of the command line: one request each, no state;
- on the page, the stepper, the rendering of the list and the health strip: layout;
- response schemas, log formats, the health check (its `active_sessions` counts a list
  capped at 100, `health.py:32`), wording: no state and no decisions;
- what happens to `request_uuid`, voices, ring and prompt timeouts: carried, not
  branched on.
