------------------------- MODULE CallWatcherProofs -------------------------
(***************************************************************************)
(* What CallWatcher promises, proved for any number of polls, events and   *)
(* lost sessions.                                                          *)
(***************************************************************************)
EXTENDS CallWatcher, SequenceTheorems, TLAPS

-----------------------------------------------------------------------------
(* The trail, the cursor and what was printed *)

Increasing(trail) == \A i, j \in DOMAIN trail : i < j => trail[i] < trail[j]

\* Nothing in it is still to be recorded.
Recorded(trail) == \A i \in DOMAIN trail : trail[i] <= recorded

\* What is past the cursor was recorded after everything printed.
UnseenIsNew ==
    \A i \in DOMAIN printed :
        \A j \in DOMAIN events : last_event_count < j => printed[i] < events[j]

TrailOK ==
    events # None =>
        /\ Len(events) <= recorded
        /\ Increasing(events)
        /\ Recorded(events)
        /\ UnseenIsNew

\* As long as no session is lost, the cursor is a place in this very trail.
CursorOK ==
    losses = 0 =>
        IF phase = "placing"
        THEN last_event_count = 0 /\ printed = <<>>
        ELSE phase = "watching" =>
                /\ events # None
                /\ last_event_count <= Len(events)
                /\ printed = SubSeq(events, 1, last_event_count)

WatchInv ==
    /\ TypeOK
    /\ TrailOK
    /\ Increasing(printed)
    /\ Recorded(printed)
    /\ CursorOK

-----------------------------------------------------------------------------
(* The server's half: the trail *)

\* Events are numbers.
LEMMA EventNumbers ==
    ASSUME NEW trail \in Seq(1..MaxEvents)
    PROVE  /\ Len(trail) \in Nat
           /\ DOMAIN trail = 1..Len(trail)
           /\ \A i \in DOMAIN trail : trail[i] \in Nat
  <1>1. MaxEvents \in Nat
    BY WatcherAssumption
  <1>2. DOMAIN trail = 1..Len(trail) /\ Len(trail) \in Nat
    OBVIOUS
  <1>3. \A i \in DOMAIN trail : trail[i] \in 1..MaxEvents
    BY <1>2, ElementOfSeq
  <1>4. QED
    BY <1>1, <1>2, <1>3

\* The next events, in order.
LEMMA NewsAhead ==
    ASSUME TypeOK, NEW n \in 1..2, recorded + n <= MaxEvents
    PROVE  /\ News(n) \in Seq(1..MaxEvents)
           /\ Len(News(n)) = n
           /\ \A i \in 1..n : News(n)[i] = recorded + i
  <1>1. recorded \in Nat /\ MaxEvents \in Nat
    BY WatcherAssumption DEF TypeOK
  <1>2. \A i \in 1..n : recorded + i \in 1..MaxEvents
    BY <1>1
  <1>3. QED
    BY <1>1, <1>2 DEF News

\* Recording keeps what was there, and what is added is later than anything.
LEMMA TrailGrows ==
    ASSUME TypeOK, NEW n \in 1..2, recorded + n <= MaxEvents,
           NEW old \in Seq(1..MaxEvents), Len(old) <= recorded,
           Increasing(old), Recorded(old), NEW new, new = old \o News(n)
    PROVE  /\ new \in Seq(1..MaxEvents)
           /\ Len(new) = Len(old) + n
           /\ \A i \in 1..Len(old) : new[i] = old[i]
           /\ \A i \in DOMAIN new : i > Len(old) => new[i] > recorded
           /\ \A i \in DOMAIN new : new[i] <= recorded + n
           /\ Increasing(new)
  <1>1. recorded \in Nat /\ MaxEvents \in Nat /\ Len(old) \in Nat
    BY WatcherAssumption DEF TypeOK
  <1>2. /\ News(n) \in Seq(1..MaxEvents)
        /\ Len(News(n)) = n
        /\ \A i \in 1..n : News(n)[i] = recorded + i
    BY NewsAhead
  <1> HIDE DEF News
  <1>3. /\ new \in Seq(1..MaxEvents)
        /\ Len(new) = Len(old) + n
        /\ \A i \in 1..Len(old) : new[i] = old[i]
        /\ \A i \in 1..Len(new) : i > Len(old) => new[i] = News(n)[i - Len(old)]
    BY <1>1, <1>2
  <1>4. DOMAIN new = 1..Len(new) /\ DOMAIN old = 1..Len(old)
    BY <1>3
  <1>5. \A i \in 1..Len(new) : i > Len(old) => new[i] = recorded + (i - Len(old))
    <2> SUFFICES ASSUME NEW i \in 1..Len(new), i > Len(old)
                 PROVE  new[i] = recorded + (i - Len(old))
      OBVIOUS
    <2>1. i - Len(old) \in 1..n
      BY <1>1, <1>3
    <2>2. QED
      BY <1>2, <1>3, <2>1
  <1>6. \A i \in 1..Len(old) : new[i] <= recorded
    BY <1>3, <1>4 DEF Recorded
  <1>7. \A i \in DOMAIN new : new[i] \in Nat
    BY <1>3, EventNumbers
  <1>8. \A i \in DOMAIN new : i > Len(old) => new[i] > recorded
    BY <1>1, <1>4, <1>5
  <1>9. \A i \in DOMAIN new : new[i] <= recorded + n
    <2> SUFFICES ASSUME NEW i \in DOMAIN new PROVE new[i] <= recorded + n
      OBVIOUS
    <2>1. i \in 1..Len(new) /\ n \in Nat /\ new[i] \in Nat
      BY <1>4, <1>7
    <2>2. CASE i <= Len(old)
      BY <1>1, <1>6, <2>1, <2>2
    <2>3. CASE i > Len(old)
      <3>1. new[i] = recorded + (i - Len(old)) /\ i <= Len(old) + n
        BY <1>3, <1>5, <2>1, <2>3
      <3>2. QED
        BY <1>1, <2>1, <3>1
    <2>4. QED
      BY <1>1, <2>1, <2>2, <2>3
  <1>10. Increasing(new)
    <2> SUFFICES ASSUME NEW i \in DOMAIN new, NEW j \in DOMAIN new, i < j
                 PROVE  new[i] < new[j]
      BY DEF Increasing
    <2>1. CASE j <= Len(old)
      BY <2>1, <1>3, <1>4 DEF Increasing
    <2>2. CASE i <= Len(old) /\ j > Len(old)
      BY <2>2, <1>1, <1>4, <1>6, <1>7, <1>8
    <2>3. CASE i > Len(old) /\ j > Len(old)
      BY <2>3, <1>1, <1>4, <1>5
    <2>4. QED
      BY <1>1, <1>4, <2>1, <2>2, <2>3
  <1>11. QED
    BY <1>3, <1>8, <1>9, <1>10

\* Neither a handler nor a lost session disturbs what was printed.
LEMMA HandlerKeeps ==
    ASSUME WatchInv, HandlerRuns
    PROVE  WatchInv'
  <1>1. PICK n \in 1..2 :
            /\ recorded + n <= MaxEvents
            /\ recorded' = recorded + n
            /\ events' = (IF events = None THEN <<>> ELSE events) \o News(n)
    BY DEF HandlerRuns
  <1>2. recorded \in Nat /\ recorded' \in 0..MaxEvents /\ recorded <= recorded'
    BY <1>1, WatcherAssumption DEF WatchInv, TypeOK
  <1>3. UNCHANGED <<line, losses, phase, last_event_count, printed, polls>>
    BY DEF HandlerRuns, client
  <1> DEFINE old == IF events = None THEN <<>> ELSE events
  <1>4. /\ old \in Seq(1..MaxEvents)
        /\ Len(old) <= recorded
        /\ Increasing(old)
        /\ Recorded(old)
    <2>1. CASE events = None
      BY <2>1, <1>2 DEF Increasing, Recorded
    <2>2. CASE events # None
      BY <2>2 DEF WatchInv, TypeOK, TrailOK
    <2>3. QED
      BY <2>1, <2>2
  <1>5. events' = old \o News(n)
    BY <1>1
  <1> HIDE DEF old
  <1>6. /\ events' \in Seq(1..MaxEvents)
        /\ Len(events') = Len(old) + n
        /\ \A i \in 1..Len(old) : events'[i] = old[i]
        /\ \A i \in DOMAIN events' : i > Len(old) => events'[i] > recorded
        /\ \A i \in DOMAIN events' : events'[i] <= recorded + n
        /\ Increasing(events')
    BY <1>1, <1>4, <1>5, TrailGrows DEF WatchInv
  <1>7. TypeOK'
    BY <1>2, <1>3, <1>6 DEF HandlerRuns, WatchInv, TypeOK
  <1>8. Increasing(printed)' /\ Recorded(printed)'
    <2>1. \A i \in DOMAIN printed : printed[i] \in Nat
      BY EventNumbers DEF WatchInv, TypeOK
    <2>2. QED
      BY <1>2, <1>3, <2>1 DEF WatchInv, Increasing, Recorded
  <1>9. UnseenIsNew'
    <2> SUFFICES ASSUME NEW i \in DOMAIN printed, NEW j \in DOMAIN events',
                        last_event_count < j
                 PROVE  printed[i] < events'[j]
      BY <1>3 DEF UnseenIsNew
    <2>1. printed[i] \in Nat /\ printed[i] <= recorded
      BY EventNumbers DEF WatchInv, TypeOK, Recorded
    <2>2. j \in Nat /\ events'[j] \in Nat /\ Len(old) \in Nat
      BY <1>4, <1>6, EventNumbers
    <2>3. CASE j > Len(old)
      BY <1>2, <1>6, <2>1, <2>2, <2>3
    <2>4. CASE j <= Len(old)
      <3>1. j \in 1..Len(old) /\ events'[j] = old[j]
        BY <1>6, <2>2, <2>4
      <3>2. events # None /\ old = events
        BY <3>1 DEF old
      <3>3. j \in DOMAIN events
        BY <3>1, <3>2, <1>4
      <3>4. QED
        BY <3>1, <3>2, <3>3 DEF WatchInv, TrailOK, UnseenIsNew
    <2>5. QED
      BY <2>2, <2>3, <2>4
  <1>10. TrailOK'
    <2>1. Len(events') <= recorded'
      BY <1>1, <1>2, <1>4, <1>6
    <2>2. Recorded(events)'
      BY <1>1, <1>6 DEF Recorded
    <2>3. Increasing(events)'
      BY <1>6 DEF Increasing
    <2>4. QED
      BY <1>9, <2>1, <2>2, <2>3 DEF TrailOK
  <1>11. CursorOK'
    <2> SUFFICES ASSUME losses = 0, phase = "watching"
                 PROVE  /\ events' # None
                        /\ last_event_count <= Len(events')
                        /\ printed = SubSeq(events', 1, last_event_count)
      BY <1>3 DEF WatchInv, CursorOK
    <2>1. /\ events # None
          /\ last_event_count <= Len(events)
          /\ printed = SubSeq(events, 1, last_event_count)
      BY DEF WatchInv, CursorOK
    <2>2. old = events /\ last_event_count \in Nat
      BY <2>1 DEF old, WatchInv, TypeOK
    <2>3. events' # None
      BY <1>6, WatcherAssumption
    <2>4. last_event_count <= Len(events')
      BY <1>4, <1>6, <2>1, <2>2
    <2>5. SubSeq(events', 1, last_event_count) = SubSeq(events, 1, last_event_count)
      BY <1>4, <1>6, <2>1, <2>2, <2>4
    <2>6. QED
      BY <2>1, <2>3, <2>4, <2>5
  <1>12. QED
    BY <1>7, <1>8, <1>10, <1>11 DEF WatchInv

\* There is no trail to have printed from.
LEMMA LossKeeps ==
    ASSUME WatchInv, SessionLost
    PROVE  WatchInv'
  <1>1. UNCHANGED <<recorded, line, phase, last_event_count, printed, polls>>
    BY DEF SessionLost, client
  <1>2. losses' \in 0..MaxLosses /\ losses' # 0
    BY WatcherAssumption DEF SessionLost, WatchInv, TypeOK
  <1>3. TypeOK'
    BY <1>1, <1>2 DEF SessionLost, WatchInv, TypeOK
  <1>4. QED
    BY <1>1, <1>2, <1>3 DEF SessionLost, WatchInv, TrailOK, CursorOK, Increasing, Recorded

-----------------------------------------------------------------------------
(* The command's half: the cursor *)

\* The trail begins before the watch does.
LEMMA PlacingKeeps ==
    ASSUME WatchInv, PlaceCall
    PROVE  WatchInv'
  <1>1. /\ recorded + 2 <= MaxEvents
        /\ events' = News(2)
        /\ recorded' = recorded + 2
        /\ phase = "placing" /\ phase' = "watching"
        /\ UNCHANGED <<losses, last_event_count, printed, polls>>
    BY DEF PlaceCall
  <1>2. recorded \in Nat /\ recorded' \in 0..MaxEvents
    BY <1>1, WatcherAssumption DEF WatchInv, TypeOK
  <1>3. /\ <<>> \in Seq(1..MaxEvents)
        /\ Len(<<>>) <= recorded
        /\ Increasing(<<>>)
        /\ Recorded(<<>>)
    BY <1>2 DEF Increasing, Recorded
  <1>4. /\ News(2) \in Seq(1..MaxEvents)
        /\ Len(News(2)) = 2
        /\ \A i \in 1..2 : News(2)[i] = recorded + i
    BY <1>1, NewsAhead DEF WatchInv
  <1>5. DOMAIN events' = 1..2 /\ \A i \in DOMAIN events' : events'[i] = recorded + i
    BY <1>1, <1>4
  <1>6. TypeOK'
    BY <1>1, <1>2, <1>4 DEF PlaceCall, WatchInv, TypeOK
  <1>7. \A i \in DOMAIN printed : printed[i] \in Nat /\ printed[i] <= recorded
    BY EventNumbers DEF WatchInv, TypeOK, Recorded
  <1>8. Increasing(printed)' /\ Recorded(printed)'
    BY <1>1, <1>2, <1>7 DEF WatchInv, Increasing, Recorded
  <1>9. Increasing(events)' /\ Recorded(events)' /\ Len(events') <= recorded'
    BY <1>1, <1>2, <1>4, <1>5 DEF Increasing, Recorded
  <1>10. UnseenIsNew'
    BY <1>1, <1>2, <1>5, <1>7 DEF UnseenIsNew
  <1>11. CursorOK'
    <2> SUFFICES ASSUME losses = 0
                 PROVE  /\ events' # None
                        /\ last_event_count <= Len(events')
                        /\ printed = SubSeq(events', 1, last_event_count)
      BY <1>1 DEF CursorOK
    <2>1. last_event_count = 0 /\ printed = <<>>
      BY <1>1 DEF WatchInv, CursorOK
    <2>2. events' # None
      BY <1>1, <1>4, WatcherAssumption
    <2>3. QED
      BY <1>1, <1>4, <2>1, <2>2
  <1>12. QED
    BY <1>6, <1>8, <1>9, <1>10, <1>11 DEF WatchInv, TrailOK

\* One poll prints what is past the cursor, and the cursor catches up.
LEMMA PollPrints ==
    ASSUME WatchInv, Poll
    PROVE  /\ events \in Seq(1..MaxEvents) /\ events # None
           /\ last_event_count' = Len(events)
           /\ printed' = printed \o SubSeq(events, last_event_count + 1, Len(events))
           /\ losses = 0 => printed' = events
  <1>1. /\ events \in Seq(1..MaxEvents) /\ events # None
        /\ last_event_count \in Nat
        /\ printed \in Seq(1..MaxEvents)
    BY DEF Poll, WatchInv, TypeOK
  <1>2. /\ last_event_count' = Len(events)
        /\ printed' = printed \o SubSeq(events, last_event_count + 1, Len(events))
    BY DEF Poll, Cursor, Unseen
  <1>3. ASSUME losses = 0 PROVE printed' = events
    <2>1. /\ last_event_count <= Len(events)
          /\ printed = SubSeq(events, 1, last_event_count)
      BY <1>3 DEF Poll, WatchInv, CursorOK
    <2>2. Len(events) \in Nat
      BY <1>1, EventNumbers
    <2>3. /\ 1 \in 1..Len(events)+1
          /\ last_event_count \in 1-1..Len(events)
          /\ Len(events) \in last_event_count..Len(events)
      BY <1>1, <2>1, <2>2
    <2>4. SubSeq(events, 1, last_event_count) \o SubSeq(events, last_event_count + 1, Len(events))
              = SubSeq(events, 1, Len(events))
      BY <1>1, <2>3, ConcatAdjacentSubSeq
    <2>5. QED
      BY <1>1, <1>2, <2>1, <2>4, SubSeqFull
  <1>4. QED
    BY <1>1, <1>2, <1>3

LEMMA PollKeeps ==
    ASSUME WatchInv, Poll
    PROVE  WatchInv'
  <1>1. /\ events \in Seq(1..MaxEvents) /\ events # None
        /\ last_event_count' = Len(events)
        /\ printed' = printed \o SubSeq(events, last_event_count + 1, Len(events))
        /\ losses = 0 => printed' = events
    BY PollPrints
  <1>2. /\ last_event_count \in Nat /\ recorded \in Nat
        /\ printed \in Seq(1..MaxEvents)
        /\ Len(events) \in Nat /\ Len(events) <= recorded /\ recorded <= MaxEvents
    BY <1>1 DEF WatchInv, TypeOK, TrailOK
  <1>3. UNCHANGED <<events, terminal, recorded, line, losses>>
    BY DEF Poll, session
  <1> DEFINE unseen == SubSeq(events, last_event_count + 1, Len(events))
  <1>4. /\ unseen \in Seq(1..MaxEvents)
        /\ \A i \in DOMAIN unseen : /\ last_event_count + i \in DOMAIN events
                                    /\ unseen[i] = events[last_event_count + i]
    <2> DEFINE from == last_event_count + 1
    <2>1. /\ from \in Int /\ Len(events) \in Int
          /\ DOMAIN events = 1..Len(events)
          /\ \A i \in from..Len(events) : events[i] \in 1..MaxEvents
      <3>1. from..Len(events) \subseteq 1..Len(events)
        BY <1>2
      <3>2. \A i \in 1..Len(events) : events[i] \in 1..MaxEvents
        BY <1>1, ElementOfSeq
      <3>3. QED
        BY <1>1, <1>2, <3>1, <3>2, EventNumbers
    <2>2. /\ unseen \in Seq(1..MaxEvents)
          /\ Len(unseen) = IF from <= Len(events) THEN Len(events) - from + 1 ELSE 0
          /\ \A i \in 1..(Len(events) - from + 1) : unseen[i] = events[from + i - 1]
      BY <2>1, SubSeqProperties
    <2>3. DOMAIN unseen = 1..Len(unseen)
      BY <2>2, EventNumbers
    <2> SUFFICES ASSUME NEW i \in DOMAIN unseen
                 PROVE  /\ last_event_count + i \in DOMAIN events
                        /\ unseen[i] = events[last_event_count + i]
      BY <2>2
    <2> HIDE DEF unseen
    <2>4. from <= Len(events) /\ i \in 1..(Len(events) - from + 1)
      BY <2>1, <2>2, <2>3
    <2>5. from + i - 1 = last_event_count + i
      BY <1>2, <2>4
    <2>6. QED
      BY <1>2, <2>1, <2>2, <2>4, <2>5
  <1>5. printed' = printed \o unseen
    BY <1>1
  <1> HIDE DEF unseen
  <1>6. /\ printed' \in Seq(1..MaxEvents)
        /\ DOMAIN printed' = 1..(Len(printed) + Len(unseen))
        /\ DOMAIN printed = 1..Len(printed) /\ DOMAIN unseen = 1..Len(unseen)
        /\ \A i \in 1..Len(printed) : printed'[i] = printed[i]
        /\ \A i \in DOMAIN printed' :
              i > Len(printed) => printed'[i] = unseen[i - Len(printed)]
    BY <1>2, <1>4, <1>5
  <1>7. Len(printed) \in Nat /\ Len(unseen) \in Nat
    BY <1>2, <1>4
  <1>8. \A i \in DOMAIN printed' : i > Len(printed) =>
            /\ i - Len(printed) \in DOMAIN unseen
            /\ last_event_count + (i - Len(printed)) \in DOMAIN events
            /\ printed'[i] = events[last_event_count + (i - Len(printed))]
    BY <1>4, <1>6, <1>7
  <1>9. \A i \in DOMAIN printed' : i <= Len(printed) => i \in DOMAIN printed
    BY <1>6, <1>7
  <1>10. Recorded(printed)'
    <2> SUFFICES ASSUME NEW i \in DOMAIN printed' PROVE printed'[i] <= recorded
      BY <1>3 DEF Recorded
    <2>1. i \in Nat
      BY <1>6
    <2>2. CASE i <= Len(printed)
      BY <1>6, <1>9, <2>2 DEF WatchInv, Recorded
    <2>3. CASE i > Len(printed)
      BY <1>1, <1>8, <2>3 DEF WatchInv, TrailOK, Recorded
    <2>4. QED
      BY <1>7, <2>1, <2>2, <2>3
  <1>11. Increasing(printed)'
    <2> SUFFICES ASSUME NEW i \in DOMAIN printed', NEW j \in DOMAIN printed', i < j
                 PROVE  printed'[i] < printed'[j]
      BY DEF Increasing
    <2>1. i \in Nat /\ j \in Nat
      BY <1>6
    <2>2. CASE j <= Len(printed)
      <3>1. i \in DOMAIN printed /\ j \in DOMAIN printed
        BY <1>6, <1>7, <2>1, <2>2
      <3>2. QED
        BY <1>6, <3>1 DEF WatchInv, Increasing
    <2>3. CASE i <= Len(printed) /\ j > Len(printed)
      <3>1. i \in DOMAIN printed /\ printed'[i] = printed[i]
        BY <1>6, <1>9, <2>3
      <3>2. /\ last_event_count + (j - Len(printed)) \in DOMAIN events
            /\ printed'[j] = events[last_event_count + (j - Len(printed))]
        BY <1>8, <2>3
      <3>3. last_event_count < last_event_count + (j - Len(printed))
        BY <1>2, <1>7, <2>1, <2>3
      <3>4. QED
        BY <1>1, <3>1, <3>2, <3>3 DEF WatchInv, TrailOK, UnseenIsNew
    <2>4. CASE i > Len(printed) /\ j > Len(printed)
      <3>1. /\ last_event_count + (i - Len(printed)) \in DOMAIN events
            /\ last_event_count + (j - Len(printed)) \in DOMAIN events
            /\ printed'[i] = events[last_event_count + (i - Len(printed))]
            /\ printed'[j] = events[last_event_count + (j - Len(printed))]
        BY <1>8, <2>4
      <3>2. last_event_count + (i - Len(printed)) < last_event_count + (j - Len(printed))
        BY <1>2, <1>7, <2>1
      <3>3. QED
        BY <1>1, <3>1, <3>2 DEF WatchInv, TrailOK, Increasing
    <2>5. QED
      BY <1>7, <2>1, <2>2, <2>3, <2>4
  <1>12. TrailOK'
    <2>1. UnseenIsNew'
      BY <1>1, <1>2, <1>3 DEF UnseenIsNew
    <2>2. QED
      BY <1>3, <2>1 DEF WatchInv, TrailOK, Increasing, Recorded
  <1>13. CursorOK'
    <2>1. losses = 0 => printed' = SubSeq(events, 1, Len(events))
      BY <1>1, SubSeqFull
    <2>2. phase' # "placing"
      BY DEF Poll
    <2>3. QED
      BY <1>1, <1>2, <1>3, <2>1, <2>2 DEF CursorOK
  <1>14. TypeOK'
    <2>1. polls' \in 0..MaxPolls
      BY WatcherAssumption DEF Poll, InTime, WatchInv, TypeOK
    <2>2. phase' \in {"finished", "watching"}
      BY DEF Poll
    <2>3. last_event_count' \in 0..MaxEvents
      BY <1>1, <1>2, WatcherAssumption
    <2>4. QED
      BY <1>3, <1>6, <2>1, <2>2, <2>3 DEF WatchInv, TypeOK
  <1>15. QED
    BY <1>10, <1>11, <1>12, <1>13, <1>14 DEF WatchInv

-----------------------------------------------------------------------------
(* Every step *)

LEMMA InitKeeps == Init => WatchInv
  <1> SUFFICES ASSUME Init PROVE WatchInv
    OBVIOUS
  <1>1. MaxEvents \in Nat /\ MaxPolls \in Nat /\ MaxLosses \in Nat
    BY WatcherAssumption
  <1>2. <<>> \in Seq(1..MaxEvents) /\ DOMAIN <<>> = {}
    OBVIOUS
  <1>3. TypeOK
    <2>1. 0 \in 0..MaxEvents /\ 0 \in 0..MaxPolls /\ 0 \in 0..MaxLosses
      BY <1>1
    <2>2. QED
      BY <1>2, <2>1 DEF Init, TypeOK
  <1>4. TrailOK /\ CursorOK
    BY DEF Init, TrailOK, CursorOK
  <1>5. Increasing(printed) /\ Recorded(printed)
    BY <1>2 DEF Init, Increasing, Recorded
  <1>6. QED
    BY <1>3, <1>4, <1>5 DEF WatchInv

\* All the command does besides polling is stop; a line that drops stays unseen.
LEMMA StopKeeps ==
    ASSUME WatchInv, UNCHANGED <<session, losses, last_event_count, printed, polls>>,
           \/ UNCHANGED phase /\ line' \in {line, "down"}
           \/ UNCHANGED line /\ phase' \in {"failed", "timed_out", "interrupted"}
    PROVE  WatchInv'
  <1>1. TypeOK'
    BY DEF WatchInv, TypeOK, session
  <1>2. TrailOK' /\ Increasing(printed)' /\ Recorded(printed)'
    BY DEF WatchInv, TrailOK, UnseenIsNew, Increasing, Recorded, session
  <1>3. CursorOK'
    BY DEF WatchInv, CursorOK, session
  <1>4. QED
    BY <1>1, <1>2, <1>3 DEF WatchInv

LEMMA NextKeeps == WatchInv /\ [Next]_vars => WatchInv'
  <1> SUFFICES ASSUME WatchInv, [Next]_vars PROVE WatchInv'
    OBVIOUS
  <1>1. CASE PlaceCall
    BY <1>1, PlacingKeeps
  <1>2. CASE Poll
    BY <1>2, PollKeeps
  <1>3. CASE Fails
    BY <1>3, StopKeeps DEF Fails
  <1>4. CASE TimesOut
    BY <1>4, StopKeeps DEF TimesOut
  <1>5. CASE Interrupted
    BY <1>5, StopKeeps DEF Interrupted
  <1>6. CASE HandlerRuns
    BY <1>6, HandlerKeeps
  <1>7. CASE LineDrops
    BY <1>7, StopKeeps DEF LineDrops, client
  <1>8. CASE SessionLost
    BY <1>8, LossKeeps
  <1>9. CASE UNCHANGED vars
    BY <1>9, StopKeeps DEF vars, client
  <1>10. QED
    BY <1>1, <1>2, <1>3, <1>4, <1>5, <1>6, <1>7, <1>8, <1>9 DEF Next, Watch, PollFails

\* Only a poll that is answered counts as one.
LEMMA OnlyPolls ==
    ASSUME WatchInv, [Next]_vars, Polled
    PROVE  Poll
  <1>1. CASE PlaceCall
    BY <1>1 DEF PlaceCall, Polled
  <1>2. CASE Fails \/ TimesOut \/ Interrupted
    BY <1>2 DEF Fails, TimesOut, Interrupted, Polled
  <1>3. CASE HandlerRuns \/ LineDrops \/ SessionLost \/ UNCHANGED vars
    BY <1>3 DEF HandlerRuns, LineDrops, SessionLost, vars, client, Polled
  <1>4. QED
    BY <1>1, <1>2, <1>3 DEF Next, Watch, PollFails

LEMMA WatchInvHolds == Spec => []WatchInv
  BY InitKeeps, NextKeeps, PTL DEF Spec

(***************************************************************************)
(* The command's state is well-formed; no more polls than the deadline     *)
(* allows (watch_session).                                                 *)
(***************************************************************************)
THEOREM WatcherTypeCorrect == Spec => []TypeOK
  <1>1. WatchInv => TypeOK
    BY DEF WatchInv
  <1>2. QED
    BY <1>1, WatchInvHolds, PTL

(***************************************************************************)
(* watch_session prints no event twice and none out of order, although its *)
(* cursor is an index into a trail that may be lost and begun again behind *)
(* its back: what is past the cursor is always later than all it printed.  *)
(***************************************************************************)
THEOREM PrintedInOrderOnceHolds == Spec => []PrintedInOrderOnce
  <1>1. WatchInv => PrintedInOrderOnce
    BY DEF WatchInv, Increasing, PrintedInOrderOnce
  <1>2. QED
    BY <1>1, WatchInvHolds, PTL

(***************************************************************************)
(* As long as no session is lost, a poll of watch_session leaves the whole *)
(* trail printed: the slice from the cursor neither skips nor repeats.     *)
(***************************************************************************)
THEOREM StreamedUntilLostHolds == Spec => StreamedUntilLost
  <1>1. WatchInv /\ [Next]_vars => [Polled /\ losses = 0 => printed' = events]_vars
    BY OnlyPolls, PollPrints
  <1>2. QED
    BY <1>1, WatchInvHolds, PTL DEF Spec, StreamedUntilLost
=============================================================================
