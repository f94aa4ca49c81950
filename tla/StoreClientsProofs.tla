------------------------- MODULE StoreClientsProofs -------------------------
(***************************************************************************)
(* For any number of sessions and calls and any cap:                       *)
(*                                                                         *)
(* The index of the store leads home: by Home, that is IndexLeadsHome of a *)
(* store, and Owned, who may attach which session.  Without the latter a   *)
(* session re-attached to another call would leave an index entry behind.  *)
(*                                                                         *)
(* The list is the newest sessions in order, for any limit: the sessions   *)
(* stored are ordered by their creation, and a finite set that is ordered  *)
(* can be listed in that order.                                            *)
(***************************************************************************)
EXTENDS StoreClients, FiniteSetTheorems, WellFoundedInduction, TLAPS

Home(st) ==
    \A u \in CallUuids :
        LET s == st.call_uuid_index[u]
        IN  s # None => s \in Stored(st) /\ st.sessions[s].call_uuid = u

\* The session in a call's URLs is no other call's, by URL or attachment.
Owned(st, ids) ==
    \A u \in CallUuids :
        ids[u] # None =>
            /\ \A v \in CallUuids : ids[v] = ids[u] => v = u
            /\ st.sessions[ids[u]] = None \/ st.sessions[ids[u]].call_uuid \in {None, u}

IInv ==
    /\ store \in Store
    /\ session_ids \in [CallUuids -> SessionIds \cup {None}]
    /\ Home(store)
    /\ Owned(store, session_ids)

-----------------------------------------------------------------------------
(* Sessions *)

\* The constants' ranges, out of the assumption that also speaks of Session.
LEMMA Bounds ==
    /\ 0 \in 0..MaxInvalidInputs /\ 0 \in 0..MaxOtpAttempts
    /\ TTL \in Nat /\ 0 \in 0..(TTL + 1)
BY SessionAssumption

\* None is no id and no session.
LEMMA Nones == None \notin SessionIds /\ None \notin CallUuids /\ None \notin Session
BY SessionAssumption

\* A new CallSession, attached or not.
LEMMA NewCallSessionType ==
    ASSUME NEW call_uuid \in CallUuids \cup {None}
    PROVE  /\ NewCallSession(call_uuid) \in Session
           /\ NewCallSession(call_uuid).call_uuid = call_uuid
BY Bounds DEF NewCallSession, Session, Stages

\* Touching and attaching change the fields they name.
LEMMA TouchType ==
    ASSUME NEW session \in Session
    PROVE  Touch(session) \in Session /\ Touch(session).call_uuid = session.call_uuid
BY Bounds DEF Touch, Session

\* Attaching a session to a call leaves it a session, of that call.
LEMMA AttachType ==
    ASSUME NEW session \in Session, NEW u \in CallUuids
    PROVE  LET attached == [session EXCEPT !.call_uuid = u]
           IN  attached \in Session /\ attached.call_uuid = u
BY DEF Session

-----------------------------------------------------------------------------
(* The store's operators *)

\* Sessions are only taken out, and the index still leads home.
Shrinks(new, old) ==
    /\ new \in Store
    /\ Home(new)
    /\ \A s \in SessionIds : new.sessions[s] \in {None, old.sessions[s]}

\* Taking sessions out takes exactly their index entries along.
LEMMA RemoveShrinks ==
    ASSUME NEW st \in Store, Home(st), NEW ids
    PROVE  Shrinks(Remove(st, ids), st)
<1> DEFINE new == Remove(st, ids)
           gone == ids \cap Stored(st)
           calls_gone == {st.sessions[s].call_uuid : s \in gone}
<1>1. /\ new.sessions = [s \in SessionIds |-> IF s \in gone THEN None ELSE st.sessions[s]]
      /\ new.call_uuid_index =
            [u \in CallUuids |-> IF u \in calls_gone THEN None ELSE st.call_uuid_index[u]]
  BY DEF Remove
<1>2. new \in Store
  BY DEF Remove, Store
<1>3. ASSUME NEW u \in CallUuids, new.call_uuid_index[u] # None
      PROVE  LET s == new.call_uuid_index[u]
             IN  s \in Stored(new) /\ new.sessions[s].call_uuid = u
  <2> DEFINE s == st.call_uuid_index[u]
  <2>1. u \notin calls_gone /\ new.call_uuid_index[u] = s /\ s # None
    BY <1>1, <1>3
  <2>2. s \in Stored(st) /\ st.sessions[s].call_uuid = u
    BY <2>1 DEF Home
  <2>3. s \notin gone
    BY <2>1, <2>2
  <2>4. s \in SessionIds /\ new.sessions[s] = st.sessions[s]
    BY <1>1, <2>2, <2>3 DEF Stored
  <2> QED
    BY <2>1, <2>2, <2>4 DEF Stored
<1>4. Home(new)
  BY <1>3 DEF Home
<1> QED
  BY <1>1, <1>2, <1>4 DEF Shrinks

\* What has expired goes, with its entries.
LEMMA EvictExpiredShrinks ==
    ASSUME NEW st \in Store, Home(st)
    PROVE  Shrinks(EvictExpired(st), st)
BY RemoveShrinks DEF EvictExpired

\* Making room takes sessions out, or nothing.
LEMMA EnforceCapacityShrinks ==
    ASSUME NEW st \in Store, Home(st), NEW room \in EnforceCapacity(st)
    PROVE  Shrinks(room, st)
<1>1. Shrinks(st, st)
  BY DEF Shrinks
<1>2. room = st \/ \E ids : room = Remove(st, ids)
  BY DEF EnforceCapacity
<1> QED
  BY <1>1, <1>2, RemoveShrinks

\* A session is stored: the index stays sound unless it was another call's.
LEMMA PutHome ==
    ASSUME NEW st \in Store, Home(st), NEW s \in SessionIds, NEW session \in Session,
           st.sessions[s] = None \/ st.sessions[s].call_uuid \in {None, session.call_uuid}
    PROVE  /\ Put(st, s, session) \in Store
           /\ Home(Put(st, s, session))
           /\ Put(st, s, session).sessions[s] = session
           /\ \A t \in SessionIds \ {s} : Put(st, s, session).sessions[t] = st.sessions[t]
<1> DEFINE new == Put(st, s, session)
<1>1. /\ new \in Store
      /\ new.sessions[s] = session
      /\ \A t \in SessionIds \ {s} : new.sessions[t] = st.sessions[t]
      /\ \A u \in CallUuids :
            new.call_uuid_index[u] = IF u = session.call_uuid THEN s ELSE st.call_uuid_index[u]
  BY DEF Put, Store
<1>2. ASSUME NEW u \in CallUuids, new.call_uuid_index[u] # None
      PROVE  LET t == new.call_uuid_index[u]
             IN  t \in Stored(new) /\ new.sessions[t].call_uuid = u
  <2>1. CASE u = session.call_uuid
    BY <1>1, <2>1, Nones DEF Stored
  <2>2. CASE u # session.call_uuid
    <3> DEFINE t == st.call_uuid_index[u]
    <3>1. new.call_uuid_index[u] = t /\ t # None
      BY <1>1, <1>2, <2>2
    <3>2. t \in SessionIds /\ st.sessions[t] # None /\ st.sessions[t].call_uuid = u
      BY <3>1 DEF Home, Stored
    <3>3. t # s
      BY <2>2, <3>2, Nones
    <3> QED
      BY <1>1, <3>1, <3>2, <3>3 DEF Stored
  <2> QED
    BY <2>1, <2>2
<1>3. Home(new)
  BY <1>2 DEF Home
<1> QED
  BY <1>1, <1>3

\* create() under an id that is free: the new session, and no other that was
\* not there before.
LEMMA CreateHome ==
    ASSUME NEW st \in Store, Home(st), NEW s \in SessionIds, NEW session \in Session,
           s \notin Stored(EvictExpired(st)), NEW new \in Create(st, s, session)
    PROVE  /\ new \in Store /\ Home(new)
           /\ new.sessions[s] = session
           /\ \A t \in SessionIds \ {s} : new.sessions[t] \in {None, st.sessions[t]}
<1>1. Shrinks(EvictExpired(st), st)
  BY EvictExpiredShrinks
<1>2. PICK room \in EnforceCapacity(EvictExpired(st)) : new = Put(room, s, session)
  BY DEF Create
<1>3. Shrinks(room, EvictExpired(st))
  BY <1>1, <1>2, EnforceCapacityShrinks DEF Shrinks
<1>4. room.sessions[s] = None
  BY <1>3 DEF Shrinks, Stored
<1> QED
  BY <1>1, <1>2, <1>3, <1>4, PutHome DEF Shrinks

-----------------------------------------------------------------------------
(* Entries *)

\* What is left of a store has its entries, but for those a twin took along.
Fits(st, old) ==
    /\ Shrinks(st, old)
    /\ \A u \in CallUuids, s \in SessionIds :
          old.call_uuid_index[u] = s /\ s \in Stored(st) /\ ~HasTwin(old, u, s)
            => st.call_uuid_index[u] = s

LEMMA RemoveFits ==
    ASSUME NEW old \in Store, NEW st \in Store, Fits(st, old), NEW ids
    PROVE  Fits(Remove(st, ids), old)
<1> DEFINE new == Remove(st, ids)
           gone == ids \cap Stored(st)
           calls_gone == {st.sessions[s].call_uuid : s \in gone}
<1>1. Shrinks(new, st)
  BY RemoveShrinks DEF Fits, Shrinks
<1>2. Shrinks(new, old)
  BY <1>1 DEF Fits, Shrinks
<1>3. ASSUME NEW u \in CallUuids, NEW s \in SessionIds,
             old.call_uuid_index[u] = s, s \in Stored(new), ~HasTwin(old, u, s)
      PROVE  new.call_uuid_index[u] = s
  <2>1. s \in Stored(st) /\ s \notin gone
    BY <1>1, <1>3 DEF Shrinks, Stored, Remove
  <2>2. st.call_uuid_index[u] = s
    BY <1>3, <2>1 DEF Fits
  <2>3. u \notin calls_gone
    <3>1. ASSUME NEW t \in gone, st.sessions[t].call_uuid = u
          PROVE  FALSE
      <4>1. t \in SessionIds /\ st.sessions[t] # None /\ t # s
        BY <2>1 DEF Stored
      <4>2. st.sessions[t] = old.sessions[t]
        BY <4>1 DEF Fits, Shrinks
      <4> QED
        BY <1>3, <3>1, <4>1, <4>2 DEF HasTwin, Stored
    <3> QED
      BY <3>1
  <2> QED
    BY <2>2, <2>3 DEF Remove
<1> QED
  BY <1>2, <1>3 DEF Fits

\* Eviction, by age and for room.
LEMMA EvictionFits ==
    ASSUME NEW st \in Store, Home(st)
    PROVE  /\ Fits(st, st)
           /\ Fits(EvictExpired(st), st)
           /\ \A room \in EnforceCapacity(EvictExpired(st)) : Fits(room, st)
<1>1. Fits(st, st)
  BY DEF Fits, Shrinks
<1>2. Fits(EvictExpired(st), st)
  BY <1>1, RemoveFits DEF EvictExpired
<1>3. ASSUME NEW room \in EnforceCapacity(EvictExpired(st))
      PROVE  Fits(room, st)
  <2>1. room = EvictExpired(st) \/ \E ids : room = Remove(EvictExpired(st), ids)
    BY DEF EnforceCapacity
  <2>2. EvictExpired(st) \in Store
    BY <1>2 DEF Fits, Shrinks
  <2> QED
    BY <1>2, <2>1, <2>2, RemoveFits
<1> QED
  BY <1>1, <1>2, <1>3

\* What EntryKept says of two stores.
Kept(new, old) ==
    \A u \in CallUuids, s \in SessionIds :
        /\ old.call_uuid_index[u] = s
        /\ s \in Stored(old) \cap Stored(new)
        => new.call_uuid_index[u] = s \/ HasTwin(old, u, s) \/ HasTwin(new, u, s)

LEMMA FitsKept ==
    ASSUME NEW old, NEW new, Fits(new, old)
    PROVE  Kept(new, old)
BY DEF Fits, Kept

\* A session is put into what is left: one that was left there, or one that is
\* attached to the call it had.
LEMMA PutKept ==
    ASSUME NEW old \in Store, Home(old), NEW st \in Store, Fits(st, old),
           NEW x \in SessionIds, NEW session \in Session,
           \/ x \in Stored(st)
           \/ x \notin Stored(old)
           \/ old.sessions[x].call_uuid \in {None, session.call_uuid}
    PROVE  Kept(Put(st, x, session), old)
<1> DEFINE new == Put(st, x, session)
<1>1. /\ new.sessions[x] = session /\ session # None
      /\ \A t \in SessionIds \ {x} : new.sessions[t] = st.sessions[t]
      /\ \A u \in CallUuids :
            new.call_uuid_index[u] = IF u = session.call_uuid THEN x ELSE st.call_uuid_index[u]
  BY Nones DEF Put, Store
<1> HIDE DEF new
<1> SUFFICES ASSUME NEW u \in CallUuids, NEW s \in SessionIds,
                    old.call_uuid_index[u] = s, s \in Stored(old), s \in Stored(new),
                    ~HasTwin(old, u, s), ~HasTwin(new, u, s)
             PROVE  new.call_uuid_index[u] = s
  BY DEF Kept, new
<1>2. old.sessions[s].call_uuid = u /\ u # None
  BY Nones DEF Home
<1>3. s \in Stored(st) => st.call_uuid_index[u] = s
  BY DEF Fits
<1>4. CASE s # x
  <2>1. s \in Stored(st)
    BY <1>1, <1>4 DEF Stored
  <2>2. u # session.call_uuid
    BY <1>1, <1>4 DEF HasTwin, Stored
  <2> QED
    BY <1>1, <1>3, <2>1, <2>2
<1>5. CASE s = x
  BY <1>1, <1>2, <1>3, <1>5
<1> QED
  BY <1>4, <1>5

\* A session that was found is saved.
LEMMA FoundKept ==
    ASSUME IInv, NEW u \in CallUuids, NEW x \in SessionIds, x \in Stored(EvictExpired(store)),
           Found(EvictExpired(store), x, u)
    PROVE  Kept(store', store)
<1> DEFINE st == EvictExpired(store)
<1>1. Fits(st, store) /\ st \in Store
  BY EvictionFits DEF IInv, Fits, Shrinks
<1>2. st.sessions[x] \in Session
  BY <1>1 DEF Stored, Store
<1>3. PICK session \in {st.sessions[x], [st.sessions[x] EXCEPT !.call_uuid = u]} :
          store' = Put(st, x, Touch(session))
  BY DEF Found, Saved, Save
<1>4. session \in Session
  BY <1>2, <1>3, AttachType
<1>5. Touch(session) \in Session
  BY <1>4, TouchType
<1> QED
  BY <1>1, <1>3, <1>5, PutKept DEF IInv

\* Storing a session and saving it at once is storing it touched.
LEMMA PutTwice ==
    ASSUME NEW st \in Store, NEW x \in SessionIds, NEW a, NEW b, a.call_uuid = b.call_uuid
    PROVE  Put(Put(st, x, a), x, b) = Put(st, x, b)
<1>1. [[st.sessions EXCEPT ![x] = a] EXCEPT ![x] = b] = [st.sessions EXCEPT ![x] = b]
  BY DEF Store
<1> QED
  BY <1>1 DEF Put

\* A session that was lost is created anew for the call it had, if any.
LEMMA RecreatedKept ==
    ASSUME IInv, NEW u \in CallUuids, NEW x \in SessionIds, Recreated(x, u),
           x \notin Stored(EvictExpired(store)),
           x \notin Stored(store) \/ store.sessions[x].call_uuid \in {None, u}
    PROVE  Kept(store', store)
<1> DEFINE session == NewCallSession(u)
<1>1. PICK st \in Create(store, x, session) : store' = Put(st, x, Touch(st.sessions[x]))
  BY DEF Recreated, Save
<1>2. PICK room \in EnforceCapacity(EvictExpired(store)) : st = Put(room, x, session)
  BY <1>1 DEF Create
<1>3. Fits(room, store) /\ room \in Store
  BY <1>2, EvictionFits DEF IInv, Fits, Shrinks
<1>4. st.sessions[x] = session
  BY <1>2, <1>3 DEF Put, Store
<1>5. /\ session.call_uuid = u
      /\ Touch(session) \in Session /\ Touch(session).call_uuid = u
  BY NewCallSessionType, TouchType
<1>6. store' = Put(room, x, Touch(session))
  BY <1>1, <1>2, <1>3, <1>4, <1>5, PutTwice
<1> QED
  BY <1>3, <1>5, <1>6, PutKept DEF IInv

-----------------------------------------------------------------------------
(* The clients *)

\* Taking sessions out disturbs nobody.
LEMMA ShrinksKeeps ==
    ASSUME IInv, Shrinks(store', store), UNCHANGED session_ids
    PROVE  IInv'
<1>1. Owned(store, session_ids)'
  BY DEF IInv, Owned, Shrinks
<1> QED
  BY <1>1 DEF IInv, Shrinks

\* place_outbound_call stores an unattached session under an id nobody has.
LEMMA PlaceCallKeeps ==
    ASSUME IInv, NEW u \in CallUuids, PlaceCall(u)
    PROVE  IInv'
<1>1. PICK s \in SessionIds :
          /\ Fresh(s)
          /\ store' \in Create(store, s, NewCallSession(None))
          /\ session_ids' = [session_ids EXCEPT ![u] = s]
  BY DEF PlaceCall
<1>2. s \notin Stored(EvictExpired(store)) /\ \A v \in CallUuids : session_ids[v] # s
  BY <1>1, EvictExpiredShrinks DEF Fresh, IInv, Shrinks, Stored
<1>3. /\ store' \in Store /\ Home(store')
      /\ store'.sessions[s] = NewCallSession(None)
      /\ \A t \in SessionIds \ {s} : store'.sessions[t] \in {None, store.sessions[t]}
  BY <1>1, <1>2, CreateHome, NewCallSessionType DEF IInv
<1>4. store'.sessions[s].call_uuid = None
  BY <1>3, NewCallSessionType
<1>5. /\ session_ids' \in [CallUuids -> SessionIds \cup {None}]
      /\ session_ids'[u] = s
      /\ \A v \in CallUuids \ {u} : session_ids'[v] = session_ids[v]
  BY <1>1 DEF IInv
<1>6. Owned(store', session_ids')
  BY <1>2, <1>3, <1>4, <1>5 DEF Owned, IInv
<1> QED
  BY <1>3, <1>5, <1>6 DEF IInv

\* A session found is saved, attached to the call or as it was.
LEMMA FoundKeeps ==
    ASSUME IInv, NEW u \in CallUuids, NEW s \in SessionIds, UNCHANGED session_ids,
           s \in Stored(EvictExpired(store)),
           session_ids[u] = s \/ GetByCallUuid(EvictExpired(store), u) = s,
           Found(EvictExpired(store), s, u)
    PROVE  IInv'
<1> DEFINE st == EvictExpired(store)
<1>1. Shrinks(st, store)
  BY EvictExpiredShrinks DEF IInv
<1>2. st.sessions[s] = store.sessions[s] /\ st.sessions[s] \in Session
  BY <1>1 DEF Shrinks, Stored, Store
<1>3. PICK session \in {st.sessions[s], [st.sessions[s] EXCEPT !.call_uuid = u]} :
          store' = Put(st, s, Touch(session))
  BY DEF Found, Saved, Save
<1>4. /\ Touch(session) \in Session
      /\ Touch(session).call_uuid \in {st.sessions[s].call_uuid, u}
  <2> DEFINE found == st.sessions[s]
             attached == [found EXCEPT !.call_uuid = u]
  <2>1. found \in Session /\ attached \in Session /\ attached.call_uuid = u
    BY <1>2, AttachType
  <2>2. session = found \/ session = attached
    BY <1>3
  <2> HIDE DEF found, attached
  <2>3. session \in Session /\ session.call_uuid \in {found.call_uuid, u}
    BY <2>1, <2>2
  <2>4. Touch(session) \in Session /\ Touch(session).call_uuid = session.call_uuid
    BY <2>3, TouchType
  <2> QED
    BY <2>3, <2>4 DEF found
<1>5. \/ session_ids[u] = s /\ st.sessions[s].call_uuid \in {None, u}
      \/ st.sessions[s].call_uuid = u
  <2>1. CASE session_ids[u] = s
    BY <1>2, <2>1, Nones DEF IInv, Owned
  <2>2. CASE GetByCallUuid(st, u) = s
    <3>1. st.call_uuid_index[u] = s
      BY <2>2, Nones DEF GetByCallUuid
    <3> QED
      BY <1>1, <3>1, Nones DEF Shrinks, Home
  <2> QED
    BY <2>1, <2>2
<1>6. /\ store' \in Store /\ Home(store')
      /\ store'.sessions[s] = Touch(session)
      /\ \A t \in SessionIds \ {s} : store'.sessions[t] = st.sessions[t]
  BY <1>1, <1>3, <1>4, <1>5, PutHome DEF Shrinks
<1>7. ASSUME NEW v \in CallUuids, session_ids[v] # None
      PROVE  LET t == session_ids[v]
             IN  store'.sessions[t] = None \/ store'.sessions[t].call_uuid \in {None, v}
  <2>1. CASE session_ids[v] = s
    <3>1. st.sessions[s].call_uuid \in {None, v}
      BY <1>2, <1>7, <2>1, Nones DEF IInv, Owned
    <3>2. session_ids[u] = s => u = v
      BY <1>7, <2>1 DEF IInv, Owned
    <3>3. Touch(session).call_uuid \in {None, v}
      BY <1>4, <1>5, <3>1, <3>2, Nones
    <3> QED
      BY <1>6, <2>1, <3>3
  <2>2. CASE session_ids[v] # s
    <3>1. session_ids[v] \in SessionIds \ {s}
      BY <1>7, <2>2 DEF IInv
    <3>2. store'.sessions[session_ids[v]] \in {None, store.sessions[session_ids[v]]}
      BY <1>1, <1>6, <3>1 DEF Shrinks
    <3> QED
      BY <1>7, <3>2 DEF IInv, Owned
  <2> QED
    BY <2>1, <2>2
<1>8. Owned(store', session_ids')
  BY <1>7 DEF IInv, Owned
<1> QED
  BY <1>6, <1>8 DEF IInv

\* A session that was lost is created anew, attached from the start.
LEMMA RecreatedKeeps ==
    ASSUME IInv, NEW u \in CallUuids, NEW s \in SessionIds, UNCHANGED session_ids,
           s \notin Stored(EvictExpired(store)),
           \A v \in CallUuids : session_ids[v] = s => v = u,
           Recreated(s, u)
    PROVE  IInv'
<1>1. PICK st \in Create(store, s, NewCallSession(u)) : store' = Put(st, s, Touch(st.sessions[s]))
  BY DEF Recreated, Save
<1>2. NewCallSession(u) \in Session /\ NewCallSession(u).call_uuid = u
  BY NewCallSessionType
<1>3. /\ st \in Store /\ Home(st)
      /\ st.sessions[s] = NewCallSession(u)
      /\ \A t \in SessionIds \ {s} : st.sessions[t] \in {None, store.sessions[t]}
  BY <1>1, <1>2, CreateHome DEF IInv
<1>4. Touch(st.sessions[s]) \in Session /\ Touch(st.sessions[s]).call_uuid = u
  BY <1>2, <1>3, TouchType
<1>5. /\ store' \in Store /\ Home(store')
      /\ store'.sessions[s].call_uuid = u
      /\ \A t \in SessionIds \ {s} : store'.sessions[t] \in {None, store.sessions[t]}
  BY <1>1, <1>2, <1>3, <1>4, PutHome
<1>6. Owned(store', session_ids')
  BY <1>5 DEF IInv, Owned
<1> QED
  BY <1>5, <1>6 DEF IInv

\* A webhook gets its own session, its call's, or a new one under its id.
LEMMA WebhookKeeps ==
    ASSUME IInv, NEW u \in CallUuids, Webhook(u)
    PROVE  IInv'
<1> DEFINE st == EvictExpired(store)
           s == session_ids[u]
           by_call == GetByCallUuid(st, u)
<1>1. s \in SessionIds /\ UNCHANGED session_ids
  BY DEF Webhook, IInv
<1>2. by_call # None => by_call \in Stored(st) /\ by_call \in SessionIds
  BY DEF GetByCallUuid, Stored
<1>3. \/ s \in Stored(st) /\ Found(st, s, u)
      \/ s \notin Stored(st) /\ by_call # None /\ Found(st, by_call, u)
      \/ s \notin Stored(st) /\ by_call = None /\ Recreated(s, u)
  BY DEF Webhook
<1>4. CASE s \in Stored(st) /\ Found(st, s, u)
  BY <1>1, <1>4, FoundKeeps
<1>5. CASE by_call # None /\ Found(st, by_call, u)
  BY <1>1, <1>2, <1>5, FoundKeeps
<1>6. CASE s \notin Stored(st) /\ Recreated(s, u)
  <2>1. \A v \in CallUuids : session_ids[v] = s => v = u
    BY <1>1, Nones DEF IInv, Owned
  <2> QED
    BY <1>1, <1>6, <2>1, RecreatedKeeps
<1> QED
  BY <1>3, <1>4, <1>5, <1>6

\* An event without our id gets its call's session, or a new one.
LEMMA ForeignEventKeeps ==
    ASSUME IInv, NEW u \in CallUuids, ForeignEvent(u)
    PROVE  IInv'
<1> DEFINE st == EvictExpired(store)
           by_call == GetByCallUuid(st, u)
<1>1. UNCHANGED session_ids
  BY DEF ForeignEvent
<1>2. by_call # None => by_call \in Stored(st) /\ by_call \in SessionIds
  BY DEF GetByCallUuid, Stored
<1>3. CASE by_call # None /\ Found(st, by_call, u)
  BY <1>1, <1>2, <1>3, FoundKeeps
<1>4. ASSUME NEW s \in SessionIds, Fresh(s), Recreated(s, u)
      PROVE  IInv'
  <2>1. s \notin Stored(st) /\ \A v \in CallUuids : session_ids[v] # s
    BY <1>4, EvictExpiredShrinks DEF Fresh, IInv, Shrinks, Stored
  <2> QED
    BY <1>1, <1>4, <2>1, RecreatedKeeps
<1> QED
  BY <1>3, <1>4 DEF ForeignEvent

\* Maintenance, reading, and the clock.
LEMMA OthersKeep ==
    ASSUME IInv, Read \/ Clear \/ Tick \/ \E s \in SessionIds : DeleteSession(s)
    PROVE  IInv'
<1>1. CASE Read
  BY <1>1, EvictExpiredShrinks, ShrinksKeeps DEF Read, IInv
<1>2. CASE Clear
  <2>1. EmptyStore \in Store /\ Home(EmptyStore)
    BY DEF EmptyStore, Store, Home
  <2> QED
    BY <1>2, <2>1, ShrinksKeeps DEF Clear, Shrinks, EmptyStore
<1>3. CASE \E s \in SessionIds : DeleteSession(s)
  BY <1>3, RemoveShrinks, ShrinksKeeps DEF DeleteSession, Delete, IInv
<1>4. CASE Tick
  <2>1. store' = Age(store) /\ UNCHANGED session_ids
    BY <1>4 DEF Tick
  <2>2. ASSUME NEW s \in SessionIds, store.sessions[s] # None
        PROVE  /\ store'.sessions[s] \in Session
               /\ store'.sessions[s].call_uuid = store.sessions[s].call_uuid
    <3>1. store.sessions[s] \in Session
      BY <2>2 DEF IInv, Store
    <3>2. CountUpTo(store.sessions[s].idle, TTL + 1) \in 0..(TTL + 1)
      BY <3>1, Bounds DEF CountUpTo, Session
    <3>3. store'.sessions[s] =
             [store.sessions[s] EXCEPT !.idle = CountUpTo(store.sessions[s].idle, TTL + 1)]
      BY <2>1, <2>2 DEF Age, IInv, Store
    <3> QED
      BY <3>1, <3>2, <3>3 DEF Session
  <2>3. /\ store'.call_uuid_index = store.call_uuid_index
        /\ \A s \in SessionIds : store.sessions[s] = None => store'.sessions[s] = None
        /\ store' = [sessions |-> store'.sessions, call_uuid_index |-> store'.call_uuid_index]
        /\ store'.sessions = [s \in SessionIds |-> store'.sessions[s]]
    BY <2>1 DEF Age, IInv, Store
  <2>4. store' \in Store
    <3>1. store'.sessions \in [SessionIds -> Session \cup {None}]
      BY <2>2, <2>3
    <3> QED
      BY <2>3, <3>1 DEF IInv, Store
  <2>5. Home(store')
    BY <2>2, <2>3, Nones DEF IInv, Home, Stored
  <2>6. Owned(store', session_ids')
    BY <2>1, <2>2, <2>3 DEF IInv, Owned
  <2> QED
    BY <2>1, <2>4, <2>5, <2>6 DEF IInv
<1> QED
  BY <1>1, <1>2, <1>3, <1>4

\* An empty store has no entry to lead astray.
LEMMA InitIInv == Init => IInv
<1> SUFFICES ASSUME Init
             PROVE  IInv
  OBVIOUS
<1>1. store \in Store /\ Home(store)
  BY DEF Init, EmptyStore, Store, Home
<1> QED
  BY <1>1 DEF Init, IInv, Owned

\* Every step keeps the invariant.
LEMMA NextKeeps == IInv /\ [Next]_vars => IInv'
<1> SUFFICES ASSUME IInv, [Next]_vars
             PROVE  IInv'
  OBVIOUS
<1>1. CASE Next
  BY <1>1, PlaceCallKeeps, WebhookKeeps, ForeignEventKeeps, OthersKeep DEF Next
<1>2. CASE UNCHANGED vars
  BY <1>2 DEF vars, IInv
<1> QED
  BY <1>1, <1>2

(***************************************************************************)
(* Whatever is stored, attached, deleted, evicted or expired by whomever,  *)
(* the index from Plivo's call id leads nowhere or to that call's session. *)
(***************************************************************************)
THEOREM IndexLeadsHomeHolds == Spec => []IndexLeadsHome
<1>1. IInv => IndexLeadsHome
  BY DEF IInv, IndexLeadsHome, Home
<1>2. Spec => []IInv
  BY InitIInv, NextKeeps, PTL DEF Spec
<1> QED
  BY <1>1, <1>2, PTL

-----------------------------------------------------------------------------
(* Every step keeps the entries *)

\* POST /api/calls stores an unattached session, which is nobody's twin.
LEMMA PlaceCallKept ==
    ASSUME IInv, NEW u \in CallUuids, PlaceCall(u)
    PROVE  Kept(store', store)
<1>1. PICK x \in SessionIds : Fresh(x) /\ store' \in Create(store, x, NewCallSession(None))
  BY DEF PlaceCall
<1>2. PICK room \in EnforceCapacity(EvictExpired(store)) :
          store' = Put(room, x, NewCallSession(None))
  BY <1>1 DEF Create
<1>3. Fits(room, store) /\ room \in Store
  BY <1>2, EvictionFits DEF IInv, Fits, Shrinks
<1>4. x \notin Stored(store) /\ NewCallSession(None) \in Session
  BY <1>1, NewCallSessionType DEF Fresh
<1> QED
  BY <1>2, <1>3, <1>4, PutKept DEF IInv

\* A webhook or an event saves the session it finds, or one under an id that
\* was this call's or nobody's.
LEMMA EventKept ==
    ASSUME IInv, NEW u \in CallUuids, Webhook(u) \/ ForeignEvent(u)
    PROVE  Kept(store', store)
<1> DEFINE st == EvictExpired(store)
           by_call == GetByCallUuid(st, u)
<1>1. by_call # None => by_call \in Stored(st)
  BY DEF GetByCallUuid
<1>2. Stored(st) \subseteq SessionIds
  BY DEF Stored
<1>3. CASE \E x \in Stored(st) : Found(st, x, u)
  BY <1>2, <1>3, FoundKept
<1>4. ASSUME NEW x \in SessionIds, x = session_ids[u] \/ Fresh(x),
             x \notin Stored(st), Recreated(x, u)
      PROVE  Kept(store', store)
  <2>1. x \notin Stored(store) \/ store.sessions[x].call_uuid \in {None, u}
    <3>1. CASE Fresh(x)
      BY <3>1 DEF Fresh
    <3>2. CASE x = session_ids[u]
      BY <3>2, Nones DEF IInv, Owned, Stored
    <3> QED
      BY <1>4, <3>1, <3>2
  <2> QED
    BY <1>4, <2>1, RecreatedKept
<1>5. \A x : Fresh(x) => x \notin Stored(st)
  BY EvictExpiredShrinks DEF Fresh, IInv, Shrinks, Stored
<1>6. CASE Webhook(u)
  <2>1. session_ids[u] \in SessionIds
    BY <1>6 DEF Webhook, IInv
  <2> QED
    BY <1>1, <1>3, <1>4, <1>6, <2>1 DEF Webhook
<1>7. CASE ForeignEvent(u)
  BY <1>1, <1>3, <1>4, <1>5, <1>7 DEF ForeignEvent
<1> QED
  BY <1>6, <1>7

LEMMA NextKept ==
    ASSUME IInv, [Next]_vars
    PROVE  Kept(store', store)
<1>1. Fits(store, store) /\ Fits(EvictExpired(store), store)
  BY EvictionFits DEF IInv
<1>2. CASE UNCHANGED vars
  BY <1>1, <1>2, FitsKept DEF vars
<1>3. CASE \E u \in CallUuids : PlaceCall(u) \/ Webhook(u) \/ ForeignEvent(u)
  BY <1>3, PlaceCallKept, EventKept
<1>4. CASE Read
  BY <1>1, <1>4, FitsKept DEF Read
<1>5. CASE \E s \in SessionIds : DeleteSession(s)
  BY <1>1, <1>5, RemoveFits, FitsKept DEF DeleteSession, Delete, IInv
<1>6. CASE Clear
  BY <1>6 DEF Clear, EmptyStore, Stored, Kept
<1>7. CASE Tick
  <2>1. store'.call_uuid_index = store.call_uuid_index
    BY <1>7 DEF Tick, Age, IInv, Store
  <2> QED
    BY <2>1 DEF Kept
<1> QED
  BY <1>2, <1>3, <1>4, <1>5, <1>6, <1>7 DEF Next

(***************************************************************************)
(* A stored session keeps its index entry through every create, save,      *)
(* delete, expiry and eviction, until another session of the same call is  *)
(* or was stored beside it.                                                *)
(***************************************************************************)
THEOREM EntryKeptHolds == Spec => EntryKept
<1>1. IInv /\ [Next]_vars
        => [\A u \in CallUuids, s \in SessionIds :
              /\ store.call_uuid_index[u] = s
              /\ s \in Stored(store) \cap Stored(store')
              => \/ store'.call_uuid_index[u] = s
                 \/ HasTwin(store, u, s)
                 \/ HasTwin(store', u, s)]_vars
  BY NextKept DEF Kept
<1>2. Spec => []IInv
  BY InitIInv, NextKeeps, PTL DEF Spec
<1> QED
  BY <1>1, <1>2, PTL DEF Spec, EntryKept

-----------------------------------------------------------------------------
(* Finite sets that are ordered *)

\* One before the other, never both, and across a third.
Ordered(before, S) ==
    /\ \A s, t \in S : s # t => <<s, t>> \in before \/ <<t, s>> \in before
    /\ \A s, t \in S : <<s, t>> \in before => <<t, s>> \notin before
    /\ \A s, t, u \in S : <<s, t>> \in before /\ <<t, u>> \in before => <<s, u>> \in before

\* The newest first.
Lists(before, listed, S) ==
    /\ listed \in [1..Cardinality(S) -> S]
    /\ \A i, j \in DOMAIN listed : i < j => <<listed[j], listed[i]>> \in before
    /\ \A s \in S : \E i \in DOMAIN listed : listed[i] = s

\* Of any family of subsets of a finite set, one has no other in it: this is
\* induction over finite sets.
LEMMA SmallestSet ==
    ASSUME NEW S, IsFiniteSet(S), NEW family, family \subseteq SUBSET S, family # {}
    PROVE  \E T \in family : \A U \in family : U \subseteq T => U = T
<1>1. IsWellFoundedOn(StrictSubsetOrdering(S), SUBSET S)
  BY FS_StrictSubsetOrderingWellFounded, FS_FiniteSubsetsOfFinite
<1>2. PICK T \in family : \A U \in family : ~ (<<U, T>> \in StrictSubsetOrdering(S))
  BY <1>1, WFMin
<1>3. QED
  BY <1>2 DEF StrictSubsetOrdering

\* One of them is the newest.
LEMMA NewestExists ==
    ASSUME NEW S, IsFiniteSet(S), S # {}, NEW before, Ordered(before, S)
    PROVE  \E s \in S : \A t \in S \ {s} : <<t, s>> \in before
<1> DEFINE family == {T \in SUBSET S : T # {} /\ ~ \E s \in T : \A t \in T \ {s} : <<t, s>> \in before}
<1>1. ASSUME family # {}
      PROVE  FALSE
  <2>1. PICK T \in family : \A U \in family : U \subseteq T => U = T
    <3>1. family \subseteq SUBSET S
      OBVIOUS
    <3> HIDE DEF family
    <3>2. QED
      BY <1>1, <3>1, SmallestSet
  <2>2. PICK a \in T : TRUE
    BY <2>1
  <2>3. T \ {a} # {}
    BY <2>1, <2>2
  <2>4. PICK s \in T \ {a} : \A t \in (T \ {a}) \ {s} : <<t, s>> \in before
    <3>1. T \ {a} \in SUBSET S /\ T \ {a} \notin family
      <4>1. T \ {a} \subseteq T /\ T \ {a} # T /\ T \in SUBSET S
        BY <2>2
      <4>2. QED
        BY <2>1, <4>1
    <3>2. QED
      BY <2>3, <3>1
  <2>5. CASE <<a, s>> \in before
    BY <2>1, <2>4, <2>5
  <2>6. CASE <<s, a>> \in before
    <3>1. \A t \in T \ {a} : <<t, a>> \in before
      BY <2>1, <2>2, <2>4, <2>6 DEF Ordered
    <3>2. QED
      BY <2>1, <2>2, <3>1
  <2>7. QED
    BY <2>1, <2>2, <2>4, <2>5, <2>6 DEF Ordered
<1>2. S \notin family
  BY <1>1
<1>3. QED
  BY <1>2

\* All of them can be listed, the newest first.
LEMMA ListExists ==
    ASSUME NEW S, IsFiniteSet(S), NEW before, Ordered(before, S)
    PROVE  \E listed : Lists(before, listed, S)
<1> DEFINE family == {T \in SUBSET S : ~ \E listed : Lists(before, listed, T)}
<1>1. ASSUME family # {}
      PROVE  FALSE
  <2>1. PICK T \in family : \A U \in family : U \subseteq T => U = T
    <3>1. family \subseteq SUBSET S
      OBVIOUS
    <3> HIDE DEF family
    <3>2. QED
      BY <1>1, <3>1, SmallestSet
  <2>2. T \in SUBSET S /\ IsFiniteSet(T) /\ Ordered(before, T)
    BY <2>1, FS_Subset DEF Ordered
  <2>3. T # {}
    <3>1. Lists(before, [i \in {} |-> i], {})
      BY FS_EmptySet DEF Lists
    <3>2. QED
      BY <2>1, <3>1
  <2>4. PICK s \in T : \A t \in T \ {s} : <<t, s>> \in before
    BY <2>2, <2>3, NewestExists
  <2>5. PICK rest : Lists(before, rest, T \ {s})
    BY <2>1, <2>4
  <2>6. /\ Cardinality(T \ {s}) = Cardinality(T) - 1
        /\ Cardinality(T) \in Nat /\ Cardinality(T \ {s}) \in Nat
    BY <2>2, <2>4, FS_RemoveElement, FS_CardinalityType
  <2> DEFINE n == Cardinality(T)
             listed == [i \in 1..n |-> IF i = 1 THEN s ELSE rest[i - 1]]
  <2>7. /\ rest \in [1..(n - 1) -> T \ {s}]
        /\ \A i, j \in 1..(n - 1) : i < j => <<rest[j], rest[i]>> \in before
        /\ \A t \in T \ {s} : \E i \in 1..(n - 1) : rest[i] = t
    BY <2>5, <2>6 DEF Lists
  <2>8. n \in Nat /\ 1 \in 1..n
    <3>1. n - 1 \in Nat
      BY <2>6
    <3>2. QED
      BY <2>6, <3>1
  <2> HIDE DEF n
  <2>9. listed \in [1..n -> T]
    BY <2>4, <2>7, <2>8
  <2>10. ASSUME NEW i \in 1..n, NEW j \in 1..n, i < j
         PROVE  <<listed[j], listed[i]>> \in before
    <3>1. j - 1 \in 1..(n - 1) /\ listed[j] = rest[j - 1] /\ rest[j - 1] \in T \ {s}
      BY <2>7, <2>8, <2>10
    <3>2. CASE i = 1
      BY <2>4, <3>1, <3>2
    <3>3. CASE i # 1
      BY <2>7, <2>8, <2>10, <3>1, <3>3
    <3>4. QED
      BY <3>2, <3>3
  <2>11. ASSUME NEW t \in T
         PROVE  \E i \in 1..n : listed[i] = t
    <3>1. CASE t = s
      BY <2>8, <3>1
    <3>2. CASE t # s
      <4>1. PICK i \in 1..(n - 1) : rest[i] = t
        BY <2>7, <3>2
      <4>2. i + 1 \in 1..n /\ listed[i + 1] = t
        BY <2>8, <4>1
      <4>3. QED
        BY <4>2
    <3>3. QED
      BY <3>1, <3>2
  <2>12. Lists(before, listed, T)
    BY <2>9, <2>10, <2>11 DEF Lists, n
  <2>13. QED
    BY <2>1, <2>12
<1>2. S \notin family
  BY <1>1
<1>3. QED
  BY <1>2

-----------------------------------------------------------------------------
(* The sessions stored are ordered by their creation *)

\* An order orders every part of a set.
LEMMA OrderedPart ==
    ASSUME NEW before, NEW S, Ordered(before, S), NEW T, T \subseteq S
    PROVE  Ordered(before, T)
BY DEF Ordered

\* What is created now comes after all others.
LEMMA NowCreatedOrdered ==
    ASSUME NEW S, S \subseteq SessionIds, Ordered(older, S), NEW s \in SessionIds, NowCreated(s),
           NEW T, T \subseteq S \cup {s}
    PROVE  Ordered(older', T)
<1>1. \A a, b \in SessionIds \ {s} : <<a, b>> \in older' <=> <<a, b>> \in older
  BY DEF NowCreated
<1>2. \A a \in SessionIds \ {s} : <<a, s>> \in older' /\ <<s, a>> \notin older'
  BY DEF NowCreated
<1>3. <<s, s>> \notin older'
  BY DEF NowCreated
<1>4. \A a, b \in T : a # b => <<a, b>> \in older' \/ <<b, a>> \in older'
  BY <1>1, <1>2 DEF Ordered
<1>5. \A a, b \in T : <<a, b>> \in older' => <<b, a>> \notin older'
  BY <1>1, <1>2, <1>3 DEF Ordered
<1>6. \A a, b, c \in T : <<a, b>> \in older' /\ <<b, c>> \in older' => <<a, c>> \in older'
  BY <1>1, <1>2, <1>3 DEF Ordered
<1>7. QED
  BY <1>4, <1>5, <1>6 DEF Ordered

\* What a step does to the sessions stored: none comes, or one, the youngest.
Comes ==
    \/ UNCHANGED older /\ Stored(store') \subseteq Stored(store)
    \/ \E s \in SessionIds : NowCreated(s) /\ Stored(store') \subseteq Stored(store) \cup {s}

\* A session found is stored already.
LEMMA FoundComes ==
    ASSUME IInv, NEW u \in CallUuids, NEW s, s \in Stored(EvictExpired(store)),
           Found(EvictExpired(store), s, u)
    PROVE  Comes
<1> DEFINE st == EvictExpired(store)
<1>1. Shrinks(st, store)
  BY EvictExpiredShrinks DEF IInv
<1>2. PICK session : store' = Put(st, s, session)
  BY DEF Found, Saved, Save
<1>3. \A t \in SessionIds \ {s} : store'.sessions[t] = st.sessions[t]
  BY <1>1, <1>2 DEF Put, Shrinks, Store
<1>4. Stored(store') \subseteq Stored(store)
  BY <1>1, <1>3 DEF Stored, Shrinks
<1>5. QED
  BY <1>4 DEF Comes, Found

\* A session recreated is the only one that comes.
LEMMA RecreatedComes ==
    ASSUME IInv, NEW u \in CallUuids, NEW s \in SessionIds,
           s \notin Stored(EvictExpired(store)), Recreated(s, u)
    PROVE  Comes
<1>1. PICK st \in Create(store, s, NewCallSession(u)) : store' = Put(st, s, Touch(st.sessions[s]))
  BY DEF Recreated, Save
<1>2. /\ st \in Store
      /\ \A t \in SessionIds \ {s} : st.sessions[t] \in {None, store.sessions[t]}
  BY <1>1, NewCallSessionType, CreateHome DEF IInv
<1>3. \A t \in SessionIds \ {s} : store'.sessions[t] = st.sessions[t]
  BY <1>1, <1>2 DEF Put, Store
<1>4. Stored(store') \subseteq Stored(store) \cup {s}
  BY <1>2, <1>3 DEF Stored
<1>5. QED
  BY <1>4 DEF Comes, Recreated

\* So it is with every step.
LEMMA NextComes ==
    ASSUME IInv, Next
    PROVE  Comes
<1> DEFINE st == EvictExpired(store)
<1>1. \A new : Shrinks(new, store) => Stored(new) \subseteq Stored(store)
  BY DEF Shrinks, Stored
<1>2. ASSUME NEW u \in CallUuids, PlaceCall(u)
      PROVE  Comes
  <2>1. PICK s \in SessionIds :
           /\ Fresh(s)
           /\ store' \in Create(store, s, NewCallSession(None))
           /\ NowCreated(s)
    BY <1>2 DEF PlaceCall
  <2>2. s \notin Stored(st)
    BY <2>1, EvictExpiredShrinks DEF Fresh, IInv, Shrinks, Stored
  <2>3. \A t \in SessionIds \ {s} : store'.sessions[t] \in {None, store.sessions[t]}
    BY <2>1, <2>2, CreateHome, NewCallSessionType DEF IInv
  <2>4. Stored(store') \subseteq Stored(store) \cup {s}
    BY <2>3 DEF Stored
  <2>5. QED
    BY <2>1, <2>4 DEF Comes
<1>3. ASSUME NEW u \in CallUuids, Webhook(u) \/ ForeignEvent(u)
      PROVE  Comes
  <2> DEFINE by_call == GetByCallUuid(st, u)
  <2>1. by_call # None => by_call \in Stored(st)
    BY DEF GetByCallUuid
  <2>2. session_ids[u] # None => session_ids[u] \in SessionIds
    BY DEF IInv
  <2>3. CASE \E s \in Stored(st) : Found(st, s, u)
    BY <2>3, FoundComes
  <2>4. ASSUME NEW s \in SessionIds, s \notin Stored(st), Recreated(s, u)
        PROVE  Comes
    BY <2>4, RecreatedComes
  <2>5. \A s : Fresh(s) => s \notin Stored(st)
    BY EvictExpiredShrinks DEF Fresh, IInv, Shrinks, Stored
  <2>6. CASE Webhook(u)
    BY <2>1, <2>2, <2>3, <2>4, <2>6 DEF Webhook
  <2>7. CASE ForeignEvent(u)
    BY <2>1, <2>3, <2>4, <2>5, <2>7 DEF ForeignEvent
  <2>8. QED
    BY <1>3, <2>6, <2>7
<1>4. CASE Read
  BY <1>1, <1>4, EvictExpiredShrinks DEF Read, IInv, Comes
<1>5. ASSUME NEW s \in SessionIds, DeleteSession(s)
      PROVE  Comes
  BY <1>1, <1>5, RemoveShrinks DEF DeleteSession, Delete, IInv, Comes
<1>6. CASE Clear
  BY <1>6 DEF Clear, Stored, EmptyStore, Comes
<1>7. CASE Tick
  <2>1. store' = Age(store) /\ UNCHANGED older
    BY <1>7 DEF Tick
  <2>2. \A s \in SessionIds : store.sessions[s] = None => store'.sessions[s] = None
    BY <2>1 DEF Age, IInv, Store
  <2>3. QED
    BY <2>1, <2>2 DEF Stored, Comes
<1>8. QED
  BY <1>2, <1>3, <1>4, <1>5, <1>6, <1>7 DEF Next

\* The sessions stored are always ordered.
Timeline == IInv /\ Ordered(older, Stored(store))

LEMMA TimelineHolds == Spec => []Timeline
<1>1. Init => Timeline
  BY InitIInv DEF Init, Timeline, Ordered, EmptyStore, Stored
<1>2. ASSUME Timeline, [Next]_vars
      PROVE  Timeline'
  <2>1. IInv'
    BY <1>2, NextKeeps DEF Timeline
  <2>2. Comes
    <3>1. CASE UNCHANGED vars
      BY <3>1 DEF vars, Comes
    <3>2. QED
      BY <1>2, <3>1, NextComes DEF Timeline
  <2>3. Stored(store) \subseteq SessionIds
    BY DEF Stored
  <2>4. Ordered(older', Stored(store'))
    BY <1>2, <2>2, <2>3, OrderedPart, NowCreatedOrdered DEF Comes, Timeline
  <2>5. QED
    BY <2>1, <2>4 DEF Timeline
<1>3. QED
  BY <1>1, <1>2, PTL DEF Spec

-----------------------------------------------------------------------------
(* The list *)

\* The smaller and the larger of two.
LEMMA MinMax ==
    ASSUME NEW a \in Int, NEW b \in Int
    PROVE  /\ Min({a, b}) = IF a <= b THEN a ELSE b
           /\ Max({a, b}) = IF a <= b THEN b ELSE a
<1>1. \E x \in {a, b} : \A y \in {a, b} : x <= y
  BY a <= b \/ b <= a
<1>2. Min({a, b}) \in {a, b} /\ \A y \in {a, b} : Min({a, b}) <= y
  BY <1>1 DEF Min
<1>3. \E x \in {a, b} : \A y \in {a, b} : x >= y
  BY a <= b \/ b <= a
<1>4. Max({a, b}) \in {a, b} /\ \A y \in {a, b} : Max({a, b}) >= y
  BY <1>3 DEF Max
<1>5. QED
  BY <1>2, <1>4

\* max(1, min(limit, MaxListed))
LEMMA LimitBounded ==
    ASSUME NEW limit \in Int
    PROVE  BoundedLimit(limit) \in 1..MaxListed
<1> DEFINE low == Min({limit, MaxListed})
<1>0. MaxListed \in Nat \ {0}
  BY ClientsAssumption
<1>1. low \in Int /\ low <= MaxListed
  BY <1>0, MinMax
<1>2. BoundedLimit(limit) = Max({1, low})
  BY DEF BoundedLimit
<1> HIDE DEF low
<1>3. Max({1, low}) = IF 1 <= low THEN low ELSE 1
  BY <1>1, MinMax
<1>4. QED
  BY <1>0, <1>1, <1>2, <1>3

\* A list cut off at a positive limit.
LEMMA SliceBegins ==
    ASSUME NEW S, NEW listed \in Seq(S), NEW limit \in Nat \ {0}
    PROVE  \E m \in 0..Len(listed) :
              /\ Len(listed) > 0 => m > 0
              /\ m <= limit /\ Len(Slice(listed, limit)) = m
              /\ DOMAIN Slice(listed, limit) = 1..m
              /\ \A i \in 1..m : Slice(listed, limit)[i] = listed[i]
<1> DEFINE n == Len(listed)
           m == Min({limit, n})
<1>1. n \in Nat
  OBVIOUS
<1>2. m \in {limit, n} /\ m <= n /\ m <= limit /\ (n > 0 => m > 0) /\ m \in Nat
  BY <1>1, MinMax
<1>3. Slice(listed, limit) = SubSeq(listed, 1, m)
  <2>1. limit >= 0
    OBVIOUS
  <2>2. QED
    BY <2>1, Zenon DEF Slice
<1> HIDE DEF m
<1>4. /\ Len(SubSeq(listed, 1, m)) = m
      /\ DOMAIN SubSeq(listed, 1, m) = 1..m
      /\ \A i \in 1..m : SubSeq(listed, 1, m)[i] = listed[i]
  BY <1>1, <1>2
<1>5. QED
  BY <1>2, <1>3, <1>4

\* In every state with an order the list is right, for every limit.
LEMMA TimelineLists ==
    ASSUME Timeline, NEW limit \in Int
    PROVE  ListedFor(limit)
<1> DEFINE st == EvictExpired(store)
           here == Stored(st)
           all == NewestFirst(st)
           listed == ListRecentCalls(limit)
<1>1. here \subseteq Stored(store) /\ here \subseteq SessionIds
  BY EvictExpiredShrinks DEF Timeline, IInv, Shrinks, Stored
<1>2. IsFiniteSet(here) /\ Ordered(older, here)
  BY <1>1, StoreAssumption, FS_Subset, OrderedPart DEF Timeline
<1>3. Lists(older, all, here)
  <2>1. \E list : Lists(older, list, here)
    BY <1>2, ListExists
  <2>2. \E list \in [1..Cardinality(here) -> here] : Sorted(list, here)
    BY <2>1 DEF Lists, Sorted
  <2>3. all \in [1..Cardinality(here) -> here] /\ Sorted(all, here)
    BY <2>2 DEF NewestFirst
  <2>4. QED
    BY <2>3 DEF Lists, Sorted
<1>4. PICK n \in Nat : n = Cardinality(here)
  BY <1>2, FS_CardinalityType
<1>5. /\ all \in [1..n -> here]
      /\ \A i, j \in 1..n : i < j => <<all[j], all[i]>> \in older
      /\ \A s \in here : \E i \in 1..n : all[i] = s
  BY <1>3, <1>4 DEF Lists
<1>6. listed = Slice(all, BoundedLimit(limit))
  BY DEF ListRecentCalls, ListRecent
<1> HIDE DEF here, all, listed
<1>7. PICK m \in 0..n :
         /\ n > 0 => m > 0
         /\ Len(listed) = m /\ m <= MaxListed
         /\ DOMAIN listed = 1..m
         /\ \A i \in 1..m : listed[i] = all[i]
  <2>1. BoundedLimit(limit) \in Nat \ {0} /\ BoundedLimit(limit) <= MaxListed
    BY LimitBounded, ClientsAssumption
  <2> DEFINE b == BoundedLimit(limit)
  <2>2. b \in Nat \ {0} /\ b <= MaxListed /\ listed = Slice(all, b)
    BY <1>6, <2>1
  <2> HIDE DEF b
  <2>3. all \in Seq(here) /\ Len(all) = n
    BY <1>5
  <2>4. \E m \in 0..Len(all) :
           /\ Len(all) > 0 => m > 0
           /\ m <= b /\ Len(Slice(all, b)) = m
           /\ DOMAIN Slice(all, b) = 1..m
           /\ \A i \in 1..m : Slice(all, b)[i] = all[i]
    BY <2>2, <2>3, SliceBegins
  <2>5. MaxListed \in Nat
    BY ClientsAssumption
  <2>6. QED
    BY <2>2, <2>3, <2>4, <2>5
<1>8. ASSUME NEW i \in DOMAIN listed
      PROVE  /\ listed[i] \in here
             /\ \A j \in DOMAIN listed : i < j => <<listed[j], listed[i]>> \in older
  BY <1>5, <1>7
<1>9. ASSUME NEW i \in DOMAIN listed, NEW s \in here, \A j \in DOMAIN listed : listed[j] # s
      PROVE  <<s, listed[i]>> \in older
  <2>1. PICK k \in 1..n : all[k] = s
    BY <1>5
  <2>2. k > m
    BY <1>7, <1>9, <2>1
  <2>3. QED
    BY <1>5, <1>7, <2>1, <2>2
<1>10. here # {} => listed # <<>>
  <2>1. ASSUME here # {}
        PROVE  listed # <<>>
    <3>1. n > 0
      BY <1>5, <2>1
    <3>2. 1 \in DOMAIN listed
      BY <1>7, <3>1
    <3>3. DOMAIN <<>> = {}
      OBVIOUS
    <3>4. QED
      BY <3>2, <3>3
  <2>2. QED
    BY <2>1
<1>11. Len(listed) <= MaxListed
  BY <1>7
<1>12. QED
  BY <1>8, <1>9, <1>10, <1>11 DEF ListedFor, here, listed

(***************************************************************************)
(* Whatever limit the client asks for, list_recent_calls answers with the  *)
(* newest sessions in order, nothing newer than one listed left out, and   *)
(* no more than the cap: for every limit, not only those of the run.       *)
(***************************************************************************)
THEOREM NewestListedHolds == Spec => [](NewestListed /\ \A limit \in Int : ListedFor(limit))
<1>1. Timeline => NewestListed /\ \A limit \in Int : ListedFor(limit)
  BY TimelineLists DEF NewestListed
<1>2. QED
  BY <1>1, TimelineHolds, PTL
=============================================================================
