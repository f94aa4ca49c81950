------------------------- MODULE CallFlowStoreProofs -------------------------
(***************************************************************************)
(* Proofs about the session store under the whole call flow: its index     *)
(* finds exactly what is stored, and its cap holds, after any interleaving *)
(* of handlers, operator requests, evictions and restarts; what the        *)
(* callers may rely on as long as it loses no session; and the stage the   *)
(* operator is shown, whatever is lost or late.                            *)
(***************************************************************************)
EXTENDS CallFlowCallerProofs, FiniteSetTheorems

-----------------------------------------------------------------------------
(* The methods of the store *)

\* IndexSound, of any store.
Sound(st) ==
    \A u \in CallUuids, s \in SessionIds :
        st.call_uuid_index[u] = s <=>
            st.sessions[s] # None /\ st.sessions[s].call_uuid = u

\* StoreBounded, of any store.
Bounded(st) == Cardinality(Stored(st)) <= MaxSessions

\* What is stored is finite, so it can be counted.
LEMMA StoredFinite ==
    ASSUME NEW st
    PROVE  IsFiniteSet(Stored(st)) /\ Cardinality(Stored(st)) \in Nat
<1>1. Stored(st) \in SUBSET SessionIds /\ IsFiniteSet(SessionIds)
  BY StoreAssumption DEF Stored
<1>2. QED
  BY <1>1, FS_Subset, FS_CardinalityType

\* Taking sessions out takes exactly their index entries out (_remove_locked).
LEMMA RemoveSound ==
    ASSUME NEW st \in Store, Sound(st), NEW ids
    PROVE  /\ Remove(st, ids) \in Store
           /\ Sound(Remove(st, ids))
           /\ Stored(Remove(st, ids)) = Stored(st) \ ids
<1> DEFINE gone == ids \cap Stored(st)
           calls_gone == {st.sessions[s].call_uuid : s \in gone}
           left == Remove(st, ids)
<1>1. /\ left \in Store
      /\ \A s \in SessionIds : left.sessions[s] = IF s \in gone THEN None ELSE st.sessions[s]
      /\ \A u \in CallUuids :
            left.call_uuid_index[u] = IF u \in calls_gone THEN None ELSE st.call_uuid_index[u]
  BY RemoveShrinks DEF Remove, Shrinks
<1> HIDE DEF left
<1>2. Stored(left) = Stored(st) \ ids
  BY <1>1 DEF Stored
<1>3. ASSUME NEW u \in CallUuids, NEW s \in SessionIds
      PROVE  left.call_uuid_index[u] = s <=>
                left.sessions[s] # None /\ left.sessions[s].call_uuid = u
  <2>1. st.call_uuid_index[u] = s <=> st.sessions[s] # None /\ st.sessions[s].call_uuid = u
    BY <1>3 DEF Sound
  <2>2. s # None
    BY <1>3, SessionAssumption
  <2>3. CASE u \in calls_gone
    <3>1. PICK t \in gone : st.sessions[t].call_uuid = u
      BY <2>3
    <3>2. t \in SessionIds /\ st.sessions[t] # None
      BY <3>1 DEF Stored
    <3>3. st.call_uuid_index[u] = t
      BY <1>3, <3>1, <3>2 DEF Sound
    <3>4. QED
      BY <1>1, <1>3, <2>1, <2>2, <2>3, <3>1, <3>3
  <2>4. CASE u \notin calls_gone
    <3>1. s \in gone => ~(st.sessions[s].call_uuid = u)
      BY <2>4
    <3>2. s \in gone => st.sessions[s] # None
      BY DEF Stored
    <3>3. QED
      BY <1>1, <1>3, <2>1, <2>4, <3>1, <3>2
  <2>5. QED
    BY <2>3, <2>4
<1>4. QED
  BY <1>1, <1>2, <1>3 DEF Sound, left

\* A smaller store is within any bound the larger one was within.
LEMMA FewerStored ==
    ASSUME NEW st, NEW left, Stored(left) \subseteq Stored(st)
    PROVE  Cardinality(Stored(left)) <= Cardinality(Stored(st))
BY StoredFinite, FS_Subset

\* Lazy expiry keeps the index and the cap (_evict_expired_locked).
LEMMA EvictExpiredSound ==
    ASSUME NEW st \in Store, Sound(st), Bounded(st)
    PROVE  /\ EvictExpired(st) \in Store
           /\ Sound(EvictExpired(st)) /\ Bounded(EvictExpired(st))
<1>1. /\ EvictExpired(st) \in Store /\ Sound(EvictExpired(st))
      /\ Stored(EvictExpired(st)) \subseteq Stored(st)
  BY RemoveSound DEF EvictExpired
<1>2. Cardinality(Stored(EvictExpired(st))) <= Cardinality(Stored(st))
  BY <1>1, FewerStored
<1>3. QED
  BY <1>1, <1>2, StoredFinite, StoreAssumption DEF Bounded

\* The capacity rule leaves room for one more, whoever has to go for it
\* (_enforce_capacity_locked).
LEMMA EnforceCapacityMakesRoom ==
    ASSUME NEW st \in Store, Sound(st), NEW room \in EnforceCapacity(st)
    PROVE  /\ room \in Store /\ Sound(room)
           /\ Cardinality(Stored(room)) + 1 <= MaxSessions
<1>1. /\ Cardinality(Stored(st)) \in Nat /\ IsFiniteSet(Stored(st)) /\ MaxSessions \in Nat
  BY StoredFinite, StoreAssumption
<1>2. CASE Overflow(st) <= 0
  BY <1>1, <1>2 DEF EnforceCapacity, Overflow
<1>3. CASE ~(Overflow(st) <= 0)
  <2>1. PICK ids \in SUBSET Stored(st) :
           Cardinality(ids) = Overflow(st) /\ room = Remove(st, ids)
    BY <1>3 DEF EnforceCapacity
  <2>2. room \in Store /\ Sound(room) /\ Stored(room) = Stored(st) \ ids
    BY <2>1, RemoveSound
  <2>3. IsFiniteSet(ids)
    BY <1>1, <2>1, FS_Subset
  <2>4. Cardinality(Stored(st) \ ids)
           = Cardinality(Stored(st)) - Cardinality(Stored(st) \cap ids)
    BY <1>1, <2>3, FS_Difference
  <2>5. Stored(st) \cap ids = ids
    BY <2>1
  <2>6. Cardinality(Stored(room)) = Cardinality(Stored(st)) - Overflow(st)
    BY <2>1, <2>2, <2>4, <2>5
  <2>7. QED
    BY <1>1, <2>2, <2>6 DEF Overflow
<1>4. QED
  BY <1>2, <1>3

\* Storing a session keeps the index, if it moves no stored session to another
\* call and takes no call from another session (_put_locked).
LEMMA PutSound ==
    ASSUME NEW st \in Store, Sound(st), NEW s \in SessionIds, NEW session \in Session,
           st.sessions[s] # None => st.sessions[s].call_uuid \in {None, session.call_uuid},
           \A t \in SessionIds \ {s} :
              st.sessions[t] # None /\ st.sessions[t].call_uuid # None =>
                 st.sessions[t].call_uuid # session.call_uuid
    PROVE  Put(st, s, session) \in Store /\ Sound(Put(st, s, session))
<1> DEFINE saved == Put(st, s, session)
<1>1. /\ saved \in Store
      /\ saved.sessions[s] = session
      /\ \A t \in SessionIds \ {s} : saved.sessions[t] = st.sessions[t]
      /\ \A u \in CallUuids :
            saved.call_uuid_index[u] = IF u = session.call_uuid THEN s ELSE st.call_uuid_index[u]
  BY PutType
<1> HIDE DEF saved
<1>2. ASSUME NEW u \in CallUuids, NEW t \in SessionIds
      PROVE  saved.call_uuid_index[u] = t <=>
                saved.sessions[t] # None /\ saved.sessions[t].call_uuid = u
  <2>1. st.call_uuid_index[u] = t <=> st.sessions[t] # None /\ st.sessions[t].call_uuid = u
    BY <1>2 DEF Sound
  <2>2. u # None /\ session # None
    BY <1>2, SessionAssumption
  <2>3. CASE t = s
    BY <1>1, <1>2, <2>1, <2>2, <2>3
  <2>4. CASE t # s
    BY <1>1, <1>2, <2>1, <2>2, <2>4
  <2>5. QED
    BY <2>3, <2>4
<1>3. QED
  BY <1>1, <1>2 DEF Sound, saved

\* Storing one session stores at most one more, and none if it was there.
LEMMA PutStored ==
    ASSUME NEW st \in Store, NEW s \in SessionIds, NEW session \in Session
    PROVE  Stored(Put(st, s, session)) = Stored(st) \cup {s}
<1>1. session # None
  BY SessionAssumption
<1>2. QED
  BY <1>1, PutType DEF Stored

\* Saving a session that is stored leaves the number of sessions as it is.
LEMMA SaveBounded ==
    ASSUME NEW st \in Store, Bounded(st), NEW s \in Stored(st), NEW session \in Session
    PROVE  Bounded(Put(st, s, session))
<1>1. s \in SessionIds
  BY DEF Stored
<1>2. Stored(Put(st, s, session)) = Stored(st)
  BY <1>1, PutStored
<1>3. QED
  BY <1>2 DEF Bounded

\* create() stays within the cap, whatever it had to evict.
LEMMA CreateSound ==
    ASSUME NEW st \in Store, Sound(st), Bounded(st),
           NEW s \in SessionIds, st.sessions[s] = None,
           NEW session \in Session,
           \A t \in SessionIds \ {s} :
              st.sessions[t] # None /\ st.sessions[t].call_uuid # None =>
                 st.sessions[t].call_uuid # session.call_uuid,
           NEW new \in Create(st, s, session)
    PROVE  new \in Store /\ Sound(new) /\ Bounded(new) /\ s \in Stored(new)
<1>1. PICK room \in EnforceCapacity(EvictExpired(st)) : new = Put(room, s, session)
  BY DEF Create
<1>2. EvictExpired(st) \in Store /\ Sound(EvictExpired(st))
  BY EvictExpiredSound
<1>3. /\ room \in Store /\ Sound(room)
      /\ Cardinality(Stored(room)) + 1 <= MaxSessions
  BY <1>2, EnforceCapacityMakesRoom
<1>4. Shrinks(room, st)
  BY <1>2, EvictExpiredShrinks, EnforceCapacityShrinks, ShrinksTransitive
<1>5. \A t \in SessionIds : room.sessions[t] \in {None, st.sessions[t]}
  BY <1>4 DEF Shrinks
<1>6. new \in Store /\ Sound(new)
  BY <1>1, <1>3, <1>5, PutSound
<1>7. Stored(new) = Stored(room) \cup {s}
  BY <1>1, <1>3, PutStored
<1>8. Cardinality(Stored(new)) <= Cardinality(Stored(room)) + 1
  <2>1. IsFiniteSet(Stored(room)) /\ Cardinality(Stored(room)) \in Nat
    BY StoredFinite
  <2>2. Cardinality(Stored(room) \cup {s}) =
           IF s \in Stored(room) THEN Cardinality(Stored(room))
           ELSE Cardinality(Stored(room)) + 1
    BY <2>1, FS_AddElement
  <2>3. QED
    BY <1>7, <2>1, <2>2
<1>9. Bounded(new)
  BY <1>3, <1>8, StoredFinite, StoreAssumption DEF Bounded
<1>10. QED
  BY <1>6, <1>7, <1>9

-----------------------------------------------------------------------------
(* The call flow *)

StoreOK(st) == st \in Store /\ Sound(st) /\ Bounded(st)

\* The store the process starts with.
LEMMA EmptySound == StoreOK(EmptyStore)
<1>1. EmptyStore \in Store /\ Stored(EmptyStore) = {}
  BY DEF EmptyStore, Store, Stored
<1>2. Sound(EmptyStore)
  BY SessionAssumption DEF Sound, EmptyStore
<1>3. Bounded(EmptyStore)
  BY <1>1, FS_EmptySet, StoreAssumption DEF Bounded
<1>4. QED
  BY <1>1, <1>2, <1>3 DEF StoreOK

\* Whatever _resolve_session finds or creates, the store it leaves is sound and
\* holds the session it returns.
LEMMA ResolveSound ==
    ASSUME Inv, StoreOK(store), NEW w \in inflight, NEW r \in Resolve(w)
    PROVE  /\ StoreOK(r.store)
           /\ r.session_id \in Stored(r.store)
           /\ r.session = r.store.sessions[r.session_id]
           /\ \A t \in SessionIds \ {r.session_id} :
                 r.store.sessions[t] \in {None, store.sessions[t]}
<1> DEFINE st == EvictExpired(store)
           s == w.url.session_id
           recreated == RecordEvent(NewCallSession(w.call_uuid), "session_recreated")
<1>1. /\ s \in SessionIds /\ w.call_uuid \in CallUuids
      /\ Owner[w.call_uuid] = s /\ StoreFits(store, Owner)
      /\ r.session_id = s
  BY ResolveIsOwn DEF Inv, TypeOK, WebhooksFit, Owner, Webhook, Url, Resolved
<1>2. StoreOK(st) /\ Shrinks(st, store)
  BY EvictExpiredSound, EvictExpiredShrinks DEF StoreOK
<1>3. CASE s \in Stored(st) \/ GetByCallUuid(st, w.call_uuid) # None
  <2>1. r.store = st /\ r.session = st.sessions[r.session_id] /\ r.session_id \in Stored(st)
    BY <1>3 DEF Resolve, GetByCallUuid
  <2>2. QED
    BY <1>2, <2>1 DEF Shrinks
<1>4. CASE s \notin Stored(st) /\ GetByCallUuid(st, w.call_uuid) = None
  <2>1. r.store \in Create(st, s, recreated) /\ r.session = recreated
    BY <1>4 DEF Resolve, RecreatedIds
  <2>2. recreated \in Session /\ recreated.call_uuid = w.call_uuid
    BY <1>1, RecreatedType
  <2> HIDE DEF recreated
  <2>3. st.sessions[s] = None
    BY <1>1, <1>4 DEF Stored
  <2>4. ASSUME NEW t \in SessionIds \ {s}, st.sessions[t] # None,
               st.sessions[t].call_uuid # None
        PROVE  st.sessions[t].call_uuid # w.call_uuid
    <3>1. st.sessions[t] = store.sessions[t]
      BY <1>2, <2>4 DEF Shrinks
    <3>2. QED
      BY <1>1, <2>4, <3>1 DEF StoreFits
  <2>5. StoreOK(r.store) /\ s \in Stored(r.store)
    BY <1>1, <1>2, <2>1, <2>2, <2>3, <2>4, CreateSound DEF StoreOK
  <2>6. PICK room \in EnforceCapacity(EvictExpired(st)) : r.store = Put(room, s, recreated)
    BY <2>1 DEF Create
  <2>7. Shrinks(room, store) /\ room \in Store
    BY <1>2, <2>6, EvictExpiredShrinks, EnforceCapacityShrinks, ShrinksTransitive
       DEF StoreOK, Shrinks
  <2>8. /\ r.store.sessions[s] = recreated
        /\ \A t \in SessionIds \ {s} : r.store.sessions[t] = room.sessions[t]
    BY <1>1, <2>2, <2>6, <2>7, PutType
  <2>9. QED
    BY <1>1, <2>1, <2>5, <2>7, <2>8 DEF Shrinks
<1>5. QED
  BY <1>3, <1>4

\* A session is attached to no call but its own (StoreFits).
LEMMA AttachedToOwn ==
    ASSUME Inv, NEW s \in SessionIds, NEW t \in SessionIds, NEW u \in CallUuids,
           Owner[u] = s, store.sessions[t] # None, store.sessions[t].call_uuid = u
    PROVE  t = s
<1>1. u # None
  BY SessionAssumption
<1>2. QED
  BY <1>1 DEF Inv, StoreFits

\* A handler saves its session where it was found, so nothing overflows and no
\* entry is left behind.
LEMMA HandledSound ==
    ASSUME Inv, StoreOK(store), NEW u \in CallUuids, Handled(u)
    PROVE  StoreOK(store')
<1>1. PICK w \in inflight : \E r, session, doc :
         /\ w.call_uuid = u
         /\ r \in Resolve(w)
         /\ Resolved(w, r)
         /\ Effect(w, r.session, session)
         /\ Answers(w, r.session_id, r.session, session, doc)
         /\ Respond(w, r, session, doc)
  BY DEF Handled
<1>2. PICK r, session, doc :
         /\ r \in Resolve(w)
         /\ Resolved(w, r)
         /\ Allowed(w, r, session, doc)
         /\ Respond(w, r, session, doc)
  BY <1>1, HandlingAllowed
<1> DEFINE id == r.session_id
           saved == Touch(session)
<1>3. /\ id \in SessionIds /\ Owner[u] = id
      /\ StoreFits(store, Owner)
  BY <1>1, <1>2 DEF Inv, TypeOK, WebhooksFit, Webhook, Url, Resolved, Owner
<1>4. /\ StoreOK(r.store)
      /\ id \in Stored(r.store)
      /\ r.session = r.store.sessions[id]
      /\ \A t \in SessionIds \ {id} : r.store.sessions[t] \in {None, store.sessions[t]}
  BY <1>2, ResolveSound
<1>5. saved \in Session /\ saved.call_uuid \in {r.session.call_uuid, u}
  BY <1>1, <1>2, TouchType DEF Allowed, Kept, Counts
<1>6. r.session.call_uuid \in {None, u}
  <2>1. CASE r.found = TRUE
    <3>1. r.session = store.sessions[id] /\ store.sessions[id] # None
      BY <1>2, <1>3, <1>4, <2>1 DEF Resolved, Shrinks, Stored
    <3>2. r.session.call_uuid \in CallUuids \cup {None}
      BY <1>2 DEF Resolved, Session
    <3>3. r.session.call_uuid # None => Owner[r.session.call_uuid] = Owner[u]
      BY <1>3, <3>1 DEF StoreFits
    <3>4. QED
      BY <1>3, <3>2, <3>3, SessionAssumption DEF Inv, OwnersApart
  <2>2. CASE r.found = FALSE
    BY <1>1, <1>2, <2>2 DEF Resolved
  <2>3. QED
    BY <1>2, <2>1, <2>2 DEF Resolved
<1>7. ASSUME NEW t \in SessionIds \ {id}, r.store.sessions[t] # None,
             r.store.sessions[t].call_uuid # None
      PROVE  r.store.sessions[t].call_uuid # saved.call_uuid
  <2>1. r.store.sessions[t] = store.sessions[t]
    BY <1>4, <1>7
  <2>2. store.sessions[t].call_uuid # u
    BY <1>3, <1>7, <2>1, AttachedToOwn
  <2>3. QED
    BY <1>5, <1>6, <1>7, <2>1, <2>2
<1>8. store' = Put(r.store, id, saved)
  BY <1>2 DEF Respond, Save
<1> HIDE DEF saved
<1>9. /\ r.store.sessions[id] # None
      /\ r.store.sessions[id].call_uuid \in {None, saved.call_uuid}
  BY <1>4, <1>5, <1>6 DEF Stored
<1>10. store' \in Store /\ Sound(store')
  BY <1>3, <1>4, <1>5, <1>7, <1>8, <1>9, PutSound DEF StoreOK
<1>11. Bounded(store')
  BY <1>4, <1>5, <1>8, SaveBounded DEF StoreOK
<1>12. QED
  BY <1>10, <1>11 DEF StoreOK

\* Saving a stored session that stays on its call keeps the store sound.
LEMMA UpdateSound ==
    ASSUME NEW st, StoreOK(st), NEW s \in Stored(st), NEW session \in Session,
           session.call_uuid = st.sessions[s].call_uuid
    PROVE  StoreOK(Put(st, s, session))
<1>1. s \in SessionIds /\ st.sessions[s] # None /\ st \in Store
  BY DEF Stored, StoreOK
<1>2. ASSUME NEW t \in SessionIds \ {s}, st.sessions[t] # None,
             st.sessions[t].call_uuid # None
      PROVE  st.sessions[t].call_uuid # session.call_uuid
  <2>1. st.sessions[t].call_uuid \in CallUuids
    BY <1>1, <1>2 DEF Store, Session
  <2>2. st.call_uuid_index[st.sessions[t].call_uuid] = t
    BY <1>2, <2>1 DEF StoreOK, Sound
  <2>3. st.sessions[s].call_uuid = st.sessions[t].call_uuid
           => st.call_uuid_index[st.sessions[t].call_uuid] = s
    BY <1>1, <2>1 DEF StoreOK, Sound
  <2>4. QED
    BY <2>2, <2>3
<1>3. Put(st, s, session) \in Store /\ Sound(Put(st, s, session))
  BY <1>1, <1>2, PutSound DEF StoreOK
<1>4. Bounded(Put(st, s, session))
  BY <1>1, SaveBounded DEF StoreOK
<1>5. QED
  BY <1>3, <1>4 DEF StoreOK

\* Placing a call: the new session has its place, and the reply's save keeps it.
LEMMA PlacingSound ==
    ASSUME StoreOK(store), NEW s \in SessionIds, store.sessions[s] = None,
           NEW outcome \in {"queued", "refused", "no_uuid", "lost"},
           NEW st \in Create(store, s, RecordEvent(NewCallSession(None), "call_requested"))
    PROVE  StoreOK(AfterPlacing(st, s, outcome))
<1> DEFINE requested == RecordEvent(NewCallSession(None), "call_requested")
<1>1. requested \in Session /\ requested.call_uuid = None
  BY RequestedType
<1> HIDE DEF requested
<1>2. StoreOK(st) /\ s \in Stored(st)
  BY <1>1, CreateSound DEF StoreOK, requested
<1>3. st.sessions[s] \in Session
  BY <1>2 DEF StoreOK, Store, Stored
<1>4. CASE outcome = "queued"
  <2> DEFINE noted == RecordEvent(st.sessions[s], "call_queued")
  <2>1. noted \in Session /\ Kept(noted, st.sessions[s])
    BY <1>3, RecordEventType
  <2>2. Touch(noted) \in Session /\ Kept(Touch(noted), noted)
    BY <2>1, TouchType
  <2>3. StoreOK(Put(st, s, Touch(noted)))
    BY <1>2, <2>1, <2>2, UpdateSound DEF Kept, Counts
  <2>4. QED
    BY <1>4, <2>3 DEF AfterPlacing, Save
<1>5. CASE outcome \in {"refused", "no_uuid"}
  <2> DEFINE failed == AdvanceTo(st.sessions[s], "failed")
             noted == RecordEvent(failed, "call_request_failed")
  <2>1. failed \in Session /\ Kept(failed, st.sessions[s])
    BY <1>3, AdvanceToType DEF Stages
  <2>2. noted \in Session /\ Kept(noted, failed)
    BY <2>1, RecordEventType
  <2>3. Touch(noted) \in Session /\ Kept(Touch(noted), noted)
    BY <2>2, TouchType
  <2>4. StoreOK(Put(st, s, Touch(noted)))
    BY <1>2, <2>1, <2>2, <2>3, UpdateSound DEF Kept, Counts
  <2>5. QED
    BY <1>5, <2>4 DEF AfterPlacing, Save
<1>6. CASE outcome = "lost"
  BY <1>2, <1>6 DEF AfterPlacing
<1>7. QED
  BY <1>4, <1>5, <1>6

\* Ageing changes neither which sessions there are nor what they are attached to.
LEMMA AgeSound ==
    ASSUME NEW st, StoreOK(st)
    PROVE  StoreOK(Age(st))
<1>1. /\ \A s \in SessionIds :
            Age(st).sessions[s] = IF st.sessions[s] = None THEN None
                                  ELSE [st.sessions[s] EXCEPT !.idle = CountUpTo(@, TTL + 1)]
      /\ Age(st).call_uuid_index = st.call_uuid_index
  BY DEF Age, StoreOK, Store
<1>2. ASSUME NEW session \in Session
      PROVE  /\ [session EXCEPT !.idle = CountUpTo(@, TTL + 1)] \in Session
             /\ [session EXCEPT !.idle = CountUpTo(@, TTL + 1)].call_uuid = session.call_uuid
  BY <1>2, IdleType DEF Kept, Counts
<1>3. \A s \in SessionIds :
         \/ st.sessions[s] = None /\ Age(st).sessions[s] = None
         \/ /\ st.sessions[s] # None
            /\ Age(st).sessions[s] \in Session /\ Age(st).sessions[s] # None
            /\ Age(st).sessions[s].call_uuid = st.sessions[s].call_uuid
  <2> SUFFICES ASSUME NEW s \in SessionIds, st.sessions[s] # None
               PROVE  /\ Age(st).sessions[s] \in Session /\ Age(st).sessions[s] # None
                      /\ Age(st).sessions[s].call_uuid = st.sessions[s].call_uuid
    BY <1>1
  <2>1. st.sessions[s] \in Session
    BY DEF StoreOK, Store
  <2>2. /\ Age(st).sessions[s] \in Session
        /\ Age(st).sessions[s].call_uuid = st.sessions[s].call_uuid
    BY <1>1, <1>2, <2>1
  <2>3. QED
    BY <2>2, SessionAssumption
<1>4. Age(st) \in Store
  BY <1>1, <1>3 DEF Age, StoreOK, Store
<1>5. Sound(Age(st))
  BY <1>1, <1>3 DEF StoreOK, Sound
<1>6. Stored(Age(st)) = Stored(st)
  BY <1>3 DEF Stored
<1>7. QED
  BY <1>4, <1>5, <1>6 DEF StoreOK, Bounded

\* The operator's hangup saves a session that is stored.
LEMMA EndCallSound ==
    ASSUME StoreOK(store), NEW s \in SessionIds, EndCall(s)
    PROVE  StoreOK(store')
<1> DEFINE st == EvictExpired(store)
           noted == RecordEvent(st.sessions[s], "call_ended_by_operator")
           closed == AdvanceTo(noted, "completed")
<1>1. StoreOK(st)
  BY EvictExpiredSound DEF StoreOK
<1>2. CASE store' = st
  BY <1>1, <1>2
<1>3. CASE s \in Stored(st) /\ store' = Save(st, s, closed)
  <2>1. st.sessions[s] \in Session
    BY <1>1, <1>3 DEF StoreOK, Store, Stored
  <2>2. noted \in Session /\ Kept(noted, st.sessions[s])
    BY <2>1, RecordEventType
  <2>3. closed \in Session /\ Kept(closed, noted)
    BY <2>2, AdvanceToType DEF Stages
  <2> HIDE DEF st, noted, closed
  <2>4. Touch(closed) \in Session /\ Kept(Touch(closed), closed)
    BY <2>3, TouchType
  <2>5. QED
    BY <1>1, <1>3, <2>2, <2>3, <2>4, UpdateSound DEF Kept, Counts, Save
<1>4. EndCallRejected => store' = st
  BY DEF EndCallRejected
<1>5. EndCallAccepted(s) => s \in Stored(st) /\ store' \in {Save(st, s, closed), st}
  BY DEF EndCallAccepted
<1> HIDE DEF st, closed
<1>6. QED
  BY <1>2, <1>3, <1>4, <1>5 DEF EndCall

\* Every step of the system, or none, keeps the store sound and within its cap.
LEMMA NextSound ==
    ASSUME Inv, StoreOK(store), [Next]_vars
    PROVE  StoreOK(store')
<1>1. ASSUME NEW u \in CallUuids, Handle(u)
      PROVE  StoreOK(store')
  BY <1>1, HandleHandled, HandledSound
<1>2. ASSUME NEW u \in CallUuids,
             RingingEnds(u) \/ PlivoProceeds(u) \/ CallerPresses(u) \/ CallerHangsUp(u)
                \/ CallerWalksAway(u) \/ Lose(u) \/ TimesOut(u)
      PROVE  StoreOK(store')
  <2>1. UNCHANGED store
    BY <1>2 DEF RingingEnds, Answer, NoAnswer, PlivoProceeds, CallerSilent, DocumentSpoken,
           FallThrough, DialEnds, HangsUp, WebhookFailed, GivesUp, CallerPresses,
           CallerHangsUp, CallerWalksAway, Lose, TimesOut, Send
  <2>2. QED
    BY <2>1
<1>3. ASSUME NEW u \in CallUuids, PlaceOutboundCall(u)
      PROVE  StoreOK(store')
  <2>1. PICK s \in SessionIds, reply \in PlaceReplies :
           /\ Fresh(s)
           /\ \E st \in Create(store, s, RecordEvent(NewCallSession(None), "call_requested")) :
                 store' = AfterPlacing(st, s, reply.outcome)
    BY <1>3 DEF PlaceOutboundCall
  <2>2. reply.outcome \in {"queued", "refused", "no_uuid", "lost"}
    BY DEF PlaceReplies, Reply
  <2>3. store.sessions[s] = None
    BY <2>1 DEF Fresh, Stored
  <2>4. QED
    BY <2>1, <2>2, <2>3, PlacingSound
<1>4. ASSUME NEW s \in SessionIds, EndCall(s)
      PROVE  StoreOK(store')
  BY <1>4, EndCallSound
<1>5. CASE ReadCalls
  BY <1>5, EvictExpiredSound DEF ReadCalls, StoreOK
<1>6. CASE Restart
  BY <1>6, EmptySound DEF Restart
<1>7. CASE Tick
  BY <1>7, AgeSound DEF Tick
<1>8. CASE UNCHANGED vars
  BY <1>8 DEF vars
<1>9. QED
  BY <1>1, <1>2, <1>3, <1>4, <1>5, <1>6, <1>7, <1>8 DEF Next

\* With Inv this is inductive.
StoreInv == StoreOK(store)

(***************************************************************************)
(* The index from Plivo's call id finds exactly the stored sessions        *)
(* attached to that call (_put_locked, _remove_locked): neither expiry,    *)
(* eviction, recreation nor a late save leaves a stale entry or loses one. *)
(***************************************************************************)
THEOREM IndexSoundHolds == Spec => []IndexSound
<1>1. Init => StoreInv
  BY EmptySound DEF Init, StoreInv
<1>2. Inv /\ StoreInv /\ [Next]_vars => StoreInv'
  BY NextSound DEF StoreInv
<1>3. StoreInv => IndexSound
  BY DEF StoreInv, StoreOK, Sound, IndexSound, Stored
<1>4. QED
  BY <1>1, <1>2, <1>3, InvHolds, PTL DEF Spec

(***************************************************************************)
(* The store never holds more than MaxSessions sessions: create makes room *)
(* (_enforce_capacity_locked), and every later save is of a session that   *)
(* is still there, because a handler runs without being interrupted.       *)
(***************************************************************************)
THEOREM StoreBoundedHolds == Spec => []StoreBounded
<1>1. Init => StoreInv
  BY EmptySound DEF Init, StoreInv
<1>2. Inv /\ StoreInv /\ [Next]_vars => StoreInv'
  BY NextSound DEF StoreInv
<1>3. StoreInv => StoreBounded
  BY DEF StoreInv, StoreOK, Bounded, StoreBounded
<1>4. QED
  BY <1>1, <1>2, <1>3, InvHolds, PTL DEF Spec

-----------------------------------------------------------------------------
(* As long as no session is lost *)

\* Not about to expire, and there from the start.
Settled(session) == session.idle = 0 /\ ~Recreated(session)

AllSettled(st) == \A s \in Stored(st) : Settled(st.sessions[s])

\* A session saved anew is settled if it was.
LEMMA TouchSettled ==
    ASSUME NEW new \in Session, NEW old, Recreated(new) <=> Recreated(old), ~Recreated(old)
    PROVE  Touch(new) \in Session /\ Settled(Touch(new))
BY TouchType DEF Settled, Kept, Counts

\* Nothing expires.
LEMMA NothingExpires ==
    ASSUME NEW st \in Store, AllSettled(st)
    PROVE  /\ EvictExpired(st) \in Store
           /\ \A s \in SessionIds : EvictExpired(st).sessions[s] = st.sessions[s]
           /\ Stored(EvictExpired(st)) = Stored(st)
<1>1. ASSUME NEW s \in Expired(st)
      PROVE  FALSE
  <2>1. s \in Stored(st) /\ st.sessions[s].idle > TTL
    BY <1>1 DEF Expired
  <2>2. st.sessions[s].idle = 0
    BY <2>1 DEF AllSettled, Settled
  <2>3. QED
    BY <2>1, <2>2, Bounds
<1>2. \A s \in SessionIds : EvictExpired(st).sessions[s] = st.sessions[s]
  BY <1>1 DEF EvictExpired, Remove
<1>3. EvictExpired(st) \in Store
  BY EvictExpiredShrinks DEF Shrinks
<1>4. QED
  BY <1>2, <1>3 DEF Stored

\* There is room for a session that is not stored yet.
LEMMA RoomForAll ==
    ASSUME SessionsKept, NEW st, NEW s \in SessionIds \ Stored(st)
    PROVE  EnforceCapacity(st) = {st}
<1>1. /\ IsFiniteSet(SessionIds) /\ Cardinality(SessionIds) \in Nat /\ MaxSessions \in Nat
      /\ Cardinality(SessionIds) <= MaxSessions
  BY StoreAssumption, FS_CardinalityType DEF SessionsKept
<1>2. /\ IsFiniteSet(SessionIds \ {s})
      /\ Cardinality(SessionIds \ {s}) = Cardinality(SessionIds) - 1
  BY <1>1, FS_RemoveElement
<1>3. Stored(st) \subseteq SessionIds \ {s}
  BY DEF Stored
<1>4. Cardinality(Stored(st)) <= Cardinality(SessionIds \ {s})
  BY <1>2, <1>3, FS_Subset
<1>5. Overflow(st) <= 0
  BY <1>1, <1>2, <1>4, StoredFinite DEF Overflow
<1>6. QED
  BY <1>5 DEF EnforceCapacity

\* What a step leaves of the sessions: all of them, settled, and one at most
\* was written.
Writes(s) ==
    /\ AllSettled(store')
    /\ \A t \in SessionIds : store.sessions[t] # None => store'.sessions[t] # None
    /\ \A t \in SessionIds \ {s} : store'.sessions[t] = store.sessions[t]

\* Saving a settled session, over what eviction left of a settled store.
LEMMA PutWrites ==
    ASSUME Inv, AllSettled(store), NEW s \in SessionIds,
           NEW session \in Session, Settled(session),
           store' = Put(EvictExpired(store), s, session)
    PROVE  Writes(s)
<1>1. /\ EvictExpired(store) \in Store
      /\ \A t \in SessionIds : EvictExpired(store).sessions[t] = store.sessions[t]
  BY NothingExpires DEF Inv, TypeOK
<1>2. /\ store'.sessions[s] = session
      /\ \A t \in SessionIds \ {s} : store'.sessions[t] = store.sessions[t]
  BY <1>1, PutType
<1>3. session # None
  BY SessionAssumption
<1>4. QED
  BY <1>2, <1>3 DEF Writes, AllSettled, Stored

\* No session was written.
LEMMA NothingWritten ==
    ASSUME AllSettled(store), NEW s,
           \A t \in SessionIds : store'.sessions[t] = store.sessions[t]
    PROVE  Writes(s)
BY DEF Writes, AllSettled, Stored

\* A handler finds the session of its call where it was, and saves it there.
LEMMA HandledWrites ==
    ASSUME Inv, KeptInv, NEW u \in CallUuids, NEW w, NEW r, NEW session, NEW doc,
           Handling(u, w, r, session, doc)
    PROVE  /\ r.session = SessionOf(u) /\ r.session # None
           /\ store'.sessions[calls[u].session_id] = Touch(session)
           /\ Writes(calls[u].session_id)
<1> DEFINE id == calls[u].session_id
           st == EvictExpired(store)
<1>1. /\ id \in SessionIds /\ r \in Resolve(w) /\ w.url.session_id = id /\ r.session_id = id
      /\ calls[u].status # "unplaced" /\ session \in Session
      /\ Recreated(session) <=> Recreated(r.session)
      /\ Respond(w, r, session, doc)
  BY DEF Handling, Resolved, Effect
<1>2. /\ st \in Store /\ \A t \in SessionIds : st.sessions[t] = store.sessions[t]
      /\ Stored(st) = Stored(store) /\ AllSettled(store)
  BY NothingExpires DEF Inv, TypeOK, KeptInv, AllSettled, Settled, Recreated
<1>3. SessionOf(u) # None /\ SessionOf(u) = store.sessions[id] /\ id \in Stored(st)
  BY <1>1, <1>2, SessionAssumption DEF KeptInv, SessionOf, Stored
<1> HIDE DEF st
<1>4. r = [store |-> st, session_id |-> id, session |-> st.sessions[id], found |-> TRUE]
  BY <1>1, <1>3 DEF Resolve, st
<1>5. r.store = st /\ r.session = store.sessions[id]
  BY <1>1, <1>2, <1>4
<1>6. Settled(r.session)
  BY <1>2, <1>3, <1>5 DEF AllSettled
<1>7. Touch(session) \in Session /\ Settled(Touch(session))
  BY <1>1, <1>6, TouchSettled DEF Settled
<1>8. store' = Put(st, id, Touch(session))
  BY <1>1, <1>5 DEF Respond, Save
<1>9. store'.sessions[id] = Touch(session)
  BY <1>1, <1>2, <1>7, <1>8, PutType
<1>10. Writes(id)
  BY <1>1, <1>2, <1>7, <1>8, PutWrites DEF st
<1>11. QED
  BY <1>3, <1>5, <1>9, <1>10

\* The operator's hangup writes the session of the call it ends.
LEMMA EndCallWrites ==
    ASSUME Inv, KeptInv, NEW s \in SessionIds, EndCall(s)
    PROVE  \/ /\ UNCHANGED <<calls, inflight>>
              /\ Writes(s)
              /\ \A t \in SessionIds : store'.sessions[t] = store.sessions[t]
           \/ \E u \in CallUuids : LineDrops(u) /\ calls[u].session_id = s /\ Writes(s)
<1> DEFINE st == EvictExpired(store)
           noted == RecordEvent(st.sessions[s], "call_ended_by_operator")
           closed == AdvanceTo(noted, "completed")
<1>1. /\ st \in Store /\ \A t \in SessionIds : st.sessions[t] = store.sessions[t]
      /\ Stored(st) = Stored(store) /\ AllSettled(store)
  BY NothingExpires DEF Inv, TypeOK, KeptInv, AllSettled, Settled, Recreated
<1>2. CASE EndCallRejected
  <2>1. store' = st /\ UNCHANGED <<calls, inflight>>
    BY <1>2 DEF EndCallRejected
  <2>2. QED
    BY <1>1, <2>1, NothingWritten
<1>3. CASE EndCallAccepted(s)
  <2>1. PICK u \in CallUuids : st.sessions[s].call_uuid = u /\ LineDrops(u)
    BY <1>3 DEF EndCallAccepted
  <2>2. /\ s \in Stored(st)
        /\ store' = Put(st, s, Touch(closed)) \/ store' = st
    BY <1>3 DEF EndCallAccepted, Save
  <2>3. st.sessions[s] \in Session /\ Settled(st.sessions[s]) /\ store.sessions[s] # None
    BY <1>1, <2>2 DEF Store, Stored, AllSettled
  <2>4. calls[u].session_id = s
    BY <1>1, <2>1, <2>3, SessionAssumption DEF Inv, StoreFits, Owner
  <2>5. noted \in Session /\ Kept(noted, st.sessions[s])
    BY <2>3, RecordEventType
  <2>6. closed \in Session /\ Kept(closed, noted)
    BY <2>5, AdvanceToType DEF Stages
  <2> HIDE DEF st, noted, closed
  <2>7. Touch(closed) \in Session /\ Settled(Touch(closed))
    BY <2>3, <2>5, <2>6, TouchSettled DEF Kept, Counts, Settled
  <2>8. Writes(s)
    BY <1>1, <2>2, <2>7, PutWrites, NothingWritten DEF st
  <2>9. QED
    BY <2>1, <2>4, <2>8
<1>4. QED
  BY <1>2, <1>3 DEF EndCall

\* Placing a call stores its session, and nothing has to go for it.
LEMMA PlaceWrites ==
    ASSUME Inv, SessionsKept, KeptInv, NEW u \in CallUuids, PlaceOutboundCall(u)
    PROVE  \E s \in SessionIds :
              /\ Fresh(s) /\ Writes(s) /\ store'.sessions[s] # None
              /\ \/ calls' = [calls EXCEPT ![u].status = "ringing", ![u].session_id = s]
                 \/ calls' = calls
<1>1. PICK s \in SessionIds, reply \in PlaceReplies :
         /\ Fresh(s)
         /\ \E st \in Create(store, s, RecordEvent(NewCallSession(None), "call_requested")) :
               store' = AfterPlacing(st, s, reply.outcome)
         /\ calls' = IF reply.rings
                     THEN [calls EXCEPT ![u].status = "ringing", ![u].session_id = s]
                     ELSE calls
  BY DEF PlaceOutboundCall
<1>2. PICK st \in Create(store, s, RecordEvent(NewCallSession(None), "call_requested")) :
         store' = AfterPlacing(st, s, reply.outcome)
  BY <1>1
<1>3. reply.outcome \in {"queued", "refused", "no_uuid", "lost"}
  BY DEF PlaceReplies, Reply
<1> DEFINE old == EvictExpired(store)
           requested == RecordEvent(NewCallSession(None), "call_requested")
<1>4. /\ old \in Store /\ \A t \in SessionIds : old.sessions[t] = store.sessions[t]
      /\ Stored(old) = Stored(store) /\ AllSettled(store)
  BY NothingExpires DEF Inv, TypeOK, KeptInv, AllSettled, Settled, Recreated
<1>5. s \in SessionIds \ Stored(old)
  BY <1>1, <1>4 DEF Fresh
<1>6. requested \in Session /\ Settled(requested)
  <2>1. requested \in Session /\ ~Recreated(requested)
    BY RequestedType
  <2>2. requested.idle = 0
    BY DEF RecordEvent, Touch, NewCallSession
  <2>3. QED
    BY <2>1, <2>2 DEF Settled
<1>7. st \in {Put(room, s, requested) : room \in EnforceCapacity(old)}
  BY <1>2 DEF Create
<1> HIDE DEF old, requested
<1>8. st = Put(old, s, requested)
  BY <1>5, <1>7, RoomForAll
<1>9. /\ st \in Store /\ st.sessions[s] = requested
      /\ \A t \in SessionIds \ {s} : st.sessions[t] = store.sessions[t]
  BY <1>4, <1>6, <1>8, PutType
<1>10. ASSUME NEW session \in Session, Recreated(session) <=> Recreated(requested)
       PROVE  /\ Save(st, s, session).sessions[s] \in Session
              /\ Settled(Save(st, s, session).sessions[s])
              /\ \A t \in SessionIds \ {s} :
                    Save(st, s, session).sessions[t] = store.sessions[t]
  <2>1. Touch(session) \in Session /\ Settled(Touch(session))
    BY <1>6, <1>10, TouchSettled DEF Settled
  <2>2. QED
    BY <1>9, <2>1, PutType DEF Save
<1>11. /\ store'.sessions[s] \in Session /\ Settled(store'.sessions[s])
       /\ \A t \in SessionIds \ {s} : store'.sessions[t] = store.sessions[t]
  <2>1. CASE reply.outcome = "queued"
    <3>1. /\ RecordEvent(st.sessions[s], "call_queued") \in Session
          /\ Kept(RecordEvent(st.sessions[s], "call_queued"), requested)
      BY <1>6, <1>9, RecordEventType
    <3>2. store' = Save(st, s, RecordEvent(st.sessions[s], "call_queued"))
      BY <1>2, <2>1 DEF AfterPlacing
    <3>3. QED
      BY <1>10, <3>1, <3>2 DEF Kept, Counts
  <2>2. CASE reply.outcome \in {"refused", "no_uuid"}
    <3> DEFINE failed == AdvanceTo(st.sessions[s], "failed")
               noted == RecordEvent(failed, "call_request_failed")
    <3>1. failed \in Session /\ Kept(failed, requested)
      BY <1>6, <1>9, AdvanceToType DEF Stages
    <3>2. noted \in Session /\ Kept(noted, failed)
      BY <3>1, RecordEventType
    <3>3. store' = Save(st, s, noted)
      BY <1>2, <2>2 DEF AfterPlacing
    <3> HIDE DEF noted, failed
    <3>4. QED
      BY <1>10, <3>1, <3>2, <3>3 DEF Kept, Counts
  <2>3. CASE reply.outcome = "lost"
    BY <1>2, <1>6, <1>9, <2>3 DEF AfterPlacing
  <2>4. QED
    BY <1>3, <2>1, <2>2, <2>3
<1>12. store'.sessions[s] # None
  BY <1>11, SessionAssumption
<1>13. Writes(s)
  BY <1>4, <1>11, <1>12 DEF Writes, AllSettled, Stored
<1>14. QED
  BY <1>1, <1>12, <1>13

\* A call whose line drops is over; it stays whose it was.
LEMMA DropEnds ==
    ASSUME Inv, NEW u \in CallUuids, LineDrops(u)
    PROVE  /\ calls'[u].status = "ended" /\ calls'[u].session_id = calls[u].session_id
           /\ \A v \in CallUuids \ {u} : calls'[v] = calls[v]
<1>1. /\ Over(calls[u]).status = "ended"
      /\ Over(calls[u]).session_id = calls[u].session_id
  BY DEF Over, NoCall
<1>2. calls' = [calls EXCEPT ![u] = Over(calls[u])] /\ calls \in [CallUuids -> Call]
  BY DEF LineDrops, Inv, TypeOK
<1>3. QED
  BY <1>1, <1>2

\* Plivo and the caller, and a lost webhook, leave the sessions and whose they
\* are alone.
LEMMA PlivoWrites ==
    ASSUME Inv, NEW u \in CallUuids,
           RingingEnds(u) \/ PlivoProceeds(u) \/ CallerPresses(u) \/ CallerHangsUp(u)
              \/ CallerWalksAway(u) \/ Lose(u) \/ TimesOut(u)
    PROVE  /\ UNCHANGED store
           /\ \A v \in CallUuids : calls'[v].session_id = calls[v].session_id
<1>1. calls \in [CallUuids -> Call]
  BY DEF Inv, TypeOK
<1>2. ASSUME NEW url, NEW digits, NEW dial_status, NEW call \in Call,
             call.session_id = calls[u].session_id, Send(u, url, digits, dial_status, call)
      PROVE  /\ UNCHANGED store
             /\ \A v \in CallUuids : calls'[v].session_id = calls[v].session_id
  <2> DEFINE sent == [url |-> url, call_uuid |-> u, digits |-> digits,
                      dial_status |-> dial_status]
             new == [call EXCEPT !.doc = None, !.awaiting = sent]
  <2>1. new.session_id = calls[u].session_id
    BY <1>2 DEF Call
  <2>2. calls' = [calls EXCEPT ![u] = new] /\ UNCHANGED store
    BY <1>2 DEF Send
  <2> HIDE DEF new
  <2>3. QED
    BY <1>1, <2>1, <2>2
<1>3. ASSUME LineDrops(u)
      PROVE  \A v \in CallUuids : calls'[v].session_id = calls[v].session_id
  BY <1>3, DropEnds
<1>4. ASSUME NEW call \in Call, call.session_id = calls[u].session_id, FallThrough(u, call)
      PROVE  /\ UNCHANGED store
             /\ \A v \in CallUuids : calls'[v].session_id = calls[v].session_id
  BY <1>2, <1>3, <1>4 DEF FallThrough
<1>5. ASSUME GivesUp(u)
      PROVE  /\ UNCHANGED store
             /\ \A v \in CallUuids : calls'[v].session_id = calls[v].session_id
  BY <1>1, <1>2, <1>3, <1>5 DEF GivesUp
<1>6. CASE RingingEnds(u)
  <2>1. [calls[u] EXCEPT !.status = "live"] \in Call
        /\ [calls[u] EXCEPT !.status = "live"].session_id = calls[u].session_id
    BY <1>1 DEF Call
  <2>2. QED
    BY <1>2, <1>3, <1>6, <2>1 DEF RingingEnds, Answer, NoAnswer
<1>7. CASE PlivoProceeds(u)
  <2> DEFINE call == [calls[u] EXCEPT !.streak = CountUpTo(@, MaxInvalidInputs)]
  <2>1. call \in Call /\ call.session_id = calls[u].session_id
    BY <1>1, Bounds, CountUpToType DEF Call
  <2>2. CASE CallerSilent(u)
    BY <1>4, <2>1, <2>2 DEF CallerSilent
  <2>3. CASE DocumentSpoken(u)
    BY <1>1, <1>4, <2>3 DEF DocumentSpoken
  <2>4. CASE DialEnds(u)
    BY <1>1, <1>2, <2>4 DEF DialEnds
  <2>5. CASE HangsUp(u)
    BY <1>3, <2>5 DEF HangsUp
  <2>6. CASE WebhookFailed(u)
    BY <1>5, <2>6 DEF WebhookFailed
  <2>7. QED
    BY <1>7, <2>2, <2>3, <2>4, <2>5, <2>6 DEF PlivoProceeds
<1>8. CASE CallerPresses(u)
  <2>1. PICK digits \in OtpEntries \cup MenuKeys :
           Send(u, calls[u].doc.get_digits, digits, "", AfterPressing(calls[u], digits))
    BY <1>8 DEF CallerPresses
  <2>2. /\ AfterPressing(calls[u], digits) \in Call
        /\ AfterPressing(calls[u], digits).session_id = calls[u].session_id
    BY <1>1, PressingType
  <2>3. QED
    BY <1>2, <2>1, <2>2
<1>9. CASE CallerHangsUp(u) \/ TimesOut(u)
  BY <1>3, <1>5, <1>9 DEF CallerHangsUp, TimesOut
<1>10. CASE CallerWalksAway(u)
  BY <1>1, <1>10 DEF CallerWalksAway, Call
<1>11. CASE Lose(u)
  BY <1>11 DEF Lose
<1>12. QED
  BY <1>6, <1>7, <1>8, <1>9, <1>10, <1>11

\* Every placed call still has its session, if the step that wrote one took no
\* other away and every call stays with its own or gets the one written.
LEMMA WritesKeep ==
    ASSUME Inv, Inv', KeptInv, NEW s \in SessionIds, Writes(s),
           \A v \in CallUuids :
              \/ calls'[v].session_id = calls[v].session_id
              \/ calls'[v].session_id = s /\ store'.sessions[s] # None
    PROVE  KeptInv'
<1>1. ASSUME NEW v \in CallUuids, calls'[v].status # "unplaced"
      PROVE  SessionOf(v)' # None
  <2>1. calls'[v].session_id \in SessionIds
    BY <1>1 DEF Inv, TypeOK, PlacedOK, Call
  <2>2. CASE calls'[v].session_id = calls[v].session_id
    <3>1. calls[v].status # "unplaced"
      BY <2>1, <2>2, SessionAssumption DEF Inv, PlacedOK
    <3>2. store.sessions[calls[v].session_id] # None
      BY <2>1, <2>2, <3>1, SessionAssumption DEF KeptInv, SessionOf
    <3>3. QED
      BY <2>1, <2>2, <3>2, SessionAssumption DEF Writes, SessionOf
  <2>3. CASE calls'[v].session_id = s /\ store'.sessions[s] # None
    BY <2>3, SessionAssumption DEF SessionOf
  <2>4. QED
    BY <2>2, <2>3
<1>2. AllSettled(store')
  BY DEF Writes
<1>3. QED
  BY <1>1, <1>2 DEF KeptInv, AllSettled, Settled, Recreated

\* Nothing that may happen, as long as the process runs on, loses a session.
LEMMA NextKept ==
    ASSUME SessionsKept, Inv, CallersInv, KeptInv, [Next]_vars
    PROVE  KeptInv'
<1>1. Inv' /\ AllSettled(store) /\ store \in Store
  BY NextKeeps DEF KeptInv, AllSettled, Settled, Recreated, Inv, TypeOK
<1>2. ASSUME \A t \in SessionIds : store'.sessions[t] = store.sessions[t],
             \A v \in CallUuids : calls'[v].session_id = calls[v].session_id
      PROVE  KeptInv'
  <2>1. ASSUME NEW v \in CallUuids, calls'[v].status # "unplaced"
        PROVE  SessionOf(v)' # None
    BY <1>1, <1>2, <2>1, SessionAssumption
       DEF KeptInv, SessionOf, Inv, PlacedOK, TypeOK, Call
  <2>2. AllSettled(store')
    BY <1>1, <1>2 DEF AllSettled, Stored
  <2>3. QED
    BY <2>1, <2>2 DEF KeptInv, AllSettled, Settled, Recreated
<1>3. ASSUME NEW u \in CallUuids, Handle(u)
      PROVE  KeptInv'
  <2>1. PICK w, r, session, doc : Handling(u, w, r, session, doc)
    BY <1>3, HandleHandled, HandledKnows
  <2>2. Writes(calls[u].session_id) /\ calls[u].session_id \in SessionIds
    BY <2>1, HandledWrites DEF Handling
  <2>3. \A v \in CallUuids : calls'[v].session_id = calls[v].session_id
    BY <2>1, HandledCalls
  <2>4. QED
    BY <1>1, <2>2, <2>3, WritesKeep
<1>4. ASSUME NEW u \in CallUuids,
             RingingEnds(u) \/ PlivoProceeds(u) \/ CallerPresses(u) \/ CallerHangsUp(u)
                \/ CallerWalksAway(u) \/ Lose(u) \/ TimesOut(u)
      PROVE  KeptInv'
  BY <1>2, <1>4, PlivoWrites
<1>5. ASSUME NEW u \in CallUuids, PlaceOutboundCall(u)
      PROVE  KeptInv'
  <2>1. PICK s \in SessionIds :
           /\ Writes(s) /\ store'.sessions[s] # None
           /\ \/ calls' = [calls EXCEPT ![u].status = "ringing", ![u].session_id = s]
              \/ calls' = calls
    BY <1>5, PlaceWrites
  <2>2. \A v \in CallUuids : calls'[v].session_id \in {calls[v].session_id, s}
    BY <2>1 DEF Inv, TypeOK, Call
  <2>3. QED
    BY <1>1, <2>1, <2>2, WritesKeep
<1>6. ASSUME NEW s \in SessionIds, EndCall(s)
      PROVE  KeptInv'
  <2>1. Writes(s)
    BY <1>6, EndCallWrites
  <2>2. \A v \in CallUuids : calls'[v].session_id = calls[v].session_id
    BY <1>6, EndCallWrites, DropEnds
  <2>3. QED
    BY <1>1, <2>1, <2>2, WritesKeep
<1>7. CASE ReadCalls
  BY <1>1, <1>2, <1>7, NothingExpires DEF ReadCalls
<1>8. CASE Restart \/ Tick
  BY <1>8 DEF SessionsKept, Restart, Tick, Spend
<1>9. CASE UNCHANGED vars
  BY <1>2, <1>9 DEF vars
<1>10. QED
  BY <1>3, <1>4, <1>5, <1>6, <1>7, <1>8, <1>9 DEF Next

(***************************************************************************)
(* As long as the process runs on, nothing outlasts the TTL and the store  *)
(* has room for every session, every placed call has its session and none  *)
(* was ever recreated: the session is created before Plivo is told of it,  *)
(* and every handler saves it under the id in the URLs.                    *)
(***************************************************************************)
THEOREM KeptHolds == ASSUME SessionsKept PROVE Spec => []KeptInv
<1>1. Init => KeptInv
  BY DEF Init, KeptInv, EmptyStore, Stored, NoCall
<1>2. Inv /\ CallersInv /\ KeptInv /\ [Next]_vars => KeptInv'
  BY NextKept
<1>3. QED
  BY <1>1, <1>2, InvHolds, CallersHold, PTL DEF Spec

(***************************************************************************)
(* Then no webhook ever finds its session missing.                         *)
(***************************************************************************)
THEOREM NeverRecreatedHolds == ASSUME SessionsKept PROVE Spec => []NeverRecreated
<1>1. KeptInv => NeverRecreated
  BY DEF KeptInv, NeverRecreated
<1>2. QED
  BY <1>1, KeptHolds, PTL

\* What the session of a call that is playing knows, if it was never lost.
LEMMA KnowsExactly ==
    ASSUME Inv, CallersInv, KeptInv, NEW u \in CallUuids, Playing(u)
    PROVE  LET session == SessionOf(u)
               says == calls[u].doc.says
           IN  /\ session \in Session /\ calls[u] \in Call
               /\ calls[u].wrongs = session.otp_attempts
               /\ MaxOtpAttempts = 0 \/ session.otp_attempts < MaxOtpAttempts
                     \/ says = "exhausted"
               /\ calls[u].streak = session.consecutive_unrecognized_inputs
               /\ session.consecutive_unrecognized_inputs < MaxInvalidInputs
                     \/ says = "goodbye"
               /\ says = "exhausted" => AttemptsExhausted(session)
<1> DEFINE session == SessionOf(u)
<1>1. /\ calls[u] \in Call /\ session \in Session \cup {None}
      /\ LiveOK(u, calls[u], FlyingOf(u), session)
      /\ calls[u].doc # None /\ calls[u].session_id \in SessionIds
      /\ calls[u].status # "unplaced"
  BY PlayingCaller DEF Playing
<1>2. session # None /\ session = store.sessions[calls[u].session_id]
  BY <1>1, SessionAssumption DEF KeptInv, SessionOf
<1>3. ~Recreated(session)
  BY <1>1, <1>2 DEF KeptInv, Stored, Recreated
<1> HIDE DEF session
<1>4. calls[u].awaiting = None /\ SessionFits(u, calls[u], session)
  BY <1>1, <1>2 DEF LiveOK
<1>5. /\ calls[u].wrongs = session.otp_attempts
      /\ MaxOtpAttempts = 0 \/ session.otp_attempts < MaxOtpAttempts
            \/ calls[u].doc.says = "exhausted"
  BY <1>3, <1>4 DEF SessionFits, AttemptsFit, Recreated
<1>6. /\ calls[u].streak = session.consecutive_unrecognized_inputs
      /\ session.consecutive_unrecognized_inputs < MaxInvalidInputs
            \/ calls[u].doc.says = "goodbye"
      /\ calls[u].doc.says = "exhausted" => AttemptsExhausted(session)
  BY <1>1, <1>3, <1>4 DEF SessionFits, Remembered, Recreated
<1>7. QED
  BY <1>1, <1>2, <1>5, <1>6 DEF session

(***************************************************************************)
(* Then the cap on wrong codes is exact: nobody who used OTP_MAX_ATTEMPTS  *)
(* up is asked again, nobody else is thrown out for it (verify_otp),       *)
(* whatever webhooks were lost or answered late.                           *)
(***************************************************************************)
THEOREM OtpCapHolds == ASSUME SessionsKept PROVE Spec => []OtpCapKept
<1>1. Inv /\ CallersInv /\ KeptInv => OtpCapKept
  <2> SUFFICES ASSUME Inv, CallersInv, KeptInv, NEW u \in CallUuids, Playing(u),
                      MaxOtpAttempts # 0
               PROVE  /\ calls[u].doc.says = "otp_prompt" => calls[u].wrongs < MaxOtpAttempts
                      /\ calls[u].doc.says = "exhausted" => calls[u].wrongs = MaxOtpAttempts
    BY DEF OtpCapKept
  <2>1. SessionOf(u).otp_attempts \in 0..MaxOtpAttempts /\ MaxOtpAttempts \in Nat
    BY KnowsExactly, Bounds DEF Session
  <2>2. QED
    BY <2>1, KnowsExactly DEF AttemptsExhausted
<1>2. QED
  BY <1>1, InvHolds, CallersHold, KeptHolds, PTL

(***************************************************************************)
(* Then a caller is prompted only while fewer than MaxInvalidInputs        *)
(* prompts in a row got nothing recognised, whichever endpoints served     *)
(* them (register_no_input, register_invalid_selection and the resets).    *)
(***************************************************************************)
THEOREM ToleranceHolds == ASSUME SessionsKept PROVE Spec => []ToleranceKept
<1>1. Inv /\ CallersInv /\ KeptInv => ToleranceKept
  BY KnowsExactly DEF ToleranceKept, Prompts
<1>2. QED
  BY <1>1, InvHolds, CallersHold, KeptHolds, PTL

-----------------------------------------------------------------------------
(* The stage, whatever is lost or late *)

\* The document a handler answers with is what the stage it leaves stands for,
\* if it found the session at a stage it expects; a session it recreated keeps
\* the stage it was recreated with where the handler sets none.
LEMMA AnswersStage ==
    ASSUME NEW w, NEW s, NEW old, NEW new, NEW doc, Answers(w, s, old, new, doc),
           w.url.route # "HANGUP_EVENT", Recreated(new) <=> Recreated(old),
           StageMet(old, w.url.route) \/ (Unstaged(old) /\ ~old.is_authenticated)
    PROVE  \/ new.stage \in StagesOf(doc.says)
           \/ /\ Unstaged(new) /\ w.url.route \in {"OTP_VERIFY", "ASSOCIATE_DIAL_STATUS"}
              /\ doc.says \in {"otp_prompt", "unavailable"}
<1>1. CASE AnswersAnybody(w, s, old, new, doc)
  <2>1. \/ doc.says = "otp_prompt" /\ new.stage = "awaiting_otp"
        \/ w.url.route = "OTP_VERIFY" /\ doc.says = "otp_prompt" /\ new.stage = old.stage
        \/ doc.says = "goodbye" /\ new.stage \in {"completed", "failed"}
        \/ doc.says = "otp_accepted" /\ new.stage = "authenticated"
        \/ doc.says \in {"exhausted", "technical"} /\ new.stage = "failed"
        \/ /\ w.url.route = "ASSOCIATE_DIAL_STATUS"
           /\ doc.says = "unavailable" /\ new.stage = old.stage
    BY <1>1, BuildersSay DEF AnswersAnybody, Asks, Parts, WrongCode
  <2>2. QED
    BY <2>1 DEF StagesOf, StageMet, StagesAwaiting, Unstaged, Recreated
<1>2. CASE old.is_authenticated /\ AnswersPastCode(w, s, old, new, doc)
  <2>1. \/ doc.says = "language_menu" /\ new.stage = "language_menu"
        \/ /\ w.url.route = "LANGUAGE_SELECT"
           /\ doc.says = "language_menu" /\ new.stage = old.stage
        \/ doc.says = "main_menu" /\ new.stage = "main_menu"
        \/ /\ w.url.route = "MAIN_MENU_SELECT"
           /\ doc.says = "main_menu" /\ new.stage = old.stage
        \/ doc.says = "goodbye" /\ new.stage = "completed"
        \/ doc.says = "audio" /\ new.stage = "playing_audio"
        \/ doc.says = "connecting" /\ new.stage = "connecting_associate"
    BY <1>2, BuildersSay DEF AnswersPastCode, Asks, Parts
  <2>2. QED
    BY <1>2, <2>1 DEF StagesOf, StageMet, StagesAwaiting
<1>3. CASE doc = BuildOtpPrompt(s) /\ new.stage = "awaiting_otp"
  BY <1>3, BuildersSay DEF StagesOf
<1>4. QED
  BY <1>1, <1>2, <1>3 DEF Answers

\* What StageInv says of one call.
StageOK(call, flying, session) ==
    call.status = "live" =>
        /\ "timeout" \notin Faults => flying \subseteq {call.awaiting}
        /\ session # None => StageFits(call, session)

\* A session as a step leaves it that is not its own call's: gone, or at its stage.
SameStage(new, old) ==
    \/ new = None
    \/ old # None /\ new.stage = old.stage /\ (Recreated(new) <=> Recreated(old))

\* What is left alone or lost is.
LEMMA StageLeft ==
    ASSUME NEW new, NEW old, new \in {None, old}
    PROVE  SameStage(new, old)
BY DEF SameStage

\* A call the step does not concern.
LEMMA StageUndisturbed ==
    ASSUME Inv, StageInv, NEW v \in CallUuids,
           calls'[v].status = calls[v].status, calls'[v].doc = calls[v].doc,
           calls'[v].awaiting = calls[v].awaiting,
           calls'[v].session_id = calls[v].session_id,
           \A w \in inflight' : w.call_uuid = v => w \in inflight,
           \A t \in SessionIds : t = calls[v].session_id =>
              SameStage(store'.sessions[t], store.sessions[t])
    PROVE  StageOK(calls[v], FlyingOf(v), SessionOf(v))'
<1>1. SameStage(SessionOf(v)', SessionOf(v))
  BY StageLeft DEF SessionOf, Inv, TypeOK, Call
<1>2. FlyingOf(v)' \subseteq FlyingOf(v)
  BY DEF FlyingOf
<1>3. calls[v].status = "live" =>
         /\ "timeout" \notin Faults => FlyingOf(v) \subseteq {calls[v].awaiting}
         /\ SessionOf(v) # None => StageFits(calls[v], SessionOf(v))
  BY DEF StageInv
<1>4. SessionOf(v)' # None /\ StageFits(calls[v], SessionOf(v))
         => StageFits(calls'[v], SessionOf(v)')
  BY <1>1 DEF SameStage, StageFits, StageSaying, StageMet, Unstaged, Recreated
<1>5. SessionOf(v)' # None => SessionOf(v) # None
  BY <1>1 DEF SameStage
<1>6. QED
  BY <1>2, <1>3, <1>4, <1>5 DEF StageOK

\* Nobody but one call is concerned, and it is where it should be.
LEMMA StageStep ==
    ASSUME Inv, StageInv, NEW u \in CallUuids,
           \A v \in CallUuids \ {u} : calls'[v] = calls[v],
           \A w \in inflight' : w.call_uuid # u => w \in inflight,
           \A v \in CallUuids \ {u}, t \in SessionIds : t = calls[v].session_id =>
              SameStage(store'.sessions[t], store.sessions[t]),
           StageOK(calls[u], FlyingOf(u), SessionOf(u))'
    PROVE  StageInv'
<1>1. ASSUME NEW v \in CallUuids \ {u}
      PROVE  StageOK(calls[v], FlyingOf(v), SessionOf(v))'
  BY StageUndisturbed
<1>2. \A v \in CallUuids : StageOK(calls[v], FlyingOf(v), SessionOf(v))'
  BY <1>1
<1>3. QED
  BY <1>2 DEF StageOK, StageInv

\* A step that concerns nobody.
LEMMA StageQuiet ==
    ASSUME Inv, StageInv, inflight' \subseteq inflight,
           \A t \in SessionIds : SameStage(store'.sessions[t], store.sessions[t]),
           \A v \in CallUuids :
              /\ calls'[v].status = calls[v].status /\ calls'[v].doc = calls[v].doc
              /\ calls'[v].awaiting = calls[v].awaiting
              /\ calls'[v].session_id = calls[v].session_id
    PROVE  StageInv'
<1>1. \A v \in CallUuids : StageOK(calls[v], FlyingOf(v), SessionOf(v))'
  BY StageUndisturbed
<1>2. QED
  BY <1>1 DEF StageOK, StageInv

\* A call whose line drops is in no stage that matters.
LEMMA DropStage ==
    ASSUME Inv, StageInv, NEW u \in CallUuids, LineDrops(u),
           \A t \in SessionIds : t # calls[u].session_id =>
              SameStage(store'.sessions[t], store.sessions[t])
    PROVE  StageInv'
<1>1. /\ calls'[u].status = "ended"
      /\ \A v \in CallUuids \ {u} : calls'[v] = calls[v]
  BY DropEnds
<1>2. HangupWebhook(u).call_uuid = u /\ inflight' = inflight \cup {HangupWebhook(u)}
  BY DEF HangupWebhook, LineDrops
<1>3. \A v \in CallUuids \ {u} : calls[v].session_id \in SessionIds =>
         calls[v].session_id # calls[u].session_id
  BY SessionAssumption DEF Inv, OwnersApart, Owner
<1>4. StageOK(calls[u], FlyingOf(u), SessionOf(u))'
  BY <1>1 DEF StageOK
<1>5. QED
  BY <1>1, <1>2, <1>3, <1>4, StageStep

\* A live call sends a webhook whose handler expects the stage it will find.
LEMMA SendStage ==
    ASSUME Inv, StageInv, NEW u \in CallUuids, NEW call \in Call, NEW url \in Url,
           NEW digits, NEW dial_status, Send(u, url, digits, dial_status, call),
           call.session_id = calls[u].session_id,
           "timeout" \notin Faults => FlyingOf(u) = {},
           SessionOf(u) # None => StageMet(SessionOf(u), url.route)
    PROVE  StageInv'
<1> DEFINE sent == [url |-> url, call_uuid |-> u, digits |-> digits,
                    dial_status |-> dial_status]
           new == [call EXCEPT !.doc = None, !.awaiting = sent]
<1>1. /\ calls' = [calls EXCEPT ![u] = new] /\ inflight' = inflight \cup {sent}
      /\ UNCHANGED store /\ calls \in [CallUuids -> Call]
  BY DEF Send, Inv, TypeOK
<1>2. sent.url = url /\ sent.call_uuid = u
  OBVIOUS
<1> HIDE DEF sent
<1>3. new.doc = None /\ new.awaiting = sent /\ new.session_id = calls[u].session_id
  BY DEF Call
<1> HIDE DEF new
<1>4. calls'[u] = new /\ \A v \in CallUuids \ {u} : calls'[v] = calls[v]
  BY <1>1
<1>5. SessionOf(u)' = SessionOf(u)
  BY <1>1, <1>3, <1>4 DEF SessionOf
<1>6. FlyingOf(u)' \subseteq FlyingOf(u) \cup {sent}
  BY <1>1 DEF FlyingOf
<1>7. StageOK(calls[u], FlyingOf(u), SessionOf(u))'
  BY <1>2, <1>3, <1>4, <1>5, <1>6 DEF StageOK, StageFits
<1>8. \A t \in SessionIds : SameStage(store'.sessions[t], store.sessions[t])
  BY <1>1, StageLeft
<1>9. QED
  BY <1>1, <1>2, <1>4, <1>7, <1>8, StageStep

\* What is known of a call that is playing.
LEMMA PlayingStage ==
    ASSUME Inv, CallersInv, StageInv, NEW u \in CallUuids, Playing(u)
    PROVE  /\ "timeout" \notin Faults => FlyingOf(u) = {}
           /\ SessionOf(u) \in Session \cup {None}
           /\ SessionOf(u) # None => StageSaying(SessionOf(u), calls[u].doc.says)
<1>1. /\ LiveOK(u, calls[u], FlyingOf(u), SessionOf(u)) /\ calls[u].status = "live"
      /\ SessionOf(u) \in Session \cup {None} /\ FlyingOf(u) \subseteq Webhook
      /\ calls[u].doc # None
  BY PlayingCaller DEF Playing
<1>2. calls[u].awaiting = None
  BY <1>1 DEF LiveOK
<1>3. /\ "timeout" \notin Faults => FlyingOf(u) \subseteq {calls[u].awaiting}
      /\ SessionOf(u) # None => StageFits(calls[u], SessionOf(u))
  BY <1>1 DEF StageInv
<1>4. QED
  BY <1>1, <1>2, <1>3, FlowAssumption DEF StageFits

\* A handler that sets a stage does not mind which it finds.
LEMMA AnyStageMet ==
    ASSUME NEW route,
           route \notin {"OTP_VERIFY", "LANGUAGE_SELECT", "MAIN_MENU_SELECT",
                         "ASSOCIATE_DIAL_STATUS"},
           NEW session \in Session
    PROVE  StageMet(session, route)
<1>1. StagesAwaiting(route) = Stages
  BY DEF StagesAwaiting
<1>2. QED
  BY <1>1 DEF StageMet, Session

\* Past what it says, a document leads on or ends the call.
LEMMA FallThroughStage ==
    ASSUME Inv, CallersInv, StageInv, NEW u \in CallUuids, Playing(u),
           NEW call \in Call, call.session_id = calls[u].session_id,
           call.doc = calls[u].doc, FallThrough(u, call),
           calls[u].doc.redirect # None =>
              calls[u].doc.redirect.route \in {"OTP_PROMPT", "LANGUAGE_MENU", "MAIN_MENU"}
    PROVE  StageInv'
<1>1. CASE calls[u].doc.redirect = None
  BY <1>1, StageLeft, DropStage DEF FallThrough
<1>2. CASE calls[u].doc.redirect # None
  <2>1. calls[u].doc.redirect \in Url
    BY <1>2, PlayingFacts
  <2>2. /\ "timeout" \notin Faults => FlyingOf(u) = {}
        /\ SessionOf(u) \in Session \cup {None}
    BY PlayingStage
  <2>3. SessionOf(u) # None => StageMet(SessionOf(u), calls[u].doc.redirect.route)
    BY <1>2, <2>2, AnyStageMet
  <2>4. Send(u, calls[u].doc.redirect, "", "", call)
    BY <1>2 DEF FallThrough
  <2>5. QED
    BY <2>1, <2>2, <2>3, <2>4, SendStage
<1>3. QED
  BY <1>1, <1>2

\* A caller presses, or says nothing, or listens to the end.
LEMMA HeardStage ==
    ASSUME Inv, CallersInv, StageInv, NEW u \in CallUuids,
           CallerPresses(u) \/ CallerSilent(u) \/ DocumentSpoken(u) \/ DialEnds(u)
    PROVE  StageInv'
<1> DEFINE doc == calls[u].doc
           s == calls[u].session_id
           chosen == calls[u].chosen
<1>1. Playing(u)
  BY DEF CallerPresses, CallerSilent, DocumentSpoken, DialEnds
<1>2. /\ calls[u] \in Call /\ s \in SessionIds /\ chosen \in Languages \cup {None}
      /\ LiveOK(u, calls[u], FlyingOf(u), SessionOf(u)) /\ doc # None
      /\ doc \in DocumentsOf(s, chosen)
      /\ \A url \in {doc.get_digits, doc.dial, doc.redirect} : url # None => url \in Url
  BY <1>1, PlayingCaller, PlayingFacts DEF Playing, LiveOK, Call
<1>3. /\ "timeout" \notin Faults => FlyingOf(u) = {}
      /\ SessionOf(u) # None => StageSaying(SessionOf(u), doc.says)
  BY <1>1, PlayingStage
<1>4. \A route, lang, reason : CallbackUrl(route, s, lang, reason).route = route
  BY DEF CallbackUrl
<1>5. CASE CallerPresses(u)
  <2>1. PICK digits : Send(u, doc.get_digits, digits, "", AfterPressing(calls[u], digits))
    BY <1>5 DEF CallerPresses
  <2>2. /\ AfterPressing(calls[u], digits) \in Call
        /\ AfterPressing(calls[u], digits).session_id = s
    BY <1>2, PressingType
  <2>3. doc.get_digits # None /\ doc.get_digits \in Url
    BY <1>2, <1>5 DEF CallerPresses
  <2>4. \/ doc.says = "otp_prompt" /\ doc.get_digits.route = "OTP_VERIFY"
        \/ doc.says = "language_menu" /\ doc.get_digits.route = "LANGUAGE_SELECT"
        \/ doc.says = "main_menu" /\ doc.get_digits.route = "MAIN_MENU_SELECT"
    BY <1>2, <1>4, <2>3, AsksMeans
  <2>5. SessionOf(u) # None => StageMet(SessionOf(u), doc.get_digits.route)
    BY <1>3, <2>4 DEF StageSaying, StageMet, StagesOf, StagesAwaiting
  <2> HIDE DEF doc
  <2>6. QED
    BY <1>3, <2>1, <2>2, <2>3, <2>5, SendStage
<1>6. CASE CallerSilent(u)
  <2> DEFINE call == [calls[u] EXCEPT !.streak = CountUpTo(@, MaxInvalidInputs)]
  <2>1. call \in Call /\ call.session_id = s /\ call.doc = doc
    BY <1>2, Bounds, CountUpToType DEF Call
  <2>2. FallThrough(u, call) /\ doc.get_digits # None
    BY <1>6 DEF CallerSilent
  <2>3. doc.redirect.route \in {"OTP_PROMPT", "LANGUAGE_MENU", "MAIN_MENU"}
    BY <1>2, <1>4, <2>2, AsksMeans
  <2> HIDE DEF call
  <2>4. QED
    BY <1>1, <2>1, <2>2, <2>3, FallThroughStage
<1>7. CASE DocumentSpoken(u)
  <2>1. FallThrough(u, calls[u]) /\ doc.get_digits = None /\ doc.dial = None /\ ~doc.hangup
    BY <1>7 DEF DocumentSpoken
  <2>2. doc.redirect.route \in {"OTP_PROMPT", "LANGUAGE_MENU", "MAIN_MENU"}
    BY <1>2, <1>4, <2>1, SpokenMeans
  <2>3. QED
    BY <1>1, <1>2, <2>1, <2>2, FallThroughStage
<1>8. CASE DialEnds(u)
  <2>1. PICK status \in DialStatuses : Send(u, doc.dial, "", status, calls[u])
    BY <1>8 DEF DialEnds
  <2>2. doc.dial # None /\ doc.dial \in Url
    BY <1>2, <1>8 DEF DialEnds
  <2>3. doc.says = "connecting" /\ doc.dial.route = "ASSOCIATE_DIAL_STATUS"
    BY <1>2, <1>4, <2>2, DialsMeans
  <2>4. SessionOf(u) # None => StageMet(SessionOf(u), doc.dial.route)
    BY <1>3, <2>3 DEF StageSaying, StageMet, StagesOf, StagesAwaiting
  <2> HIDE DEF doc
  <2>5. QED
    BY <1>2, <1>3, <2>1, <2>2, <2>4, SendStage
<1>9. QED
  BY <1>5, <1>6, <1>7, <1>8

\* A call that is answered, or whose webhook is answered too late or never.
LEMMA LineStage ==
    ASSUME Inv, CallersInv, StageInv, NEW u \in CallUuids,
           RingingEnds(u) \/ WebhookFailed(u) \/ TimesOut(u)
    PROVE  StageInv'
<1>1. /\ calls[u] \in Call /\ FlyingOf(u) \subseteq Webhook
      /\ SessionOf(u) \in Session \cup {None}
  BY DEF Inv, TypeOK, FlyingOf, SessionOf, Call, Store
<1>2. calls[u].status \in {"ringing", "live"} => calls[u].session_id \in SessionIds
  BY <1>1 DEF Call, Inv, PlacedOK
<1>3. \A route \in {"ANSWER", "FALLBACK"} :
         /\ SessionOf(u) # None => StageMet(SessionOf(u), route)
         /\ calls[u].session_id \in SessionIds =>
               /\ CallbackUrl(route, calls[u].session_id, None, None) \in Url
               /\ CallbackUrl(route, calls[u].session_id, None, None).route = route
  BY <1>1, AnyStageMet, CallbackUrlType DEF CallbackUrl, Routes
<1>4. CASE Answer(u)
  <2> DEFINE call == [calls[u] EXCEPT !.status = "live"]
  <2>1. call \in Call /\ call.session_id = calls[u].session_id
    BY <1>1 DEF Call
  <2>2. /\ calls[u].status = "ringing"
        /\ Send(u, CallbackUrl("ANSWER", calls[u].session_id, None, None), "", "", call)
    BY <1>4 DEF Answer
  <2>3. FlyingOf(u) = {}
    BY <2>2 DEF CallersInv, CallerOK, Unheard
  <2> HIDE DEF call
  <2>4. QED
    BY <1>2, <1>3, <2>1, <2>2, <2>3, SendStage
<1>5. CASE NoAnswer(u)
  BY <1>5, StageLeft, DropStage DEF NoAnswer
<1>6. CASE WebhookFailed(u) \/ TimesOut(u)
  <2>1. calls[u].awaiting # None /\ GivesUp(u)
    BY <1>6, FlowAssumption DEF WebhookFailed, TimesOut, Inv, TypeOK
  <2>2. calls[u].status = "live"
    BY <2>1 DEF Inv, PlacedOK
  <2>3. "timeout" \notin Faults => FlyingOf(u) = {}
    <3>1. "timeout" \notin Faults => calls[u].awaiting \notin inflight
      BY <1>6 DEF WebhookFailed, TimesOut, Spend
    <3>2. QED
      BY <2>2, <3>1 DEF StageInv, FlyingOf
  <2>4. CASE calls[u].awaiting.url.route = "ANSWER"
    <3>1. Send(u, CallbackUrl("FALLBACK", calls[u].session_id, None, None), "", "", calls[u])
      BY <2>1, <2>4 DEF GivesUp
    <3>2. QED
      BY <1>1, <1>2, <1>3, <2>2, <2>3, <3>1, SendStage
  <2>5. CASE calls[u].awaiting.url.route # "ANSWER"
    BY <2>1, <2>5, StageLeft, DropStage DEF GivesUp
  <2>6. QED
    BY <2>4, <2>5
<1>7. QED
  BY <1>4, <1>5, <1>6 DEF RingingEnds

\* What a call that was waiting is answered with, and the stage saved with it.
LEMMA ServedStage ==
    ASSUME Inv, CallersInv, StageInv, NEW u \in CallUuids, NEW w, NEW r, NEW session, NEW doc,
           Handling(u, w, r, session, doc), calls[u].status = "live", calls[u].awaiting = w
    PROVE  \/ session.stage \in StagesOf(doc.says)
           \/ /\ Unstaged(session) /\ w.url.route \in {"OTP_VERIFY", "ASSOCIATE_DIAL_STATUS"}
              /\ doc.says \in {"otp_prompt", "unavailable"}
<1> DEFINE id == calls[u].session_id
<1>1. /\ w \in Webhook /\ id \in SessionIds /\ r.session_id = id /\ Resolved(w, r)
      /\ Answers(w, id, r.session, session, doc)
      /\ Recreated(session) <=> Recreated(r.session)
  BY DEF Handling, Effect
<1>2. w # None /\ w.url.route # "HANGUP_EVENT"
  BY <1>1, PlayingCaller, FlowAssumption DEF LiveOK, Awaitable
<1>3. CASE r.found = FALSE
  <2>1. Unstaged(r.session) /\ ~r.session.is_authenticated
    BY <1>1, <1>3 DEF Resolved, Unstaged, Recreated
  <2>2. QED
    BY <1>1, <1>2, <2>1, AnswersStage
<1>4. CASE r.found = TRUE
  <2>1. r.session = store.sessions[id] /\ r.session # None
    BY <1>1, <1>4, SessionAssumption DEF Resolved, Shrinks
  <2>2. SessionOf(u) = r.session
    BY <1>1, <2>1, SessionAssumption DEF SessionOf
  <2>3. StageMet(r.session, w.url.route)
    BY <1>2, <2>1, <2>2 DEF StageInv, StageFits
  <2>4. QED
    BY <1>1, <1>2, <2>3, AnswersStage
<1>5. QED
  BY <1>1, <1>3, <1>4 DEF Resolved

\* A handler answers its call, or is too late to be heard.
LEMMA HandledStage ==
    ASSUME Inv, CallersInv, StageInv, NEW u \in CallUuids, Handled(u)
    PROVE  StageInv'
<1>1. PICK w, r, session, doc : Handling(u, w, r, session, doc)
  BY HandledKnows
<1> DEFINE id == calls[u].session_id
<1>2. /\ w \in inflight /\ w \in Webhook /\ w.call_uuid = u /\ id \in SessionIds
      /\ r.session_id = id /\ session \in Session
      /\ Resolved(w, r) /\ Allowed(w, r, session, doc) /\ Respond(w, r, session, doc)
      /\ inflight' = inflight \ {w} /\ calls[u].status \in {"live", "ended"}
  BY <1>1 DEF Handling, Respond, Allowed
<1>3. /\ store'.sessions[id] = Touch(session)
      /\ \A t \in SessionIds \ {id} : SameStage(store'.sessions[t], store.sessions[t])
  BY <1>2, RespondStore, StageLeft
<1>4. /\ \A v \in CallUuids \ {u} : calls'[v] = calls[v]
      /\ calls'[u].session_id = id /\ calls'[u].status = calls[u].status
  BY <1>1, HandledCalls
<1>5. \A v \in CallUuids \ {u}, t \in SessionIds : t = calls[v].session_id => t # id
  BY <1>2, SessionAssumption DEF Inv, OwnersApart, Owner
<1>6. /\ SessionOf(u)' = Touch(session) /\ Touch(session) \in Session
      /\ Touch(session).stage = session.stage
      /\ Recreated(Touch(session)) <=> Recreated(session)
  <2>1. SessionOf(u)' = Touch(session)
    BY <1>2, <1>3, <1>4, SessionAssumption DEF SessionOf
  <2>2. QED
    BY <1>2, <2>1, TouchType DEF Kept, Counts
<1>7. StageOK(calls[u], FlyingOf(u), SessionOf(u))'
  <2>1. CASE calls[u].status = "ended"
    BY <1>4, <2>1 DEF StageOK
  <2>2. CASE calls[u].status = "live" /\ calls[u].awaiting = w
    <3>1. calls'[u].doc = doc /\ calls'[u].awaiting = None
      BY <1>1, <2>2, HandledCalls
    <3>2. StageSaying(Touch(session), doc.says)
      BY <1>1, <1>6, <2>2, ServedStage DEF StageSaying, Unstaged, Recreated
    <3>3. "timeout" \notin Faults => FlyingOf(u)' = {}
      BY <1>2, <2>2 DEF StageInv, FlyingOf
    <3>4. QED
      BY <1>6, <3>1, <3>2, <3>3 DEF StageOK, StageFits
  <2>3. CASE calls[u].status = "live" /\ calls[u].awaiting # w
    <3>1. calls'[u] = calls[u] /\ w \in FlyingOf(u)
      BY <1>1, <1>2, <2>3, HandledCalls DEF FlyingOf
    <3>2. "timeout" \in Faults
      BY <2>3, <3>1 DEF StageInv
    <3>3. LiveOK(u, calls[u], FlyingOf(u), SessionOf(u))
      BY <2>3, PlayingCaller
    <3>4. CASE calls[u].doc # None /\ calls[u].doc.says = "technical"
      <4>1. calls[u].awaiting = None
        BY <3>3, <3>4 DEF LiveOK
      <4>2. QED
        BY <1>6, <3>1, <3>2, <3>4, <4>1 DEF StageOK, StageFits, StageSaying
    <3>5. CASE calls[u].awaiting # None /\ calls[u].awaiting.url.route = "FALLBACK"
      <4>1. calls[u].doc = None
        BY <3>3, <3>5 DEF LiveOK
      <4>2. StageMet(Touch(session), "FALLBACK")
        BY <1>6, AnyStageMet
      <4>3. QED
        BY <1>6, <3>1, <3>2, <3>5, <4>1, <4>2 DEF StageOK, StageFits
    <3>6. QED
      BY <2>3, <3>1, <3>3, <3>4, <3>5 DEF LiveOK
  <2>4. QED
    BY <1>2, <2>1, <2>2, <2>3
<1>8. QED
  BY <1>2, <1>3, <1>4, <1>5, <1>7, StageStep

\* The operator's hangup moves no stage but that of the call it ends.
LEMMA EndCallStage ==
    ASSUME Inv, StageInv, NEW s \in SessionIds, EndCall(s)
    PROVE  StageInv'
<1> DEFINE st == EvictExpired(store)
           noted == RecordEvent(st.sessions[s], "call_ended_by_operator")
           closed == AdvanceTo(noted, "completed")
<1>1. st \in Store /\ \A t \in SessionIds : st.sessions[t] \in {None, store.sessions[t]}
  BY EvictExpiredShrinks DEF Inv, TypeOK, Shrinks
<1>2. CASE EndCallRejected
  <2>1. store' = st /\ UNCHANGED <<calls, inflight>>
    BY <1>2 DEF EndCallRejected
  <2>2. \A t \in SessionIds : SameStage(store'.sessions[t], store.sessions[t])
    BY <1>1, <2>1, StageLeft
  <2> HIDE DEF st
  <2>3. QED
    BY <2>1, <2>2, StageQuiet
<1>3. CASE EndCallAccepted(s)
  <2>1. PICK u \in CallUuids : st.sessions[s].call_uuid = u /\ LineDrops(u)
    BY <1>3 DEF EndCallAccepted
  <2>2. /\ s \in Stored(st)
        /\ store' = Put(st, s, Touch(closed)) \/ store' = st
    BY <1>3 DEF EndCallAccepted, Save
  <2>3. /\ st.sessions[s] \in Session /\ store.sessions[s] # None
        /\ st.sessions[s] = store.sessions[s]
    BY <1>1, <2>2 DEF Store, Stored
  <2>4. calls[u].session_id = s
    BY <2>1, <2>3, SessionAssumption DEF Inv, StoreFits, Owner
  <2>5. noted \in Session
    BY <2>3, RecordEventType
  <2>6. closed \in Session
    BY <2>5, AdvanceToType DEF Stages
  <2>7. Touch(closed) \in Session
    BY <2>6, TouchType
  <2> HIDE DEF st, noted, closed
  <2>8. \A t \in SessionIds \ {s} : store'.sessions[t] = st.sessions[t]
    BY <1>1, <2>2, <2>7, PutType
  <2>9. \A t \in SessionIds : t # s => SameStage(store'.sessions[t], store.sessions[t])
    BY <1>1, <2>8, StageLeft
  <2>10. QED
    BY <2>1, <2>4, <2>9, DropStage
<1>4. QED
  BY <1>2, <1>3 DEF EndCall

\* A call placed is not live, and its session was nobody's.
LEMMA PlacedStage ==
    ASSUME Inv, StageInv, NEW u \in CallUuids, PlaceOutboundCall(u)
    PROVE  StageInv'
<1>1. PICK s \in SessionIds, reply \in PlaceReplies :
         /\ Fresh(s)
         /\ \E st \in Create(store, s, RecordEvent(NewCallSession(None), "call_requested")) :
               store' = AfterPlacing(st, s, reply.outcome)
         /\ calls' = IF reply.rings
                     THEN [calls EXCEPT ![u].status = "ringing", ![u].session_id = s]
                     ELSE calls
  BY DEF PlaceOutboundCall
<1>2. reply.outcome \in {"queued", "refused", "no_uuid", "lost"}
  BY DEF PlaceReplies, Reply
<1>3. PICK room : Shrinks(room, store) /\ Placed(s, room, store')
  BY <1>1, <1>2, PlacingPlaces
<1>4. \A t \in SessionIds \ {s} : SameStage(store'.sessions[t], store.sessions[t])
  BY <1>3, StageLeft DEF Placed, Shrinks
<1>5. /\ calls[u].status = "unplaced" /\ UNCHANGED inflight
      /\ calls \in [CallUuids -> Call]
  BY DEF PlaceOutboundCall, Inv, TypeOK
<1>6. calls'[u].status # "live" /\ \A v \in CallUuids \ {u} : calls'[v] = calls[v]
  BY <1>1, <1>5 DEF Call
<1>7. \A v \in CallUuids \ {u}, t \in SessionIds : t = calls[v].session_id =>
         SameStage(store'.sessions[t], store.sessions[t])
  BY <1>1, <1>4 DEF Fresh
<1>8. StageOK(calls[u], FlyingOf(u), SessionOf(u))'
  BY <1>6 DEF StageOK
<1>9. QED
  BY <1>5, <1>6, <1>7, <1>8, StageStep

\* Restarts and time lose sessions and move none.
LEMMA ServerStage ==
    ASSUME Inv, StageInv, ReadCalls \/ Restart \/ Tick
    PROVE  StageInv'
<1>1. UNCHANGED <<calls, inflight>> /\ store \in Store
  BY DEF ReadCalls, Restart, Tick, Inv, TypeOK
<1>2. CASE ReadCalls
  <2>1. Shrinks(store', store)
    BY <1>1, <1>2, EvictExpiredShrinks DEF ReadCalls
  <2>2. \A t \in SessionIds : SameStage(store'.sessions[t], store.sessions[t])
    BY <2>1, StageLeft DEF Shrinks
  <2>3. QED
    BY <1>1, <2>2, StageQuiet
<1>3. CASE Restart
  <2>1. \A t \in SessionIds : SameStage(store'.sessions[t], store.sessions[t])
    BY <1>3 DEF Restart, EmptyStore, SameStage
  <2>2. QED
    BY <1>1, <2>1, StageQuiet
<1>4. CASE Tick
  <2>1. \A t \in SessionIds :
           store'.sessions[t] = IF store.sessions[t] = None THEN None
                                ELSE [store.sessions[t] EXCEPT !.idle = CountUpTo(@, TTL + 1)]
    BY <1>1, <1>4 DEF Tick, Age, Store
  <2>2. ASSUME NEW t \in SessionIds
        PROVE  SameStage(store'.sessions[t], store.sessions[t])
    <3>1. CASE store.sessions[t] = None
      BY <2>1, <3>1 DEF SameStage
    <3>2. CASE store.sessions[t] # None
      <4>1. store.sessions[t] \in Session
        BY <1>1, <3>2 DEF Store
      <4>2. /\ Kept(store'.sessions[t], store.sessions[t])
            /\ store'.sessions[t].stage = store.sessions[t].stage
        BY <2>1, <3>2, <4>1, IdleType
      <4>3. QED
        BY <3>2, <4>2 DEF SameStage, Kept, Counts
    <3>3. QED
      BY <3>1, <3>2
  <2>3. QED
    BY <1>1, <2>2, StageQuiet
<1>5. QED
  BY <1>2, <1>3, <1>4

\* Nothing that may happen parts the stage from the caller.
LEMMA NextStage ==
    ASSUME Inv, CallersInv, StageInv, [Next]_vars
    PROVE  StageInv'
<1>1. ASSUME NEW u \in CallUuids, Handle(u)
      PROVE  StageInv'
  BY <1>1, HandleHandled, HandledStage
<1>2. ASSUME NEW u \in CallUuids,
             RingingEnds(u) \/ PlivoProceeds(u) \/ CallerPresses(u) \/ TimesOut(u)
      PROVE  StageInv'
  <2>1. CASE HangsUp(u)
    BY <2>1, StageLeft, DropStage DEF HangsUp
  <2>2. QED
    BY <1>2, <2>1, HeardStage, LineStage DEF PlivoProceeds
<1>3. ASSUME NEW u \in CallUuids, CallerHangsUp(u)
      PROVE  StageInv'
  BY <1>3, StageLeft, DropStage DEF CallerHangsUp
<1>4. ASSUME NEW u \in CallUuids, CallerWalksAway(u) \/ Lose(u)
      PROVE  StageInv'
  <2>1. /\ inflight' \subseteq inflight /\ UNCHANGED store
        /\ calls \in [CallUuids -> Call]
    BY <1>4 DEF CallerWalksAway, Lose, Inv, TypeOK
  <2>2. \A t \in SessionIds : SameStage(store'.sessions[t], store.sessions[t])
    BY <2>1, StageLeft
  <2>3. ASSUME NEW v \in CallUuids
        PROVE  /\ calls'[v].status = calls[v].status /\ calls'[v].doc = calls[v].doc
               /\ calls'[v].awaiting = calls[v].awaiting
               /\ calls'[v].session_id = calls[v].session_id
    BY <1>4, <2>1 DEF CallerWalksAway, Lose, Call
  <2>4. QED
    BY <2>1, <2>2, <2>3, StageQuiet
<1>5. ASSUME NEW u \in CallUuids, PlaceOutboundCall(u)
      PROVE  StageInv'
  BY <1>5, PlacedStage
<1>6. ASSUME NEW s \in SessionIds, EndCall(s)
      PROVE  StageInv'
  BY <1>6, EndCallStage
<1>7. CASE ReadCalls \/ Restart \/ Tick
  BY <1>7, ServerStage
<1>8. CASE UNCHANGED vars
  <2>1. UNCHANGED <<store, calls, inflight>>
    BY <1>8 DEF vars
  <2>2. \A t \in SessionIds : SameStage(store'.sessions[t], store.sessions[t])
    BY <2>1, StageLeft
  <2>3. QED
    BY <2>1, <2>2, StageQuiet
<1>9. QED
  BY <1>1, <1>2, <1>3, <1>4, <1>5, <1>6, <1>7, <1>8 DEF Next

(***************************************************************************)
(* The stage saved by one handler is the one the next handler finds,       *)
(* unless the session was lost in between: whatever else happens.          *)
(***************************************************************************)
THEOREM StageHolds == Spec => []StageInv
<1>1. Init => StageInv
  BY DEF Init, StageInv, NoCall
<1>2. Inv /\ CallersInv /\ StageInv /\ [Next]_vars => StageInv'
  BY NextStage
<1>3. QED
  BY <1>1, <1>2, InvHolds, CallersHold, PTL DEF Spec

\* What ServedInStage says of one step.
ServedStep ==
    \A u \in CallUuids : Served(u) =>
        LET session == store'.sessions[calls[u].session_id]
        IN  \/ session.stage \in StagesOf(calls'[u].doc.says)
            \/ /\ Unstaged(session)
               /\ calls[u].awaiting.url.route \in {"OTP_VERIFY", "ASSOCIATE_DIAL_STATUS"}

(***************************************************************************)
(* Whatever was lost or is late, a document is served with its session at  *)
(* the stage the document stands for, unless verify_otp or the dial-status *)
(* endpoint has just recreated it (_resolve_session), or was asked before  *)
(* and recreated it then.                                                  *)
(***************************************************************************)
THEOREM ServedInStageHolds == Spec => ServedInStage
<1>1. Inv /\ CallersInv /\ StageInv /\ [Next]_vars => [ServedStep]_vars
  <2> SUFFICES ASSUME Inv, CallersInv, StageInv, [Next]_vars, NEW u \in CallUuids, Served(u)
               PROVE  LET session == store'.sessions[calls[u].session_id]
                      IN  \/ session.stage \in StagesOf(calls'[u].doc.says)
                          \/ /\ Unstaged(session)
                             /\ calls[u].awaiting.url.route
                                   \in {"OTP_VERIFY", "ASSOCIATE_DIAL_STATUS"}
    BY DEF ServedStep
  <2>1. PICK v \in CallUuids : Handled(v)
    BY NextCases DEF NothingStarts, Served
  <2>2. PICK w, r, session, doc : Handling(v, w, r, session, doc)
    BY <2>1, HandledKnows
  <2>3. v = u /\ calls[u].awaiting = w /\ calls'[u].doc = doc
    BY <2>2, HandledCalls DEF Served
  <2>4. w # None /\ calls[u].status = "live"
    BY <2>2, <2>3, FlowAssumption DEF Handling, Inv, PlacedOK
  <2>5. \/ session.stage \in StagesOf(doc.says)
        \/ Unstaged(session) /\ w.url.route \in {"OTP_VERIFY", "ASSOCIATE_DIAL_STATUS"}
    BY <2>2, <2>3, <2>4, ServedStage
  <2>6. /\ session \in Session
        /\ store'.sessions[calls[u].session_id] = Touch(session)
    BY <2>2, <2>3, RespondStore DEF Handling, Allowed
  <2>7. /\ Touch(session).stage = session.stage
        /\ Recreated(Touch(session)) <=> Recreated(session)
    BY <2>6, TouchType DEF Kept, Counts
  <2>8. QED
    BY <2>3, <2>5, <2>6, <2>7 DEF Unstaged, Recreated
<1>2. [][ServedStep]_vars => ServedInStage
  BY PTL DEF ServedInStage, ServedStep
<1>3. QED
  BY <1>1, <1>2, InvHolds, CallersHold, StageHolds, PTL DEF Spec

(***************************************************************************)
(* The stage shown to the operator is what is being played, as long as no  *)
(* session is lost and Plivo waits for every answer: a call sends one      *)
(* webhook at a time, and the handlers that set no stage (a wrong code, a  *)
(* stray key, a failed transfer) find the one they mean to keep.           *)
(***************************************************************************)
THEOREM StageTracksHolds ==
    ASSUME SessionsKept, "timeout" \notin Faults
    PROVE  Spec => []StageTracksCaller
<1>1. Inv /\ CallersInv /\ KeptInv /\ StageInv => StageTracksCaller
  <2> SUFFICES ASSUME Inv, CallersInv, KeptInv, StageInv, NEW u \in CallUuids, Playing(u),
                      calls[u].session_id \in Stored(store)
               PROVE  store.sessions[calls[u].session_id].stage \in StagesOf(calls[u].doc.says)
    BY DEF StageTracksCaller
  <2>1. /\ SessionOf(u) = store.sessions[calls[u].session_id]
        /\ SessionOf(u) # None /\ ~Unstaged(SessionOf(u))
    BY SessionAssumption DEF SessionOf, Stored, KeptInv, Unstaged
  <2>2. QED
    BY <2>1, PlayingStage DEF StageSaying
<1>2. QED
  BY <1>1, InvHolds, CallersHold, KeptHolds, StageHolds, PTL
=============================================================================
