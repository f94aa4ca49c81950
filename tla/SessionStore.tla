---------------------------- MODULE SessionStore ----------------------------
(***************************************************************************)
(* The in-memory session store (app/services/call_session_store.py): a     *)
(* dictionary of sessions, a secondary index from Plivo's call id, a time  *)
(* to live enforced lazily by most accesses, and a cap enforced by create. *)
(*                                                                         *)
(* A store is a record; every method of the class is an operator from the  *)
(* store to the next one, or to the set of stores it may become where the  *)
(* code's choice depends on timestamps finer than the model's clock.       *)
(***************************************************************************)
EXTENDS CallSession

CONSTANT MaxSessions   \* the cap on stored sessions (1000 in the code)

ASSUME StoreAssumption ==
    /\ MaxSessions \in Nat \ {0}
    /\ IsFiniteSet(SessionIds)

Store == [sessions : [SessionIds -> Session \cup {None}],
          call_uuid_index : [CallUuids -> SessionIds \cup {None}]]

EmptyStore == [sessions |-> [s \in SessionIds |-> None],
               call_uuid_index |-> [u \in CallUuids |-> None]]

Stored(st) == {s \in SessionIds : st.sessions[s] # None}

\* Bug: the index is not cleaned.
RemoveLeavingIndex(st, ids) ==
    [st EXCEPT !.sessions = [s \in SessionIds |->
                                IF s \in ids THEN None ELSE st.sessions[s]]]

\* Bug: when a session goes the index is started over.
RemoveClearingIndex(st, ids) ==
    [sessions |-> [s \in SessionIds |-> IF s \in ids THEN None ELSE st.sessions[s]],
     call_uuid_index |-> IF ids \cap Stored(st) = {} THEN st.call_uuid_index
                         ELSE [u \in CallUuids |-> None]]

\* Take sessions out, and with each the index entry of its call.
Remove(st, ids) ==
    LET gone == ids \cap Stored(st)
        calls_gone == {st.sessions[s].call_uuid : s \in gone}
    IN  [sessions |-> [s \in SessionIds |->
                          IF s \in gone THEN None ELSE st.sessions[s]],
         call_uuid_index |-> [u \in CallUuids |->
                          IF u \in calls_gone THEN None ELSE st.call_uuid_index[u]]]

Expired(st) == {s \in Stored(st) : st.sessions[s].idle > TTL}

EvictExpired(st) == Remove(st, Expired(st))

\* Bug: no room is made for the session about to be stored.
OverflowOffByOne(st) == Cardinality(Stored(st)) - MaxSessions

Overflow(st) == Cardinality(Stored(st)) - MaxSessions + 1

\* Room for one more: the least recently updated sessions go.  Sessions the
\* clock cannot tell apart may go in any order.
EnforceCapacity(st) ==
    LET Oldest(ids) == \A out \in ids, kept \in Stored(st) \ ids :
                           st.sessions[out].idle >= st.sessions[kept].idle
    IN  IF Overflow(st) <= 0
        THEN {st}
        ELSE {Remove(st, ids) : ids \in
                 {x \in SUBSET Stored(st) : Cardinality(x) = Overflow(st) /\ Oldest(x)}}

\* Store the session under its id and index the call it is attached to.
Put(st, session_id, session) ==
    [sessions |-> [st.sessions EXCEPT ![session_id] = session],
     call_uuid_index |->
        [u \in CallUuids |-> IF u = session.call_uuid
                             THEN session_id ELSE st.call_uuid_index[u]]]

Create(st, session_id, session) ==
    {Put(room, session_id, session) : room \in EnforceCapacity(EvictExpired(st))}

Save(st, session_id, session) == Put(st, session_id, Touch(session))

\* The id of the session the index leads to, None when it leads nowhere.
GetByCallUuid(st, call_uuid) ==
    LET session_id == st.call_uuid_index[call_uuid]
    IN  IF session_id \in Stored(st) THEN session_id ELSE None

Delete(st, session_id) == Remove(st, {session_id})

\* One tick of the clock: every session has been idle for one tick more.
Age(st) ==
    [st EXCEPT !.sessions = [s \in SessionIds |->
        IF st.sessions[s] = None THEN None
        ELSE [st.sessions[s] EXCEPT !.idle = CountUpTo(@, TTL + 1)]]]
=============================================================================
