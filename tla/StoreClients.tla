---------------------------- MODULE StoreClients ----------------------------
(***************************************************************************)
(* The session store by itself (app/services/call_session_store.py), every *)
(* method of it, called by clients in any order: the call API, webhooks    *)
(* whose URL carries our session id, events whose URL does not (for which  *)
(* the index from Plivo's call id is kept), and the maintenance methods.   *)
(*                                                                         *)
(* CallFlow has what a webhook does to its session; here it is saved, and  *)
(* attached to its call or not.                                            *)
(***************************************************************************)
EXTENDS SessionStore, Sequences, FiniteSetsExt

CONSTANTS
    Maintenance,   \* which of the methods that only tests and operators call are called
    MaxListed      \* the longest list a client is given (100 in the code)

ASSUME ClientsAssumption ==
    /\ Maintenance \subseteq {"delete", "clear"}
    /\ MaxListed \in Nat \ {0}

VARIABLES
    store,
    session_ids,   \* the session id in the URLs of each call
    older          \* by created_at: <<s, t>> when s was created before t

vars == <<store, session_ids, older>>

Init ==
    /\ store = EmptyStore
    /\ session_ids = [u \in CallUuids |-> None]
    /\ older = {}

\* new_session_id() never returns an id anybody still knows.
Fresh(s) == s \notin Stored(store) /\ \A u \in CallUuids : session_ids[u] # s

\* A new session object is the youngest.
NowCreated(s) ==
    older' = {p \in older : s \notin {p[1], p[2]}} \cup ((SessionIds \ {s}) \X {s})

-----------------------------------------------------------------------------
(* list_recent, and the endpoint that calls it *)

\* seq[:limit]
Slice(seq, limit) ==
    IF limit >= 0 THEN SubSeq(seq, 1, Min({limit, Len(seq)}))
    ELSE SubSeq(seq, 1, Max({0, Len(seq) + limit}))

\* sorted(..., key=created_at, reverse=True): all of them, one after the other.
Sorted(listed, ids) ==
    /\ \A i, j \in DOMAIN listed : i < j => <<listed[j], listed[i]>> \in older
    /\ \A s \in ids : \E i \in DOMAIN listed : listed[i] = s

NewestFirst(st) ==
    CHOOSE listed \in [1..Cardinality(Stored(st)) -> Stored(st)] : Sorted(listed, Stored(st))

ListRecent(st, limit) == Slice(NewestFirst(EvictExpired(st)), limit)

\* Bug: the limit is taken as it comes.
BoundedLimitUnchecked(limit) == limit

BoundedLimit(limit) == Max({1, Min({limit, MaxListed})})

\* GET /api/calls?limit=...
ListRecentCalls(limit) == ListRecent(store, BoundedLimit(limit))

-----------------------------------------------------------------------------
PlaceCall(u) ==
    /\ session_ids[u] = None
    /\ \E s \in SessionIds :
          /\ Fresh(s)
          /\ store' \in Create(store, s, NewCallSession(None))
          /\ session_ids' = [session_ids EXCEPT ![u] = s]
          /\ NowCreated(s)

\* The handlers of the answer and of the hangup event attach, others do not.
Saved(st, s, u) ==
    \E session \in {st.sessions[s], [st.sessions[s] EXCEPT !.call_uuid = u]} :
        store' = Save(st, s, session)

\* _resolve_session found the session.
Found(st, s, u) == Saved(st, s, u) /\ UNCHANGED older

\* It did not: a new one, attached from the start.
Recreated(s, u) ==
    /\ \E st \in Create(store, s, NewCallSession(u)) : store' = Save(st, s, st.sessions[s])
    /\ NowCreated(s)

Webhook(u) ==
    /\ session_ids[u] # None
    /\ LET st == EvictExpired(store)
           s == session_ids[u]
           by_call == GetByCallUuid(st, u)
       IN  \/ s \in Stored(st) /\ Found(st, s, u)
           \/ s \notin Stored(st) /\ by_call # None /\ Found(st, by_call, u)
           \/ s \notin Stored(st) /\ by_call = None /\ Recreated(s, u)
    /\ UNCHANGED session_ids

\* An event of the call at a URL without our session id.
ForeignEvent(u) ==
    /\ session_ids[u] # None
    /\ LET st == EvictExpired(store)
           by_call == GetByCallUuid(st, u)
       IN  \/ by_call # None /\ Found(st, by_call, u)
           \/ by_call = None /\ \E s \in SessionIds : Fresh(s) /\ Recreated(s, u)
    /\ UNCHANGED session_ids

\* get, get_by_call_uuid, list_recent: reading evicts.
Read ==
    /\ store' = EvictExpired(store)
    /\ UNCHANGED <<session_ids, older>>

DeleteSession(s) ==
    /\ "delete" \in Maintenance
    /\ store' = Delete(store, s)
    /\ UNCHANGED <<session_ids, older>>

Clear ==
    /\ "clear" \in Maintenance
    /\ store' = EmptyStore
    /\ UNCHANGED <<session_ids, older>>

Tick ==
    /\ store' = Age(store)
    /\ UNCHANGED <<session_ids, older>>

Next ==
    \/ \E u \in CallUuids : PlaceCall(u) \/ Webhook(u) \/ ForeignEvent(u)
    \/ \E s \in SessionIds : DeleteSession(s)
    \/ Read
    \/ Clear
    \/ Tick

Spec == Init /\ [][Next]_vars

-----------------------------------------------------------------------------
(***************************************************************************)
(* Whatever is stored, attached, deleted, evicted or expired, in whichever *)
(* order: the index never leads to a session that is gone, or to another   *)
(* call's.                                                                 *)
(***************************************************************************)
IndexLeadsHome ==
    \A u \in CallUuids :
        LET s == store.call_uuid_index[u]
        IN  s # None => s \in Stored(store) /\ store.sessions[s].call_uuid = u

\* A session of the call besides this one.
HasTwin(st, u, s) == \E t \in Stored(st) \ {s} : st.sessions[t].call_uuid = u

(***************************************************************************)
(* A session that stays stored keeps its index entry, whatever is stored,  *)
(* deleted, evicted or expired besides it.  Only another session of the    *)
(* same call can take the entry away: by being indexed itself, or by       *)
(* leaving, for then the code pops the call's entry wherever it leads.     *)
(***************************************************************************)
EntryKept ==
    [][\A u \in CallUuids, s \in SessionIds :
          /\ store.call_uuid_index[u] = s
          /\ s \in Stored(store) \cap Stored(store')
          => \/ store'.call_uuid_index[u] = s
             \/ HasTwin(store, u, s)
             \/ HasTwin(store', u, s)]_vars

\* The list for one limit: in order, and nothing younger than a session listed
\* is left out.
ListedFor(limit) ==
    LET listed == ListRecentCalls(limit)
        here == Stored(EvictExpired(store))
    IN  /\ \A i \in DOMAIN listed :
              /\ listed[i] \in here
              /\ \A j \in DOMAIN listed : i < j => <<listed[j], listed[i]>> \in older
              /\ \A s \in here : (\A j \in DOMAIN listed : listed[j] # s) => <<s, listed[i]>> \in older
        /\ here # {} => listed # <<>>
        /\ Len(listed) <= MaxListed

(***************************************************************************)
(* Whatever limit the client asks for, zero, negative and too large ones   *)
(* included, the list begins with the call placed or recreated last, goes  *)
(* on with the one before it, and so on; a session that expired is not on  *)
(* it, and it is never longer than the cap.                                *)
(***************************************************************************)
NewestListed == \A limit \in -2..3 : ListedFor(limit)
=============================================================================
