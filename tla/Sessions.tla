------------------------------ MODULE Sessions ------------------------------
(***************************************************************************)
(* The list of a user's sessions (api/app/core/sessions.py and the session *)
(* endpoints of routers/auth.py), kept in Redis: an index of session ids   *)
(* and one key per session.  Each pipeline runs as one transaction; what   *)
(* it does was decided from an index read before it.  Redis answers: the   *)
(* in-process list of a single worker without Redis is not modelled.       *)
(***************************************************************************)
EXTENDS Integers, FiniteSets

CONSTANTS
  Handlers,    \* requests at work at the same time
  Ids,         \* session ids: random, so their order is any order
  MaxSessions  \* MAX_CONCURRENT_SESSIONS

SessionsAssumption ==
  IsFiniteSet(Handlers) /\ IsFiniteSet(Ids) /\ MaxSessions \in Nat

VARIABLES
  index,   \* session:user:<user>
  live,    \* session:<user>:<id> keys that exist
  call,    \* what each request is at: the ids it will remove, the id it adds
  late     \* history: ids added while a revoke-all was under way

vars == <<index, live, call, late>>

Call == [at : {"idle", "create", "revoke", "revoke_all"},
         add : SUBSET Ids, remove : SUBSET Ids]
Idle == [at |-> "idle", add |-> {}, remove |-> {}]

Init ==
  /\ index = {} /\ live = {} /\ late = {}
  /\ call = [h \in Handlers |-> Idle]

Begin(h, at, add, remove) ==
  /\ call[h] = Idle
  /\ call' = [call EXCEPT ![h] = [at |-> at, add |-> add, remove |-> remove]]

Done(h) == call' = [call EXCEPT ![h] = Idle]

Fresh == Ids \ (index \cup live \cup UNION {call[h].add \cup call[h].remove : h \in Handlers})

\* uuid4: ids differ only in how the eviction orders them, and that is open.
NewId == CHOOSE s \in Fresh : TRUE

\* The ids to evict: those beyond the maximum, the new one not counted.
Excess ==
  {r \in SUBSET index :
     Cardinality(r) = IF Cardinality(index) > MaxSessions
                      THEN Cardinality(index) - MaxSessions ELSE 0}

\* create_session, called with every pair that is issued: the index is read ...
CreateReads(h) ==
  /\ Fresh # {}
  /\ \E r \in Excess : Begin(h, "create", {NewId}, r)
  /\ UNCHANGED <<index, live, late>>

\* Variant: eviction leaves the keys of the evicted sessions.
CreateWrites_keepsKeys(h) ==
  /\ call[h].at = "create"
  /\ index' = (index \cup call[h].add) \ call[h].remove
  /\ live' = live \cup call[h].add
  /\ late' = IF \E g \in Handlers : call[g].at = "revoke_all"
             THEN late \cup call[h].add ELSE late \ call[h].add
  /\ Done(h)

\* ... and the pipeline adds the new session and drops the evicted ones.
CreateWrites(h) ==
  /\ call[h].at = "create"
  /\ index' = (index \cup call[h].add) \ call[h].remove
  /\ live' = (live \cup call[h].add) \ call[h].remove
  /\ late' = IF \E g \in Handlers : call[g].at = "revoke_all"
             THEN late \cup call[h].add ELSE late \ call[h].add
  /\ Done(h)

\* revoke_session: the key, then the index entry.
RevokeKey(h, s) ==
  /\ Begin(h, "revoke", {}, {s})
  /\ live' = live \ {s}
  /\ UNCHANGED <<index, late>>

RevokeEntry(h) ==
  /\ call[h].at = "revoke"
  /\ index' = index \ call[h].remove
  /\ Done(h)
  /\ UNCHANGED <<live, late>>

\* revoke_all_sessions: the index is read ...
RevokeAllReads(h) ==
  /\ index # {}
  /\ Begin(h, "revoke_all", {}, index)
  /\ UNCHANGED <<index, live, late>>

\* ... and the pipeline deletes the keys read and the whole index.
RevokeAllWrites(h) ==
  /\ call[h].at = "revoke_all"
  /\ live' = live \ call[h].remove
  /\ index' = {}
  /\ Done(h)
  /\ UNCHANGED late

\* A key runs out after seven days; its entry stays in the index.
RunsOut(s) ==
  /\ s \in live /\ live' = live \ {s}
  /\ UNCHANGED <<index, call, late>>

Next ==
  \/ \E h \in Handlers :
       \/ CreateReads(h) \/ CreateWrites(h) \/ RevokeEntry(h)
       \/ RevokeAllReads(h) \/ RevokeAllWrites(h)
       \/ \E s \in index : RevokeKey(h, s)
  \/ \E s \in live : RunsOut(s)

Spec == Init /\ [][Next]_vars

\* list_sessions: what the owner is shown.
Listed == index \cap live

-----------------------------------------------------------------------------
TypeOK ==
  /\ index \subseteq Ids /\ live \subseteq Ids /\ late \subseteq Ids
  /\ call \in [Handlers -> Call]

\* The index never holds more than the maximum and one session per request
\* that is at work: sign-ins that overlap each read the index before any of
\* them adds to it, and a stale list of evictions frees less than it should.
SessionsBounded == Cardinality(index) <= MaxSessions + Cardinality(Handlers)

\* A session that exists is listed, so its owner can revoke it, unless it
\* was added while a revoke-all that had read the index was under way.
NoHiddenSession == live \ late \subseteq Listed

\* The owner's list is of use: it is bounded and hides nothing that exists,
\* through sign-ins and revocations that overlap.
SessionsControlled == SessionsBounded /\ NoHiddenSession
=============================================================================
