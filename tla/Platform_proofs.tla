---------------------------- MODULE Platform_proofs ----------------------------
(***************************************************************************)
(* Proofs about the components of Platform, for every value of its         *)
(* constants.  In a behaviour of Platform one part runs and stays the one  *)
(* that runs; so each theorem has the same last steps: the initial states  *)
(* of a part are those of its component, its steps those of its component  *)
(* or stutters, and what its component keeps is what the part keeps.  The  *)
(* last section is about the types of every part, those of School_proofs   *)
(* and SignIn_proofs too: what is bounded in a state is so because of the  *)
(* invariants that the other sections prove.                               *)
(***************************************************************************)
EXTENDS School_proofs, SignIn_proofs

-----------------------------------------------------------------------------
(* The components that have proofs of their own: their theorems are cited, *)
(* under the substitutions that Platform makes.                            *)

LimitsProofs == INSTANCE RateLimits_proofs WITH Handlers <- Requests

CatalogueProofs == INSTANCE Catalogue_proofs WITH
  Readers <- Requests, Seeders <- Requests, MaxVersion <- MaxSeeds, Nothing <- None,
  page <- copy, late <- lateSet

-----------------------------------------------------------------------------
(* The pool: a request runs under its own school until its first commit,   *)
(* for any number of requests, connections and schools.  That needs two    *)
(* facts more: no two requests hold one connection (PoolExclusive), and a  *)
(* request that has not committed yet holds one (PoolHolding).             *)

PoolExclusive ==
  \A r, q \in Requests :
    session[r].conn # None /\ session[r].conn = session[q].conn => r = q

PoolHolding == \A r \in Requests : session[r].at = "first" => session[r].conn \in Conns

PoolInv == TenantPool!TypeOK /\ PoolExclusive /\ PoolHolding /\ TenantPool!OwnUntilCommit

\* The value for no connection is none of the connections.
LEMMA PoolAssumed == None \notin Conns
BY PlatformAssumption DEF PlatformAssumption, TenantPool!TenantPoolAssumption

\* At first no request is at work and no connection is held.
LEMMA PoolInitInv == ASSUME TenantPool!Init PROVE PoolInv
<1>1. TenantPool!TypeOK
  BY DEF TenantPool!Init, TenantPool!Idle, TenantPool!TypeOK
<1>2. PoolExclusive /\ PoolHolding /\ TenantPool!OwnUntilCommit
  BY DEF TenantPool!Init, TenantPool!Idle, PoolExclusive, PoolHolding, TenantPool!OwnUntilCommit
<1> QED
  BY <1>1, <1>2 DEF PoolInv

\* A free connection is held by nobody, so setting it disturbs nobody.
LEMMA PoolOpenInv ==
  ASSUME PoolInv, NEW r \in Requests, NEW c \in Conns,
         NEW s \in Schools \cup {Home}, TenantPool!Open(r, s, c)
  PROVE  PoolInv'
<1>1. \A q \in Requests : session[q].conn # c
  BY DEF TenantPool!Open, TenantPool!Free
<1>2. /\ session'[r] = [at |-> "first", school |-> s, conn |-> c]
      /\ \A q \in Requests \ {r} : session'[q] = session[q]
  BY DEF TenantPool!Open, PoolInv, TenantPool!TypeOK
<1>3. /\ now'[c] = s
      /\ \A d \in Conns \ {c} : now'[d] = now[d]
  BY DEF TenantPool!Open, TenantPool!Applied, PoolInv, TenantPool!TypeOK
<1>4. TenantPool!TypeOK'
  BY DEF TenantPool!Open, TenantPool!Applied, PoolInv, TenantPool!TypeOK
<1>5. PoolExclusive'
  BY <1>1, <1>2 DEF PoolExclusive, PoolInv
<1>6. PoolHolding'
  BY <1>2 DEF PoolHolding, PoolInv
<1>7. TenantPool!OwnUntilCommit'
  <2> SUFFICES ASSUME NEW q \in Requests, session'[q].at = "first"
               PROVE  now'[session'[q].conn] = session'[q].school
    BY DEF TenantPool!OwnUntilCommit
  <2>1. CASE q = r
    BY <1>2, <1>3, <2>1
  <2>2. CASE q # r
    <3>1. session[q].at = "first" /\ session[q].conn \in Conns \ {c}
      BY <1>1, <1>2, <2>2 DEF PoolInv, PoolHolding
    <3> QED
      BY <1>2, <1>3, <2>2, <3>1 DEF PoolInv, TenantPool!OwnUntilCommit
  <2> QED
    BY <2>1, <2>2
<1> QED
  BY <1>4, <1>5, <1>6, <1>7 DEF PoolInv

\* A commit ends the claim of the request that makes it and no other.
LEMMA PoolCommitInv ==
  ASSUME PoolInv, NEW r \in Requests, TenantPool!Commit(r)
  PROVE  PoolInv'
<1>1. /\ session'[r].at = "later" /\ session'[r].conn = None
      /\ \A q \in Requests \ {r} : session'[q] = session[q]
  BY DEF TenantPool!Commit, PoolInv, TenantPool!TypeOK
<1>2. TenantPool!TypeOK'
  <2>1. session[r].conn \in Conns
    BY DEF TenantPool!Commit, PoolInv, TenantPool!TypeOK
  <2> QED
    BY <2>1 DEF TenantPool!Commit, PoolInv, TenantPool!TypeOK
<1>3. PoolExclusive'
  BY <1>1 DEF PoolExclusive, PoolInv
<1>4. PoolHolding'
  BY <1>1 DEF PoolHolding, PoolInv
<1>5. TenantPool!OwnUntilCommit'
  BY <1>1 DEF TenantPool!Commit, TenantPool!OwnUntilCommit, PoolInv
<1> QED
  BY <1>2, <1>3, <1>4, <1>5 DEF PoolInv

\* Going on takes a free connection and sets nothing.
LEMMA PoolContinueInv ==
  ASSUME PoolInv, NEW r \in Requests, NEW c \in Conns, TenantPool!Continue(r, c)
  PROVE  PoolInv'
<1>1. \A q \in Requests : session[q].conn # c
  BY DEF TenantPool!Continue, TenantPool!Free
<1>2. /\ session'[r].at = "later" /\ session'[r].conn = c
      /\ \A q \in Requests \ {r} : session'[q] = session[q]
  BY DEF TenantPool!Continue, PoolInv, TenantPool!TypeOK
<1>3. TenantPool!TypeOK'
  BY DEF TenantPool!Continue, PoolInv, TenantPool!TypeOK
<1>4. PoolExclusive'
  BY <1>1, <1>2 DEF PoolExclusive, PoolInv
<1>5. PoolHolding'
  BY <1>2 DEF PoolHolding, PoolInv
<1>6. TenantPool!OwnUntilCommit'
  BY <1>2 DEF TenantPool!Continue, TenantPool!OwnUntilCommit, PoolInv
<1> QED
  BY <1>3, <1>4, <1>5, <1>6 DEF PoolInv

\* The rollback at the end undoes what was set on the request's own
\* connection, which no other request holds.
LEMMA PoolCloseInv ==
  ASSUME PoolInv, NEW r \in Requests, TenantPool!Close(r)
  PROVE  PoolInv'
<1>1. /\ session'[r].at = "idle" /\ session'[r].conn = None
      /\ \A q \in Requests \ {r} : session'[q] = session[q]
  BY DEF TenantPool!Close, TenantPool!Idle, PoolInv, TenantPool!TypeOK
<1>2. TenantPool!TypeOK'
  <2>1. now' \in [Conns -> Schools \cup {Home}]
    BY DEF TenantPool!Close, PoolInv, TenantPool!TypeOK
  <2>2. session' \in [Requests -> [at : {"idle", "first", "later"}, school : Schools \cup {Home},
                                   conn : Conns \cup {None}]]
    BY DEF TenantPool!Close, TenantPool!Idle, PoolInv, TenantPool!TypeOK
  <2> QED
    BY <2>1, <2>2 DEF TenantPool!Close, PoolInv, TenantPool!TypeOK
<1>3. PoolExclusive'
  BY <1>1 DEF PoolExclusive, PoolInv
<1>4. PoolHolding'
  BY <1>1 DEF PoolHolding, PoolInv
<1>5. TenantPool!OwnUntilCommit'
  <2> SUFFICES ASSUME NEW q \in Requests, session'[q].at = "first"
               PROVE  now'[session'[q].conn] = session'[q].school
    BY DEF TenantPool!OwnUntilCommit
  <2>1. q # r /\ session'[q] = session[q] /\ session[q].at = "first"
    BY <1>1
  <2>2. session[q].conn \in Conns /\ session[q].conn # session[r].conn
    BY <2>1, PoolAssumed DEF PoolInv, PoolHolding, PoolExclusive
  <2>3. now'[session[q].conn] = now[session[q].conn]
    BY <2>2 DEF TenantPool!Close, PoolInv, TenantPool!TypeOK
  <2> QED
    BY <2>1, <2>3 DEF PoolInv, TenantPool!OwnUntilCommit
<1> QED
  BY <1>2, <1>3, <1>4, <1>5 DEF PoolInv

\* The invariant holds wherever the pool runs.
LEMMA PoolInvariance == PlatformSpec => [](part = "pool" => PoolInv)
<1>1. PlatformInit => (part = "pool" => PoolInv)
  BY PoolInitInv DEF PlatformInit
<1>2. (part = "pool" => PoolInv) /\ [PlatformNext]_allVars => (part = "pool" => PoolInv)'
  <2> SUFFICES ASSUME part = "pool", PoolInv, [PlatformNext]_allVars PROVE PoolInv'
    BY PartStays
  <2>1. CASE TenantPool!Next
    BY <2>1, PoolOpenInv, PoolCommitInv, PoolContinueInv, PoolCloseInv DEF TenantPool!Next
  <2>2. CASE UNCHANGED <<set, now, session>>
    BY <2>2 DEF PoolInv, TenantPool!TypeOK, PoolExclusive, PoolHolding, TenantPool!OwnUntilCommit
  <2> QED
    BY <2>1, <2>2 DEF PlatformNext, Only, allVars
<1> QED
  BY <1>1, <1>2, PTL DEF PlatformSpec

\* The state of the pool is well typed (db.py, tenant.py).
THEOREM PoolTyped == PlatformSpec => [](part = "pool" => TenantPool!TypeOK)
<1>1. (part = "pool" => PoolInv) => (part = "pool" => TenantPool!TypeOK)
  BY DEF PoolInv
<1> QED
  BY <1>1, PoolInvariance, PTL

\* A database session runs under the school of its request until its first
\* commit, whatever the connections of the pool were used for before
\* (get_db and set_tenant_context: _apply_rls_gucs sets it at the start,
\* whatever _reset_rls_gucs left behind).
THEOREM PoolKeeps == PlatformSpec => []OwnUntilCommit
<1>1. (part = "pool" => PoolInv) => OwnUntilCommit
  BY DEF PoolInv, OwnUntilCommit
<1> QED
  BY <1>1, PoolInvariance, PTL

-----------------------------------------------------------------------------
(* Login limits and the catalogue.                                         *)

\* The instances of RateLimits count and bound sets in the same way ...
LEMMA LimitsCount ==
  /\ \A S : RateLimits!Cardinality(S) = LimitsProofs!Cardinality(S)
  /\ \A S : RateLimits!IsFiniteSet(S) <=> LimitsProofs!IsFiniteSet(S)
<1>1. \A S : RateLimits!Cardinality(S) = LimitsProofs!Cardinality(S)
  BY DEF RateLimits!Cardinality, LimitsProofs!Cardinality
<1>2. \A S : RateLimits!IsFiniteSet(S) <=> LimitsProofs!IsFiniteSet(S)
  BY DEF RateLimits!IsFiniteSet, LimitsProofs!IsFiniteSet
<1> QED
  BY <1>1, <1>2

\* ... so what the one assumes of the constants the other one does.
LEMMA LimitsAssumed == LimitsProofs!RateLimitsAssumption
<1>1. RateLimits!RateLimitsAssumption
  BY PlatformAssumption DEF PlatformAssumption
<1> QED
  BY <1>1, LimitsCount DEF RateLimits!RateLimitsAssumption, LimitsProofs!RateLimitsAssumption

\* They have the same steps.
LEMMA LimitsSame == RateLimits!Next => LimitsProofs!Next
BY DEF RateLimits!Next, LimitsProofs!Next, RateLimits!Begin, LimitsProofs!Begin, RateLimits!Check,
       LimitsProofs!Check, RateLimits!CheckFails, LimitsProofs!CheckFails, RateLimits!Verify,
       LimitsProofs!Verify, RateLimits!Fail, LimitsProofs!Fail, RateLimits!Expire,
       LimitsProofs!Expire, RateLimits!Lock, LimitsProofs!Lock, RateLimits!Clear,
       LimitsProofs!Clear, RateLimits!Unlock, LimitsProofs!Unlock, RateLimits!Stop,
       LimitsProofs!Stop, RateLimits!Tick, LimitsProofs!Tick, RateLimits!Go, LimitsProofs!Go,
       RateLimits!Idle, LimitsProofs!Idle, RateLimits!AfterFailure, LimitsProofs!AfterFailure

\* The guesses from one address are bounded (register_login_failure,
\* is_locked_out_any_ip, clear_login_failures).
THEOREM GuessesStayFew == PlatformSpec => []GuessesBounded
<1>1. PlatformInit /\ part = "limits" => LimitsProofs!Init
  BY DEF PlatformInit, RateLimits!Init, LimitsProofs!Init, RateLimits!Idle, LimitsProofs!Idle
<1>2. part = "limits" /\ [PlatformNext]_allVars => [LimitsProofs!Next]_<<count, ttl, lock, login, wrong, opened, stops, orphan>>
  BY LimitsSame DEF PlatformNext, Only, allVars
<1>3. LimitsProofs!Spec => []LimitsProofs!GuessesBounded
  BY LimitsAssumed, LimitsProofs!FewGuesses
<1>4. GuessesBounded <=> (part = "limits" => LimitsProofs!GuessesBounded)
  BY LimitsCount DEF GuessesBounded, RateLimits!GuessesBounded, LimitsProofs!GuessesBounded
<1>5. [PlatformNext]_allVars => (part = "limits" <=> (part = "limits")')
  BY PartStays
<1> QED
  BY <1>1, <1>2, <1>3, <1>4, <1>5, PTL DEF PlatformSpec, LimitsProofs!Spec, LimitsProofs!vars

\* Counts and locks run out together, unless a request stopped half-way.
THEOREM WaitingEndsLocks == PlatformSpec => []WaitingHelps
<1>1. PlatformInit /\ part = "limits" => LimitsProofs!Init
  BY DEF PlatformInit, RateLimits!Init, LimitsProofs!Init, RateLimits!Idle, LimitsProofs!Idle
<1>2. part = "limits" /\ [PlatformNext]_allVars => [LimitsProofs!Next]_<<count, ttl, lock, login, wrong, opened, stops, orphan>>
  BY LimitsSame DEF PlatformNext, Only, allVars
<1>3. LimitsProofs!Spec => []LimitsProofs!WaitingHelps
  BY LimitsAssumed, LimitsProofs!WaitingIsEnough
<1>4. WaitingHelps <=> (part = "limits" => LimitsProofs!WaitingHelps)
  BY DEF WaitingHelps, RateLimits!WaitingHelps, LimitsProofs!WaitingHelps,
         RateLimits!FreshStart, LimitsProofs!FreshStart, RateLimits!CountsRunOut, LimitsProofs!CountsRunOut
<1>5. [PlatformNext]_allVars => (part = "limits" <=> (part = "limits")')
  BY PartStays
<1> QED
  BY <1>1, <1>2, <1>3, <1>4, <1>5, PTL DEF PlatformSpec, LimitsProofs!Spec, LimitsProofs!vars

\* The two instances of Catalogue have the same steps.
LEMMA CatalogueSame == Catalogue!Next => CatalogueProofs!Next
BY DEF Catalogue!Next, CatalogueProofs!Next, Catalogue!FindExisting, CatalogueProofs!FindExisting,
       Catalogue!UpsertAll, CatalogueProofs!UpsertAll, Catalogue!InvalidateCatalogueCache,
       CatalogueProofs!InvalidateCatalogueCache, Catalogue!SeederStops, CatalogueProofs!SeederStops,
       Catalogue!CacheHit, CatalogueProofs!CacheHit, Catalogue!ReadAreas, CatalogueProofs!ReadAreas,
       Catalogue!ReadStrands, CatalogueProofs!ReadStrands, Catalogue!ReadSubStrands,
       CatalogueProofs!ReadSubStrands, Catalogue!AnswerReader, CatalogueProofs!AnswerReader,
       Catalogue!CacheRunsOut, CatalogueProofs!CacheRunsOut, Catalogue!Offline, CatalogueProofs!Offline,
       Catalogue!Reload, CatalogueProofs!Reload, Catalogue!Cleared, CatalogueProofs!Cleared,
       Catalogue!Take, CatalogueProofs!Take, Catalogue!TakeLocal, CatalogueProofs!TakeLocal,
       Catalogue!Answer, CatalogueProofs!Answer, Catalogue!Idle, CatalogueProofs!Idle, Catalogue!Empty,
       CatalogueProofs!Empty, Catalogue!Least, CatalogueProofs!Least

\* The catalogue that is handed out is whole, and an old one only for the
\* reasons named (get_catalogue, invalidate_catalogue_cache, getCurriculum).
THEOREM CatalogueStaysSound == PlatformSpec => []CatalogueSound
<1>1. PlatformInit /\ part = "catalogue" => CatalogueProofs!Init
  BY DEF PlatformInit, Catalogue!Init, CatalogueProofs!Init, Catalogue!Idle, CatalogueProofs!Idle
<1>2. part = "catalogue" /\ [PlatformNext]_allVars =>
        [CatalogueProofs!Next]_<<version, cache, reader, seeder, local, copy, lateSet, missed, between>>
  BY CatalogueSame DEF PlatformNext, Only, allVars
<1>3. CatalogueProofs!Spec => []CatalogueProofs!CatalogueSound
  BY PlatformAssumption, CatalogueProofs!HandedOutSound
     DEF PlatformAssumption, Catalogue!CatalogueAssumption, CatalogueProofs!CatalogueAssumption
<1>4. CatalogueSound <=> (part = "catalogue" => CatalogueProofs!CatalogueSound)
  BY DEF CatalogueSound, Catalogue!CatalogueSound, CatalogueProofs!CatalogueSound,
         Catalogue!CacheIsFresh, CatalogueProofs!CacheIsFresh, Catalogue!NamesAreThere,
         CatalogueProofs!NamesAreThere, Catalogue!Copies, CatalogueProofs!Copies
<1>5. [PlatformNext]_allVars => (part = "catalogue" <=> (part = "catalogue")')
  BY PartStays
<1> QED
  BY <1>1, <1>2, <1>3, <1>4, <1>5, PTL DEF PlatformSpec, CatalogueProofs!Spec, CatalogueProofs!vars

-----------------------------------------------------------------------------
(* Billing: the stored subscription is one that was paid for.              *)

\* What a webhook request works on: an event that happened, and a status of
\* its subscription.
BillingHook(h) ==
  hook[h] = Billing!Idle \/
  /\ hook[h].at \in {"retrieve", "commit", "done"} /\ hook[h].event \in DOMAIN events
  /\ hook[h] = [at |-> hook[h].at, event |-> hook[h].event, seen |-> hook[h].seen, status |-> hook[h].status]
  /\ hook[h].status \in DOMAIN events
  /\ events[hook[h].status].sub = events[hook[h].event].sub
  /\ hook[h].at = "retrieve" => events[hook[h].event].kind = "completed"
  /\ hook[h].at = "commit" /\ events[hook[h].event].kind # "completed" => hook[h].seen # None /\ subscription # None
  /\ hook[h].at = "done" /\ events[hook[h].event].kind = "completed" => subscription # None

\* Without an overlap one request is at work, and the row is as it read it.
BillingAlone ==
  ~overlap =>
    /\ \A h, g \in Requests : hook[h] # Billing!Idle /\ hook[g] # Billing!Idle => h = g
    /\ \A h \in Requests : hook[h].at = "commit" /\ events[hook[h].event].kind # "completed" =>
         subscription # None /\ subscription.sub = events[hook[h].event].sub

\* A subscription starts with a checkout and has a last event.
BillingEvents ==
  /\ events \in Seq([kind : {"completed", "updated", "deleted"}, sub : Nat])
  /\ events # <<>> => events[1].kind = "completed"
  /\ \A s \in Billing!Subs : \E e \in Billing!Of(s) : \A f \in Billing!Of(s) : f <= e

BillingInv ==
  /\ BillingEvents /\ BillingAlone
  /\ hook = [h \in Requests |-> hook[h]] /\ \A h \in Requests : BillingHook(h)
  /\ answered \subseteq DOMAIN events
  /\ \A e \in answered : events[e].kind = "completed" => subscription # None
  /\ subscription # None =>
       /\ subscription \in [sub : Nat, status : DOMAIN events]
       /\ ~overlap => events[subscription.status].sub = subscription.sub

\* What it assumes of the constants: no row is None.
LEMMA BillingAssumed == MaxSubs \in Nat /\ None \notin [sub : Nat, status : Nat]
BY PlatformAssumption DEF PlatformAssumption, Billing!BillingAssumption

\* Events are what BillingEvents says of them ...
LEMMA BillingTyped ==
  ASSUME BillingInv
  PROVE  /\ \A e \in DOMAIN events : e \in Nat /\ events[e].sub \in Nat
         /\ \A s \in Billing!Subs : s \in Nat
<1> DEFINE Event == [kind : {"completed", "updated", "deleted"}, sub : Nat]
<1>1. events \in Seq(Event)
  BY DEF BillingInv, BillingEvents
<1>2. \A e \in DOMAIN events : e \in Nat /\ events[e] \in Event
  <2> HIDE DEF Event
  <2> QED
    BY <1>1
<1> QED
  BY <1>2 DEF Billing!Subs

\* ... as long as they stay.
LEMMA BillingEventsStay == ASSUME BillingEvents, UNCHANGED events PROVE BillingEvents'
BY DEF BillingEvents, Billing!Of, Billing!Subs

\* Something happens at Stripe: what was true of earlier events stays so.
LEMMA BillingHappens ==
  ASSUME BillingInv, NEW kind \in {"completed", "updated", "deleted"}, NEW s \in Nat,
         kind = "completed" \/ s \in Billing!Subs, Billing!Happens(kind, s)
  PROVE  BillingInv'
<1> DEFINE new == [kind |-> kind, sub |-> s]
<1> USE DEF Billing!Happens, Billing!Of, Billing!Subs
<1>1. events \in Seq([kind : {"completed", "updated", "deleted"}, sub : Nat])
  BY DEF BillingInv, BillingEvents
<1>2. /\ events' \in Seq([kind : {"completed", "updated", "deleted"}, sub : Nat])
      /\ Len(events) \in Nat /\ DOMAIN events = 1 .. Len(events)
      /\ DOMAIN events' = 1 .. Len(events) + 1
      /\ \A e \in DOMAIN events : events'[e] = events[e]
      /\ events'[Len(events) + 1] = new
  BY <1>1
<1>3. DOMAIN events \subseteq DOMAIN events' /\ DOMAIN events' = DOMAIN events \cup {Len(events) + 1}
  BY <1>2
<1>4. /\ UNCHANGED <<subscription, hook, answered, again, overlap>>
      /\ \A e \in DOMAIN events : events'[e] = events[e]
  BY <1>2
<1>5. BillingEvents'
  <2>1. events' # <<>> => events'[1].kind = "completed"
    <3>1. CASE events = <<>>
      BY <3>1, <1>2
    <3>2. CASE events # <<>>
      BY <3>2, <1>1, <1>2 DEF BillingInv, BillingEvents
    <3> QED
      BY <3>1, <3>2
  <2>2. ASSUME NEW t \in Billing!Subs'
        PROVE  \E e \in Billing!Of(t)' : \A f \in Billing!Of(t)' : f <= e
    <3>1. CASE t = s
      <4>1. Len(events) + 1 \in Billing!Of(t)'
        BY <3>1, <1>2
      <4>2. \A f \in Billing!Of(t)' : f <= Len(events) + 1
        BY <1>2
      <4> QED
        BY <4>1, <4>2
    <3>2. CASE t # s
      <4>1. Billing!Of(t)' = Billing!Of(t)
        BY <3>2, <1>2, <1>3
      <4>2. t \in Billing!Subs
        BY <3>2, <1>2, <1>3
      <4> QED
        BY <4>1, <4>2 DEF BillingInv, BillingEvents
    <3> QED
      BY <3>1, <3>2
  <2> QED
    BY <2>1, <2>2, <1>2 DEF BillingEvents
<1> HIDE DEF Billing!Happens, Billing!Of, Billing!Subs, new
<1>6. \A h \in Requests : BillingHook(h) => BillingHook(h)'
  BY <1>3, <1>4 DEF BillingHook
<1>7. BillingAlone'
  BY <1>4, <1>3 DEF BillingInv, BillingAlone, BillingHook, Billing!Idle
<1>8. subscription # None => subscription.status \in DOMAIN events
  BY DEF BillingInv
<1> QED
  BY <1>3, <1>4, <1>5, <1>6, <1>7, <1>8 DEF BillingInv

\* A webhook request begins.
LEMMA BillingReceive ==
  ASSUME BillingInv, NEW h \in Requests, NEW e \in DOMAIN events, Billing!Receive(h, e)
  PROVE  BillingInv'
<1> USE DEF Billing!Receive
<1>1. \A g \in Requests \ {h} : hook'[g] = hook[g]
  BY DEF BillingInv
<1>2. /\ hook'[h] = [at |-> hook'[h].at, event |-> e, seen |-> IF Billing!Finds(e) THEN subscription ELSE None, status |-> e]
      /\ hook'[h].at = IF events[e].kind = "completed" THEN "retrieve"
                       ELSE IF Billing!Finds(e) THEN "commit" ELSE "done"
  BY DEF BillingInv
<1>3. BillingHook(h)'
  <2>1. Billing!Finds(e) => subscription # None
    BY DEF Billing!Finds
  <2>2. UNCHANGED <<events, subscription>>
    OBVIOUS
  <2> HIDE DEF Billing!Receive
  <2> QED
    BY <1>2, <2>1, <2>2 DEF BillingHook
<1>4. \A g \in Requests : BillingHook(g)'
  BY <1>1, <1>3 DEF BillingHook, BillingInv
<1>5. BillingAlone'
  <2> SUFFICES ASSUME ~overlap' PROVE BillingAlone'
    BY DEF BillingAlone
  <2>1. \A g \in Requests : hook[g] = Billing!Idle
    OBVIOUS
  <2>2. hook'[h].at = "commit" => subscription # None /\ subscription.sub = events[e].sub
    BY <1>2 DEF Billing!Finds
  <2> HIDE DEF Billing!Receive
  <2>3. UNCHANGED <<events, subscription>>
    BY DEF Billing!Receive
  <2> QED
    BY <2>1, <2>2, <2>3, <1>1, <1>2 DEF BillingAlone, Billing!Idle
<1>6. hook' = [g \in Requests |-> hook'[g]]
  BY DEF BillingInv
<1> QED
  <2>1. UNCHANGED <<events, subscription, answered>> /\ (~overlap' => ~overlap)
    OBVIOUS
  <2> HIDE DEF Billing!Receive
  <2> QED
    BY <1>4, <1>5, <1>6, <2>1, BillingEventsStay DEF BillingInv

\* A checkout gets a status of its own subscription.
LEMMA BillingRetrieve ==
  ASSUME BillingInv, NEW h \in Requests, Billing!Retrieve(h)
  PROVE  BillingInv'
<1> USE DEF Billing!Retrieve
<1> DEFINE s == events[hook[h].event].sub
           newest == Billing!LastOf(s)
<1>1. \A g \in Requests \ {h} : hook'[g] = hook[g]
  BY DEF BillingInv
<1>2. /\ hook[h].event \in DOMAIN events /\ hook[h].at = "retrieve"
      /\ events[hook[h].event].kind = "completed"
      /\ hook[h] = [at |-> hook[h].at, event |-> hook[h].event, seen |-> hook[h].seen, status |-> hook[h].status]
  BY DEF BillingInv, BillingHook, Billing!Idle
<1>3. newest \in DOMAIN events /\ events[newest].sub = s
  <2>1. s \in Billing!Subs
    BY <1>2 DEF Billing!Subs
  <2>2. \E e \in Billing!Of(s) : \A f \in Billing!Of(s) : f <= e
    BY <2>1 DEF BillingInv, BillingEvents
  <2>3. newest \in Billing!Of(s)
    BY <2>2 DEF Billing!LastOf
  <2> QED
    BY <2>3 DEF Billing!Of
<1>4. hook'[h] = [at |-> "commit", event |-> hook[h].event, seen |-> hook[h].seen, status |-> newest]
  BY <1>2 DEF BillingInv
<1>5. BillingHook(h)'
  <2>1. UNCHANGED <<events, subscription>>
    OBVIOUS
  <2> HIDE DEF Billing!Retrieve, newest
  <2> QED
    BY <1>2, <1>3, <1>4, <2>1 DEF BillingHook
<1>6. \A g \in Requests : BillingHook(g)'
  BY <1>1, <1>5 DEF BillingHook, BillingInv
<1>7. BillingAlone'
  BY <1>1, <1>2, <1>4 DEF BillingInv, BillingAlone, Billing!Idle
<1>8. hook' = [g \in Requests |-> hook'[g]]
  BY DEF BillingInv
<1> QED
  <2>1. UNCHANGED <<events, subscription, answered, overlap>>
    OBVIOUS
  <2> HIDE DEF Billing!Retrieve
  <2> QED
    BY <1>6, <1>7, <1>8, <2>1, BillingEventsStay DEF BillingInv

\* The row is written.
LEMMA BillingCommit ==
  ASSUME BillingInv, NEW h \in Requests, Billing!Commit(h)
  PROVE  BillingInv'
<1> USE DEF Billing!Commit
<1>1. \A g \in Requests \ {h} : hook'[g] = hook[g]
  BY DEF BillingInv
<1>2. /\ hook[h].at = "commit" /\ hook[h].event \in DOMAIN events /\ hook[h].status \in DOMAIN events
      /\ events[hook[h].status].sub = events[hook[h].event].sub
      /\ hook[h] = [at |-> hook[h].at, event |-> hook[h].event, seen |-> hook[h].seen, status |-> hook[h].status]
      /\ hook[h] # Billing!Idle
  BY DEF BillingInv, BillingHook, Billing!Idle
<1>3. UNCHANGED <<events, answered, overlap>>
  OBVIOUS
<1>4. hook' = [g \in Requests |-> hook'[g]]
  BY DEF BillingInv
<1>5. BillingEvents'
  BY <1>3, BillingEventsStay DEF BillingInv
<1>6. CASE hook[h].seen = None /\ subscription # None
  <2>1. hook'[h] = Billing!Idle /\ UNCHANGED subscription
    BY <1>6 DEF BillingInv
  <2>2. \A g \in Requests : BillingHook(g)'
    BY <1>1, <1>3, <2>1 DEF BillingHook, BillingInv
  <2>3. BillingAlone'
    BY <1>1, <1>3, <2>1 DEF BillingAlone, BillingInv, Billing!Idle
  <2> QED
    BY <1>3, <1>4, <1>5, <2>1, <2>2, <2>3 DEF BillingInv
<1>7. CASE ~(hook[h].seen = None /\ subscription # None)
  <2>1. /\ subscription' = [sub |-> Billing!SubOf(hook[h]), status |-> hook[h].status]
        /\ hook'[h] = [at |-> "done", event |-> hook[h].event, seen |-> hook[h].seen, status |-> hook[h].status]
    BY <1>2, <1>7 DEF BillingInv
  <2> HIDE DEF Billing!Commit
  <2>2. ~overlap => Billing!SubOf(hook[h]) = events[hook[h].event].sub
    BY <1>2 DEF Billing!SubOf, BillingInv, BillingAlone
  <2>3. Billing!SubOf(hook[h]) \in Nat
    <3>1. events[hook[h].event].kind # "completed" => subscription # None
      BY <1>2, <1>7 DEF BillingInv, BillingHook
    <3> QED
      BY <1>2, <3>1, BillingTyped DEF Billing!SubOf, BillingInv
  <2>4. subscription' \in [sub : Nat, status : DOMAIN events] /\ subscription' # None
    BY <2>1, <2>3, <1>2, BillingTyped, BillingAssumed
  <2>5. \A g \in Requests : BillingHook(g)'
    BY <1>1, <1>2, <1>3, <2>1, <2>4 DEF BillingHook, BillingInv
  <2>6. BillingAlone'
    <3> SUFFICES ASSUME ~overlap PROVE BillingAlone'
      BY <1>3 DEF BillingAlone
    <3>1. \A g \in Requests \ {h} : hook'[g] = Billing!Idle
      BY <1>1, <1>2 DEF BillingInv, BillingAlone
    <3> QED
      BY <3>1, <2>1 DEF BillingAlone, Billing!Idle
  <2>7. ~overlap => events[subscription'.status].sub = subscription'.sub
    BY <2>1, <2>2, <1>2
  <2> QED
    BY <1>3, <1>4, <1>5, <2>4, <2>5, <2>6, <2>7 DEF BillingInv
<1> QED
  BY <1>6, <1>7

\* A request answers, or stops before it does.
LEMMA BillingEnds ==
  ASSUME BillingInv, NEW h \in Requests, Billing!Answer(h) \/ Billing!Stop(h)
  PROVE  BillingInv'
<1> USE DEF Billing!Answer, Billing!Stop
<1>1. hook'[h] = Billing!Idle /\ \A g \in Requests \ {h} : hook'[g] = hook[g]
  BY DEF BillingInv
<1>2. UNCHANGED <<events, subscription, overlap>>
  OBVIOUS
<1>3. /\ answered' \subseteq DOMAIN events
      /\ \A e \in answered' : events[e].kind = "completed" => subscription # None
  BY DEF BillingInv, BillingHook, Billing!Idle
<1>4. hook' = [g \in Requests |-> hook'[g]]
  BY DEF BillingInv
<1> HIDE DEF Billing!Answer, Billing!Stop
<1>5. \A g \in Requests : BillingHook(g)'
  BY <1>1, <1>2 DEF BillingHook, BillingInv
<1>6. BillingAlone'
  BY <1>1, <1>2 DEF BillingInv, BillingAlone, Billing!Idle
<1>7. BillingEvents'
  BY <1>2, BillingEventsStay DEF BillingInv
<1> QED
  BY <1>2, <1>3, <1>4, <1>5, <1>6, <1>7 DEF BillingInv

\* Every step keeps the invariant.
LEMMA BillingNextInv == ASSUME BillingInv, Billing!Next PROVE BillingInv'
<1>1. CASE Billing!Checkout
  <2>1. PICK s \in 1 .. MaxSubs : Billing!Happens("completed", s)
    BY <1>1 DEF Billing!Checkout
  <2>2. s \in Nat
    BY BillingAssumed
  <2> QED
    BY <2>1, <2>2, BillingHappens
<1>2. \A s \in Billing!Subs : s \in Nat
  BY BillingTyped
<1>3. CASE Billing!Update
  BY <1>2, <1>3, BillingHappens DEF Billing!Update
<1>4. CASE Billing!Delete
  BY <1>2, <1>4, BillingHappens DEF Billing!Delete
<1> QED
  BY <1>1, <1>3, <1>4, BillingReceive, BillingRetrieve, BillingCommit, BillingEnds DEF Billing!Next

\* The invariant holds throughout.
LEMMA BillingInvariance == PlatformSpec => [](part = "billing" => BillingInv)
<1>1. PlatformInit => (part = "billing" => BillingInv)
  <2> SUFFICES ASSUME PlatformInit, part = "billing" PROVE BillingInv
    OBVIOUS
  <2>1. Billing!Init
    BY DEF PlatformInit
  <2>2. \A h \in Requests : hook[h] = Billing!Idle
    BY <2>1 DEF Billing!Init
  <2>3. BillingEvents
    BY <2>1 DEF Billing!Init, BillingEvents, Billing!Subs
  <2>4. BillingAlone /\ \A h \in Requests : BillingHook(h)
    BY <2>2 DEF BillingAlone, BillingHook, Billing!Idle
  <2> QED
    BY <2>1, <2>3, <2>4 DEF BillingInv, Billing!Init
<1>2. (part = "billing" => BillingInv) /\ [PlatformNext]_allVars => (part = "billing" => BillingInv)'
  <2>1. ASSUME BillingInv, UNCHANGED <<events, subscription, hook, answered, again, overlap>> PROVE BillingInv'
    BY <2>1 DEF BillingInv, BillingEvents, BillingAlone, BillingHook, Billing!Of, Billing!Subs
  <2>2. part = "billing" /\ [PlatformNext]_allVars =>
          Billing!Next \/ UNCHANGED <<events, subscription, hook, answered, again, overlap>>
    BY DEF PlatformNext, Only, allVars
  <2> QED
    BY <2>1, <2>2, PartStays, BillingNextInv
<1> QED
  BY <1>1, <1>2, PTL DEF PlatformSpec

\* The stored subscription is one that was paid for, with a status it had,
\* and once every event is answered there is one (stripe_webhook).
THEOREM SubscriptionStays == PlatformSpec => []SubscriptionKept
<1>1. (part = "billing" => BillingInv) => SubscriptionKept
  <2> SUFFICES ASSUME part = "billing", BillingInv PROVE Billing!SubscriptionKept
    BY DEF SubscriptionKept
  <2>1. Billing!StatusOfItsSubscription
    BY DEF BillingInv, Billing!StatusOfItsSubscription
  <2>2. Billing!PaidIsStored
    BY DEF BillingInv, BillingEvents, Billing!PaidIsStored
  <2> QED
    BY <2>1, <2>2 DEF Billing!SubscriptionKept
<1> QED
  BY <1>1, BillingInvariance, PTL
-----------------------------------------------------------------------------
(* Roadmap: the count drifts no further than overlapping toggles took it.  *)

RoadmapToggle == [at : {"vote", "commit"}, user : Ids, count : Int, voted : BOOLEAN, alone : BOOLEAN]

\* How far the count that a request read is from the votes there are now.
Offset(r) == toggle[r].count - Cardinality(votes)

\* A request that is alone still has what it read; another one has a count
\* that each commit since moved by one at most, and by one less when one of
\* them took back the vote that the request means to take back.
RoadmapReads(r) ==
  toggle[r] = Roadmap!Idle \/
  /\ toggle[r] \in RoadmapToggle
  /\ toggle[r].alone =>
       /\ \A q \in Requests \ {r} : toggle[q] = Roadmap!Idle
       /\ toggle[r].count = voteCount
       /\ toggle[r].at = "commit" => toggle[r].voted = (toggle[r].user \in votes)
  /\ Offset(r) \in -overlaps .. overlaps
  /\ toggle[r].at = "commit" /\ toggle[r].voted /\ toggle[r].user \notin votes =>
       Offset(r) \in 1 - overlaps .. overlaps

RoadmapInv ==
  /\ votes \subseteq Ids /\ voteCount \in Int /\ overlaps \in Nat
  /\ voteCount - Cardinality(votes) \in
       IF overlaps = 0 THEN {0} ELSE 1 - overlaps .. overlaps - 1
  /\ toggle = [r \in Requests |-> toggle[r]] /\ \A r \in Requests : RoadmapReads(r)

\* Votes are finitely many; a vote more or less changes their number by one.
LEMMA RoadmapCards ==
  ASSUME votes \subseteq Ids, NEW u \in Ids
  PROVE  /\ Cardinality(votes) \in Nat
         /\ Cardinality(votes \cup {u}) = IF u \in votes THEN Cardinality(votes) ELSE Cardinality(votes) + 1
         /\ Cardinality(votes \ {u}) = IF u \in votes THEN Cardinality(votes) - 1 ELSE Cardinality(votes)
<1>1. IsFiniteSet(votes)
  BY SessionsAssumed, FS_Subset
<1> QED
  BY <1>1, FS_CardinalityType, FS_AddElement, FS_RemoveElement

\* A request that reads the count starts with no offset.
LEMMA ReadCountInv ==
  ASSUME RoadmapInv, NEW r \in Requests, NEW u \in Ids, Roadmap!ReadCount(r, u)
  PROVE  RoadmapInv'
<1> USE DEF Roadmap!ReadCount
<1>1. /\ toggle'[r] = [at |-> "vote", user |-> u, count |-> voteCount, voted |-> FALSE, alone |-> ~Roadmap!Busy(r)]
      /\ \A q \in Requests \ {r} :
           toggle'[q] = IF toggle[q] = Roadmap!Idle THEN Roadmap!Idle ELSE [toggle[q] EXCEPT !.alone = FALSE]
      /\ toggle' = [q \in Requests |-> toggle'[q]]
  OBVIOUS
<1>2. UNCHANGED <<votes, voteCount, overlaps>>
  OBVIOUS
<1> HIDE DEF Roadmap!ReadCount
<1>3. RoadmapReads(r)'
  <2>1. voteCount - Cardinality(votes) \in -overlaps .. overlaps
    <3>1. Cardinality(votes) \in Nat /\ overlaps \in Nat /\ voteCount \in Int
      BY RoadmapCards DEF RoadmapInv
    <3> QED
      BY <3>1 DEF RoadmapInv
  <2>2. toggle'[r] \in RoadmapToggle
    BY <1>1 DEF RoadmapInv, RoadmapToggle
  <2>3. ~Roadmap!Busy(r) => \A q \in Requests \ {r} : toggle'[q] = Roadmap!Idle
    BY <1>1 DEF Roadmap!Busy
  <2>4. Offset(r)' \in -overlaps' .. overlaps'
    BY <2>1, <1>1, <1>2 DEF Offset
  <2>5. toggle'[r].at = "vote" /\ toggle'[r].count = voteCount' /\ toggle'[r].alone = ~Roadmap!Busy(r)
    BY <1>1, <1>2
  <2> QED
    BY <2>2, <2>3, <2>4, <2>5 DEF RoadmapReads
<1>4. ASSUME NEW q \in Requests \ {r} PROVE RoadmapReads(q)'
  <2>1. CASE toggle[q] = Roadmap!Idle
    BY <2>1, <1>1 DEF RoadmapReads
  <2>2. CASE toggle[q] # Roadmap!Idle
    <3>1. toggle[q] \in RoadmapToggle /\ RoadmapReads(q)
      BY <2>2 DEF RoadmapInv, RoadmapReads
    <3>2. toggle'[q] = [toggle[q] EXCEPT !.alone = FALSE]
      BY <2>2, <1>1
    <3> QED
      BY <3>1, <3>2, <2>2, <1>2 DEF RoadmapReads, RoadmapToggle, Offset
  <2> QED
    BY <2>1, <2>2
<1> QED
  BY <1>1, <1>2, <1>3, <1>4 DEF RoadmapInv

\* A request that reads its vote knows the vote there is.
LEMMA ReadVoteInv ==
  ASSUME RoadmapInv, NEW r \in Requests, Roadmap!ReadVote(r)
  PROVE  RoadmapInv'
<1> USE DEF Roadmap!ReadVote
<1>1. toggle[r] \in RoadmapToggle /\ RoadmapReads(r) /\ toggle[r] # Roadmap!Idle
  BY DEF RoadmapInv, RoadmapReads, Roadmap!Idle
<1>2. /\ toggle'[r] = [toggle[r] EXCEPT !.at = "commit", !.voted = toggle[r].user \in votes]
      /\ \A q \in Requests \ {r} : toggle'[q] = toggle[q]
      /\ toggle' = [q \in Requests |-> toggle'[q]]
  BY <1>1 DEF RoadmapInv
<1>3. UNCHANGED <<votes, voteCount, overlaps>>
  OBVIOUS
<1> HIDE DEF Roadmap!ReadVote
<1>4. RoadmapReads(r)'
  <2>1. /\ toggle'[r].at = "commit" /\ toggle'[r].voted = (toggle[r].user \in votes)
        /\ toggle'[r].alone = toggle[r].alone /\ toggle'[r].count = toggle[r].count
        /\ toggle'[r].user = toggle[r].user /\ toggle'[r] \in RoadmapToggle
    <3> DEFINE voted == toggle[r].user \in votes
    <3>1. voted \in BOOLEAN
      OBVIOUS
    <3>2. toggle'[r] = [toggle[r] EXCEPT !.at = "commit", !.voted = voted]
      BY <1>2
    <3> HIDE DEF voted
    <3>3. /\ toggle'[r].at = "commit" /\ toggle'[r].voted = voted
          /\ toggle'[r].alone = toggle[r].alone /\ toggle'[r].count = toggle[r].count
          /\ toggle'[r].user = toggle[r].user /\ toggle'[r] \in RoadmapToggle
      BY <1>1, <3>1, <3>2 DEF RoadmapToggle
    <3> QED
      BY <3>3 DEF voted
  <2>2. Offset(r)' = Offset(r)
    BY <2>1, <1>3 DEF Offset
  <2>3. ~(toggle'[r].voted /\ toggle'[r].user \notin votes')
    BY <2>1, <1>3
  <2>4. toggle'[r].alone =>
          /\ \A q \in Requests \ {r} : toggle'[q] = Roadmap!Idle
          /\ toggle'[r].count = voteCount'
    BY <2>1, <1>1, <1>2, <1>3 DEF RoadmapReads
  <2>5. Offset(r)' \in -overlaps' .. overlaps'
    BY <2>2, <1>1, <1>3 DEF RoadmapReads
  <2> QED
    BY <2>1, <2>3, <2>4, <2>5, <1>3 DEF RoadmapReads
<1>5. \A q \in Requests \ {r} : toggle[q].alone => toggle[q] = Roadmap!Idle
  BY <1>1 DEF RoadmapInv, RoadmapReads
<1>6. ASSUME NEW q \in Requests \ {r} PROVE RoadmapReads(q)'
  <2>1. RoadmapReads(q)
    BY DEF RoadmapInv
  <2> QED
    BY <2>1, <1>2, <1>3, <1>5 DEF RoadmapReads, Offset
<1> QED
  BY <1>2, <1>3, <1>4, <1>6 DEF RoadmapInv

\* A commit moves count and votes together, unless requests overlap: then it
\* adds one to the overlaps, and at most one to any offset.
LEMMA RoadmapCommitInv ==
  ASSUME RoadmapInv, NEW r \in Requests, Roadmap!Commit(r)
  PROVE  RoadmapInv'
<1> USE DEF Roadmap!Commit
<1> DEFINE t == toggle[r]
<1>1. t \in RoadmapToggle /\ RoadmapReads(r) /\ t # Roadmap!Idle /\ t.at = "commit"
  BY DEF RoadmapInv, RoadmapReads, Roadmap!Idle
<1>2. /\ toggle'[r] = Roadmap!Idle
      /\ \A q \in Requests \ {r} : toggle'[q] = toggle[q]
      /\ toggle' = [q \in Requests |-> toggle'[q]]
  BY <1>1 DEF RoadmapInv
<1>3. RoadmapReads(r)'
  BY <1>2 DEF RoadmapReads
<1>4. CASE ~t.voted /\ t.user \in votes
  <2>1. UNCHANGED <<votes, voteCount, overlaps>>
    BY <1>4
  <2>2. ASSUME NEW q \in Requests \ {r} PROVE RoadmapReads(q)'
    <3>1. RoadmapReads(q)
      BY DEF RoadmapInv
    <3> HIDE DEF Roadmap!Commit
    <3> QED
      BY <3>1, <2>1, <1>1, <1>2 DEF RoadmapReads, Offset
  <2> QED
    BY <2>1, <2>2, <1>2, <1>3 DEF RoadmapInv
<1>5. CASE ~(~t.voted /\ t.user \in votes)
  <2>1. /\ votes' = IF t.voted THEN votes \ {t.user} ELSE votes \cup {t.user}
        /\ voteCount' = IF t.voted THEN t.count - 1 ELSE t.count + 1
        /\ overlaps' = IF t.alone THEN overlaps ELSE overlaps + 1
    BY <1>5 DEF Roadmap!NewCount
  <2> HIDE DEF Roadmap!Commit
  <2>2. t.user \in Ids /\ t.count \in Int /\ t.voted \in BOOLEAN /\ t.alone \in BOOLEAN
    BY <1>1 DEF RoadmapToggle
  <2>3. /\ Cardinality(votes) \in Nat /\ Cardinality(votes') \in Nat
        /\ t.voted /\ t.user \in votes => Cardinality(votes') = Cardinality(votes) - 1
        /\ t.voted /\ t.user \notin votes => votes' = votes
        /\ ~t.voted => Cardinality(votes') = Cardinality(votes) + 1
    <3>1. votes \subseteq Ids
      BY DEF RoadmapInv
    <3>2. /\ Cardinality(votes) \in Nat
          /\ Cardinality(votes \cup {t.user}) = IF t.user \in votes THEN Cardinality(votes) ELSE Cardinality(votes) + 1
          /\ Cardinality(votes \ {t.user}) = IF t.user \in votes THEN Cardinality(votes) - 1 ELSE Cardinality(votes)
      BY <3>1, <2>2, RoadmapCards
    <3>3. CASE t.voted
      <4>1. votes' = votes \ {t.user}
        BY <3>3, <2>1
      <4>2. t.user \notin votes => votes' = votes
        BY <4>1
      <4>3. t.user \in votes => Cardinality(votes') = Cardinality(votes) - 1
        BY <4>1, <3>2
      <4>4. t.user \in votes => Cardinality(votes) # 0
        BY <3>1, <2>2, SessionsAssumed, FS_Subset, FS_EmptySet
      <4>5. Cardinality(votes') \in Nat
        BY <4>2, <4>3, <4>4, <3>2
      <4> QED
        BY <3>3, <4>2, <4>3, <4>5, <3>2
    <3>4. CASE ~t.voted
      <4>1. votes' = votes \cup {t.user} /\ t.user \notin votes
        BY <3>4, <2>1, <1>5
      <4> QED
        BY <3>4, <4>1, <3>2
    <3> QED
      BY <3>3, <3>4
  <2>4. votes' \subseteq Ids /\ voteCount' \in Int /\ overlaps' \in Nat /\ overlaps \in Nat
    BY <2>1, <2>2 DEF RoadmapInv
  <2>5. voteCount' - Cardinality(votes') \in IF overlaps' = 0 THEN {0} ELSE 1 - overlaps' .. overlaps' - 1
    <3>1. CASE t.alone
      <4>1. t.count = voteCount /\ t.voted = (t.user \in votes)
        BY <3>1, <1>1 DEF RoadmapReads
      <4>2. voteCount' - Cardinality(votes') = voteCount - Cardinality(votes) /\ overlaps' = overlaps
        <5>1. voteCount \in Int
          BY DEF RoadmapInv
        <5>2. CASE t.voted
          <6>1. t.user \in votes
            BY <5>2, <4>1
          <6>2. Cardinality(votes') = Cardinality(votes) - 1
            BY <5>2, <6>1, <2>3
          <6>3. voteCount' = t.count - 1 /\ t.count = voteCount /\ overlaps' = overlaps
            BY <5>2, <4>1, <3>1, <2>1
          <6>4. Cardinality(votes) \in Nat
            BY <2>3
          <6> QED
            BY <5>1, <6>2, <6>3, <6>4
        <5>3. CASE ~t.voted
          BY <5>1, <5>3, <4>1, <3>1, <2>1, <2>2, <2>3
        <5> QED
          BY <5>2, <5>3
      <4> QED
        BY <4>2 DEF RoadmapInv
    <3>2. CASE ~t.alone /\ t.voted /\ t.user \notin votes
      <4>1. t.count - Cardinality(votes) \in 1 - overlaps .. overlaps
        BY <3>2, <1>1 DEF RoadmapReads, Offset
      <4>2. voteCount' = t.count - 1 /\ votes' = votes /\ overlaps' = overlaps + 1
        BY <3>2, <2>1, <2>3
      <4>3. Cardinality(votes') = Cardinality(votes)
        BY <4>2
      <4>4. t.count - Cardinality(votes) \in Int /\ overlaps \in Nat /\ t.count \in Int /\ Cardinality(votes) \in Nat
        BY <2>2, <2>3, <2>4
      <4>5. voteCount' - Cardinality(votes') = t.count - Cardinality(votes) - 1
        BY <4>2, <4>3, <4>4
      <4>6. \A x, o \in Int : x \in 1 - o .. o => x - 1 \in IF o + 1 = 0 THEN {0} ELSE 1 - (o + 1) .. (o + 1) - 1
        OBVIOUS
      <4>7. t.count - Cardinality(votes) - 1 \in
              IF overlaps + 1 = 0 THEN {0} ELSE 1 - (overlaps + 1) .. (overlaps + 1) - 1
        <5> HIDE DEF t
        <5> QED
          BY <4>1, <4>4, <4>6
      <4> QED
        BY <4>2, <4>5, <4>7
    <3>3. CASE ~t.alone /\ ~(t.voted /\ t.user \notin votes)
      <4>1. t.count - Cardinality(votes) \in -overlaps .. overlaps
        BY <1>1 DEF RoadmapReads, Offset
      <4>2. voteCount' - Cardinality(votes') = t.count - Cardinality(votes)
        <5>1. CASE t.voted
          BY <5>1, <3>3, <2>1, <2>2, <2>3
        <5>2. CASE ~t.voted
          BY <5>2, <2>1, <2>2, <2>3
        <5> QED
          BY <5>1, <5>2
      <4>3. overlaps' = overlaps + 1
        BY <3>3, <2>1
      <4>4. t.count - Cardinality(votes) \in Int /\ overlaps \in Nat
        BY <2>2, <2>3, <2>4
      <4> HIDE DEF t
      <4> QED
        BY <4>1, <4>2, <4>3, <4>4
    <3> QED
      BY <2>2, <3>1, <3>2, <3>3
  <2>6. ASSUME NEW q \in Requests \ {r} PROVE RoadmapReads(q)'
    <3>1. CASE toggle[q] = Roadmap!Idle
      BY <3>1, <1>2 DEF RoadmapReads
    <3>2. CASE toggle[q] # Roadmap!Idle
      <4>1. ~t.alone /\ overlaps' = overlaps + 1
        BY <3>2, <1>1, <2>1, <2>2 DEF RoadmapReads
      <4>2. toggle[q] \in RoadmapToggle /\ RoadmapReads(q) /\ ~toggle[q].alone /\ toggle'[q] = toggle[q]
        BY <3>2, <1>1, <1>2 DEF RoadmapInv, RoadmapReads
      <4>3. toggle[q].count \in Int
        BY <4>2 DEF RoadmapToggle
      <4>4. toggle[q].count - Cardinality(votes') \in -overlaps' .. overlaps'
        <5>1. toggle[q].count - Cardinality(votes) \in -overlaps .. overlaps
          BY <4>2, <3>2 DEF RoadmapReads, Offset
        <5> QED
          BY <5>1, <4>1, <4>3, <2>2, <2>3, <2>4
      <4>5. ASSUME toggle[q].at = "commit", toggle[q].voted, toggle[q].user \notin votes'
            PROVE  toggle[q].count - Cardinality(votes') \in 1 - overlaps' .. overlaps'
        <5>1. CASE toggle[q].user \notin votes
          <6>1. toggle[q].count - Cardinality(votes) \in 1 - overlaps .. overlaps
            BY <5>1, <4>5, <4>2, <3>2 DEF RoadmapReads, Offset
          <6> QED
            BY <6>1, <4>1, <4>3, <2>2, <2>3, <2>4
        <5>2. CASE toggle[q].user \in votes
          <6>1. t.voted /\ t.user \in votes
            BY <5>2, <4>5, <2>1, <2>2
          <6>2. toggle[q].count - Cardinality(votes) \in -overlaps .. overlaps
            BY <4>2, <3>2 DEF RoadmapReads, Offset
          <6> QED
            BY <6>1, <6>2, <4>1, <4>3, <2>3, <2>4
        <5> QED
          BY <5>1, <5>2
      <4> QED
        BY <4>2, <4>4, <4>5 DEF RoadmapReads, Offset
    <3> QED
      BY <3>1, <3>2
  <2> QED
    BY <2>4, <2>5, <2>6, <1>2, <1>3 DEF RoadmapInv
<1> QED
  BY <1>4, <1>5

\* The invariant holds throughout.
LEMMA RoadmapInvariance == PlatformSpec => [](part = "roadmap" => RoadmapInv)
<1>1. PlatformInit => (part = "roadmap" => RoadmapInv)
  <2> SUFFICES ASSUME PlatformInit, part = "roadmap" PROVE RoadmapInv
    OBVIOUS
  <2>1. Roadmap!Init
    BY DEF PlatformInit
  <2>2. \A r \in Requests : toggle[r] = Roadmap!Idle
    BY <2>1 DEF Roadmap!Init
  <2>3. voteCount - Cardinality(votes) = 0
    BY <2>1, FS_EmptySet DEF Roadmap!Init
  <2> QED
    BY <2>1, <2>2, <2>3 DEF RoadmapInv, RoadmapReads, Roadmap!Init
<1>2. (part = "roadmap" => RoadmapInv) /\ [PlatformNext]_allVars => (part = "roadmap" => RoadmapInv)'
  <2>1. ASSUME RoadmapInv, UNCHANGED <<votes, voteCount, toggle, overlaps, toggles>> PROVE RoadmapInv'
    BY <2>1 DEF RoadmapInv, RoadmapReads, Offset
  <2>2. part = "roadmap" /\ [PlatformNext]_allVars =>
          Roadmap!Next \/ UNCHANGED <<votes, voteCount, toggle, overlaps, toggles>>
    BY DEF PlatformNext, Only, allVars
  <2>3. RoadmapInv /\ Roadmap!Next => RoadmapInv'
    BY ReadCountInv, ReadVoteInv, RoadmapCommitInv DEF Roadmap!Next
  <2> QED
    BY <2>1, <2>2, <2>3, PartStays
<1> QED
  BY <1>1, <1>2, PTL DEF PlatformSpec

\* The count is the number of votes, give or take one for each overlapping
\* toggle but the first (toggle_vote).
THEOREM CountStaysNear == PlatformSpec => []CountNearVotes
<1>1. (part = "roadmap" => RoadmapInv) => CountNearVotes
  <2>1. \A S : Roadmap!Cardinality(S) = Cardinality(S)
    BY DEF Roadmap!Cardinality, Cardinality
  <2>2. RoadmapInv => voteCount - Cardinality(votes) \in
          -(IF overlaps = 0 THEN 0 ELSE overlaps - 1) .. (IF overlaps = 0 THEN 0 ELSE overlaps - 1)
    <3> SUFFICES ASSUME RoadmapInv
        PROVE voteCount - Cardinality(votes) \in
          -(IF overlaps = 0 THEN 0 ELSE overlaps - 1) .. (IF overlaps = 0 THEN 0 ELSE overlaps - 1)
      OBVIOUS
    <3>1. overlaps \in Nat /\ voteCount \in Int
      BY DEF RoadmapInv
    <3>2. Cardinality(votes) \in Nat
      BY SessionsAssumed, FS_Subset, FS_CardinalityType DEF RoadmapInv
    <3> QED
      BY <3>1, <3>2 DEF RoadmapInv
  <2> QED
    BY <2>1, <2>2 DEF CountNearVotes, Roadmap!CountNearVotes
<1> QED
  BY <1>1, RoadmapInvariance, PTL
-----------------------------------------------------------------------------
(* A throttle lets through at most twice its limit in any stretch of a     *)
(* window's length, and counts nothing older than a window.  The bound at  *)
(* the end of a stretch says nothing of how it came about; the invariant   *)
(* bounds what passed in the last i ticks for every i.  In the ticks since *)
(* the count began no more passed than it counts (WindowInv), and what     *)
(* passed before it is of one window at most.  Between the two commands    *)
(* (d = 1) one request is counted that has not passed.                     *)

Counts == [count : Nat, ttl : 0 .. Window]
LastTicks == [1 .. Window -> Nat]

\* How many requests a count of n has let through.
LetThrough(n) == IF n <= MaxRequests THEN n ELSE MaxRequests

WindowInv(c, f, d) ==
  /\ \A i \in 1 .. Window : f[i] + d <= LetThrough(c.count) + MaxRequests
  /\ c.count = 0 => c.ttl = 0 /\ f[1] = 0
  /\ c.ttl > 0 => \A i \in 1 .. (Window - c.ttl + 1) : f[i] + d <= LetThrough(c.count)
  /\ d = 1 => c.count > 0 /\ c.ttl = 0 /\ f[1] + 1 <= LetThrough(c.count)

Expiring(h) == ask[h].at = "expire"
Raising == {h \in Requests : ask[h].at = "incr"}

\* Requests counted in Redis that have not passed yet: one at most.
Owed == IF \E h \in Requests : Expiring(h) THEN 1 ELSE 0

\* The ticks for which the count in Redis has a time to live.
Age == IF shared.ttl > 0 THEN Window - shared.ttl ELSE 0

SharedInv ==
  /\ \A h, k \in Requests : Expiring(h) /\ Expiring(k) => h = k
  /\ WindowInv(shared, passed.shared, Owed)

MemoryInv ==
  \A w \in Conns :
    /\ WindowInv(memory[w], passed.memory[w], 0)
    /\ w \notin alone => memory[w] = Throttles!NoCount /\ passed.memory[w] = Throttles!NoneYet

CameInv ==
  ~stuck =>
    /\ \A i \in (Age + 1) .. Window : shared.count + Cardinality(Raising) <= came[i]
    /\ shared.count > 0 /\ shared.ttl = 0 => Owed = 1

ThrottlesInv == Throttles!TypeOK /\ SharedInv /\ MemoryInv /\ CameInv

\* The limit and the window are positive, requests finitely many.
LEMMA ThrottlesAssumed ==
  /\ MaxRequests \in Nat \ {0} /\ Window \in Nat \ {0} /\ MaxCame \in Nat /\ MaxFailed \in Nat
  /\ Conns # {} /\ IsFiniteSet(Requests)
BY PlatformAssumption DEF PlatformAssumption, Throttles!ThrottlesAssumption, Throttles!IsFiniteSet, IsFiniteSet

\* What a request and a tick do to the numbers of the last i ticks.
LEMMA ThrottlesNow ==
  ASSUME NEW f \in LastTicks
  PROVE  /\ Throttles!Now(f) \in LastTicks /\ \A i \in 1 .. Window : Throttles!Now(f)[i] = f[i] + 1
         /\ Throttles!Shift(f) \in LastTicks /\ Throttles!Shift(f)[1] = 0
         /\ \A i \in 2 .. Window : Throttles!Shift(f)[i] = f[i - 1]
<1>1. \A i \in 2 .. Window : i \in 1 .. Window /\ i # 1 /\ i - 1 \in 1 .. Window
  BY ThrottlesAssumed
<1>2. \A i \in 1 .. Window : i # 1 => i - 1 \in 1 .. Window
  BY ThrottlesAssumed
<1>3. 1 \in 1 .. Window
  BY ThrottlesAssumed
<1>4. Throttles!Shift(f) \in LastTicks
  BY <1>2 DEF Throttles!Shift, LastTicks
<1> QED
  BY <1>1, <1>3, <1>4 DEF Throttles!Now, Throttles!Shift, LastTicks

\* One more counted, in a window that begins with it or has begun.
LEMMA CountedMore ==
  ASSUME NEW c \in Counts, NEW f \in LastTicks, WindowInv(c, f, 0),
         NEW e \in Counts, e.count = c.count + 1,
         c.count > 0 => e.ttl = c.ttl, c.count = 0 => e.ttl = Window
  PROVE  WindowInv(e, IF Throttles!Within(e.count) THEN Throttles!Now(f) ELSE f, 0)
<1> DEFINE g == IF Throttles!Within(e.count) THEN Throttles!Now(f) ELSE f
<1>1. c.count \in Nat /\ e.count \in Nat /\ c.ttl \in 0 .. Window /\ e.ttl \in 0 .. Window
  BY DEF Counts
<1>2. g \in LastTicks /\ \A i \in 1 .. Window : g[i] = IF e.count <= MaxRequests THEN f[i] + 1 ELSE f[i]
  BY ThrottlesNow DEF Throttles!Within
<1>3. LetThrough(e.count) = IF e.count <= MaxRequests THEN LetThrough(c.count) + 1 ELSE LetThrough(c.count)
  BY <1>1, ThrottlesAssumed DEF LetThrough
<1>4. LetThrough(c.count) \in Nat
  BY <1>1, ThrottlesAssumed DEF LetThrough
<1> HIDE DEF g
<1>5. \A i \in 1 .. Window : g[i] + 0 <= LetThrough(e.count) + MaxRequests
  BY <1>2, <1>3, <1>4, ThrottlesAssumed DEF WindowInv, LastTicks
<1>6. ASSUME e.ttl > 0 PROVE \A i \in 1 .. (Window - e.ttl + 1) : g[i] + 0 <= LetThrough(e.count)
  <2>1. CASE c.count = 0
    <3>1. Window - e.ttl + 1 = 1 /\ f[1] = 0 /\ e.count = 1
      BY <1>1, <2>1, ThrottlesAssumed DEF WindowInv
    <3>2. g[1] = 1 /\ LetThrough(e.count) = 1
      BY <1>2, <3>1, ThrottlesAssumed DEF LetThrough
    <3> QED
      BY <3>1, <3>2
  <2>2. CASE c.count > 0
    <3> SUFFICES ASSUME NEW i \in 1 .. (Window - e.ttl + 1) PROVE g[i] + 0 <= LetThrough(e.count)
      OBVIOUS
    <3>1. c.ttl = e.ttl /\ i \in 1 .. Window /\ f[i] \in Nat
      BY <1>1, <1>6, <2>2, ThrottlesAssumed DEF LastTicks
    <3>2. f[i] + 0 <= LetThrough(c.count)
      BY <1>6, <3>1 DEF WindowInv
    <3> QED
      BY <1>2, <1>3, <1>4, <3>1, <3>2
  <2> QED
    BY <1>1, <2>1, <2>2
<1> QED
  BY <1>1, <1>5, <1>6 DEF WindowInv, g

\* A tick without requests: what was let through is of longer ago.
LEMMA CountedOlder ==
  ASSUME NEW c \in Counts, NEW f \in LastTicks, WindowInv(c, f, 0)
  PROVE  Throttles!Older(c) \in Counts /\ WindowInv(Throttles!Older(c), Throttles!Shift(f), 0)
<1> DEFINE e == Throttles!Older(c)
           g == Throttles!Shift(f)
<1>1. c.count \in Nat /\ c.ttl \in 0 .. Window /\ LetThrough(c.count) \in 0 .. MaxRequests
  BY ThrottlesAssumed DEF Counts, LetThrough
<1>2. g \in LastTicks /\ g[1] = 0 /\ \A i \in 2 .. Window : g[i] = f[i - 1]
  BY ThrottlesNow
<1>3. CASE c.ttl > 1
  <2>1. e \in Counts /\ e.count = c.count /\ e.ttl = c.ttl - 1
    BY <1>1, <1>3, ThrottlesAssumed DEF Throttles!Older, Counts
  <2> HIDE DEF e, g
  <2>2. \A i \in 1 .. Window : g[i] + 0 <= LetThrough(e.count) + MaxRequests
    <3> SUFFICES ASSUME NEW i \in 1 .. Window PROVE g[i] <= LetThrough(c.count) + MaxRequests
      BY <1>1, <1>2, <2>1 DEF LastTicks
    <3>1. i # 1 => i \in 2 .. Window /\ i - 1 \in 1 .. Window
      BY ThrottlesAssumed
    <3>2. i # 1 => g[i] = f[i - 1] /\ f[i - 1] + 0 <= LetThrough(c.count) + MaxRequests /\ f[i - 1] \in Nat
      BY <1>2, <3>1 DEF WindowInv, LastTicks
    <3> QED
      BY <1>1, <1>2, <3>2, ThrottlesAssumed
  <2>3. \A i \in 1 .. (Window - e.ttl + 1) : g[i] + 0 <= LetThrough(e.count)
    <3> SUFFICES ASSUME NEW i \in 1 .. (Window - e.ttl + 1) PROVE g[i] + 0 <= LetThrough(c.count)
      BY <2>1
    <3>1. i # 1 => i \in 2 .. Window /\ i - 1 \in 1 .. (Window - c.ttl + 1) /\ i - 1 \in 1 .. Window
      BY <1>1, <1>3, <2>1, ThrottlesAssumed
    <3>2. i # 1 => g[i] = f[i - 1] /\ f[i - 1] + 0 <= LetThrough(c.count) /\ f[i - 1] \in Nat
      BY <1>1, <1>2, <1>3, <3>1 DEF WindowInv, LastTicks
    <3> QED
      BY <1>1, <1>2, <3>2, ThrottlesAssumed
  <2>4. e.count # 0
    BY <1>1, <1>3, <2>1 DEF WindowInv
  <2>5. WindowInv(e, g, 0)
    BY <2>2, <2>3, <2>4 DEF WindowInv
  <2> QED
    BY <2>1, <2>5 DEF e, g
<1>4. CASE c.ttl = 1
  <2>1. e = Throttles!NoCount /\ e \in Counts /\ e.count = 0 /\ e.ttl = 0 /\ LetThrough(e.count) = 0
    BY <1>1, <1>4, ThrottlesAssumed DEF Throttles!Older, Throttles!NoCount, Counts, LetThrough
  <2> HIDE DEF e, g
  <2>2. \A i \in 1 .. Window : g[i] + 0 <= LetThrough(e.count) + MaxRequests
    <3> SUFFICES ASSUME NEW i \in 1 .. Window PROVE g[i] <= MaxRequests
      BY <1>1, <1>2, <2>1, ThrottlesAssumed DEF LastTicks
    <3>1. i # 1 => i \in 2 .. Window /\ i - 1 \in 1 .. (Window - c.ttl + 1) /\ f[i - 1] \in Nat
      BY <1>1, <1>4, ThrottlesAssumed DEF LastTicks
    <3>2. i # 1 => g[i] = f[i - 1] /\ f[i - 1] + 0 <= LetThrough(c.count)
      BY <1>2, <1>4, <3>1 DEF WindowInv
    <3> QED
      BY <1>1, <1>2, <3>1, <3>2, ThrottlesAssumed
  <2>3. WindowInv(e, g, 0)
    BY <1>2, <2>1, <2>2 DEF WindowInv
  <2> QED
    BY <2>1, <2>3 DEF e, g
<1>5. CASE c.ttl = 0
  <2>1. e = c
    BY <1>5 DEF Throttles!Older
  <2>2. \A i \in 1 .. Window : g[i] <= LetThrough(c.count) + MaxRequests
    <3> SUFFICES ASSUME NEW i \in 1 .. Window PROVE g[i] <= LetThrough(c.count) + MaxRequests
      OBVIOUS
    <3>1. i # 1 => i \in 2 .. Window /\ i - 1 \in 1 .. Window /\ f[i - 1] \in Nat
      BY ThrottlesAssumed DEF LastTicks
    <3>2. i # 1 => g[i] = f[i - 1] /\ f[i - 1] + 0 <= LetThrough(c.count) + MaxRequests
      BY <1>2, <3>1 DEF WindowInv
    <3> QED
      BY <1>1, <1>2, <3>1, <3>2, ThrottlesAssumed
  <2> HIDE DEF g
  <2>3. WindowInv(c, g, 0)
    BY <1>1, <1>2, <1>5, <2>2 DEF WindowInv, LastTicks
  <2> QED
    BY <2>1, <2>3 DEF g
<1> QED
  BY <1>1, <1>3, <1>4, <1>5

\* The types of Throttles, in the sets of this module.
LEMMA ThrottlesTyped ==
  Throttles!TypeOK <=>
    /\ shared \in Counts /\ memory \in [Conns -> Counts]
    /\ connected \subseteq Conns /\ alone \subseteq Conns /\ connected \cap alone = {}
    /\ ask \in [Requests -> [at : {"idle", "incr", "expire"}, worker : Conns]]
    /\ came \in LastTicks /\ passed \in [shared : LastTicks, memory : [Conns -> LastTicks]]
    /\ failed \in 0 .. MaxFailed /\ stuck \in BOOLEAN
BY DEF Throttles!TypeOK, Counts, LastTicks

\* A request that is answered is at work no more.
LEMMA AskIdle ==
  /\ Throttles!Idle \in [at : {"idle", "incr", "expire"}, worker : Conns]
  /\ Throttles!Idle.at = "idle"
BY ThrottlesAssumed DEF Throttles!Idle

\* A request comes: it is counted among those that came, and waits.
LEMMA ThrottlesBeginInv ==
  ASSUME ThrottlesInv, NEW h \in Requests, NEW w \in Conns, NEW connects \in BOOLEAN,
         Throttles!Begin(h, w, connects)
  PROVE  ThrottlesInv'
<1>1. /\ ask[h] = Throttles!Idle /\ came' = Throttles!Now(came)
      /\ connected' = IF connects /\ w \notin alone THEN connected \cup {w} ELSE connected
      /\ alone' = IF connects THEN alone ELSE alone \cup {w}
      /\ w \in connected => connects
      /\ w \in alone => ~connects
      /\ ask' = [ask EXCEPT ![h] = [at |-> "incr", worker |-> w]]
      /\ UNCHANGED <<shared, memory, passed, failed, stuck>>
  BY DEF Throttles!Begin
<1>2. came \in LastTicks /\ ask \in [Requests -> [at : {"idle", "incr", "expire"}, worker : Conns]] /\ shared \in Counts
  BY ThrottlesTyped DEF ThrottlesInv
<1>3. \A k \in Requests : ask'[k] = IF k = h THEN [at |-> "incr", worker |-> w] ELSE ask[k]
  BY <1>1, <1>2
<1>4. Throttles!TypeOK'
  <2>1. came' \in LastTicks
    BY <1>1, <1>2, ThrottlesNow
  <2>2. ask' \in [Requests -> [at : {"idle", "incr", "expire"}, worker : Conns]]
    BY <1>1, <1>2
  <2>3. connected' \subseteq Conns /\ alone' \subseteq Conns /\ connected' \cap alone' = {}
    BY <1>1, ThrottlesTyped DEF ThrottlesInv
  <2> QED
    BY <1>1, <2>1, <2>2, <2>3 DEF ThrottlesInv, Throttles!TypeOK, Counts, LastTicks
<1>5. \A k \in Requests : Expiring(k)' <=> Expiring(k)
  BY <1>1, <1>3, AskIdle DEF Expiring
<1>6. SharedInv' /\ Owed' = Owed
  BY <1>1, <1>5 DEF ThrottlesInv, SharedInv, Owed, WindowInv
<1>7. MemoryInv'
  BY <1>1 DEF ThrottlesInv, MemoryInv, WindowInv
<1>8. CameInv'
  <2>1. Raising' = Raising \cup {h} /\ h \notin Raising /\ IsFiniteSet(Raising)
    <3>1. Raising' = Raising \cup {h} /\ h \notin Raising
      BY <1>1, <1>3, AskIdle DEF Raising
    <3>2. Raising \subseteq Requests
      BY DEF Raising
    <3> QED
      BY <3>1, <3>2, FS_Subset, ThrottlesAssumed
  <2>2. Cardinality(Raising') = Cardinality(Raising) + 1 /\ Cardinality(Raising) \in Nat
    BY <2>1, FS_AddElement, FS_CardinalityType
  <2>3. Age' = Age /\ Age \in Nat /\ shared.count \in Nat
    BY <1>1, <1>2, ThrottlesAssumed DEF Age, Counts
  <2>4. ASSUME ~stuck, NEW i \in (Age + 1) .. Window PROVE shared.count + Cardinality(Raising') <= came'[i]
    <3>1. i \in 1 .. Window /\ came'[i] = came[i] + 1 /\ came[i] \in Nat
      BY <1>1, <1>2, <2>3, ThrottlesNow, ThrottlesAssumed DEF LastTicks
    <3>2. shared.count + Cardinality(Raising) <= came[i]
      BY <2>4 DEF ThrottlesInv, CameInv
    <3> QED
      BY <2>2, <2>3, <3>1, <3>2
  <2> QED
    BY <1>1, <1>6, <2>3, <2>4 DEF ThrottlesInv, CameInv
<1> QED
  BY <1>4, <1>6, <1>7, <1>8 DEF ThrottlesInv

\* A request that leaves the throttle: nobody else moves.
LEMMA AskAnswered ==
  ASSUME Throttles!TypeOK, NEW h \in Requests, Throttles!Answered(h)
  PROVE  /\ ask' \in [Requests -> [at : {"idle", "incr", "expire"}, worker : Conns]]
         /\ \A k \in Requests : Expiring(k)' <=> Expiring(k) /\ k # h
         /\ Raising' = Raising \ {h} /\ IsFiniteSet(Raising) /\ IsFiniteSet(Raising')
         /\ Cardinality(Raising') = Cardinality(Raising) - (IF h \in Raising THEN 1 ELSE 0)
         /\ Cardinality(Raising) \in Nat /\ Cardinality(Raising') \in Nat
<1>1. ask \in [Requests -> [at : {"idle", "incr", "expire"}, worker : Conns]]
  BY ThrottlesTyped
<1>2. ask' \in [Requests -> [at : {"idle", "incr", "expire"}, worker : Conns]]
  BY <1>1, AskIdle DEF Throttles!Answered
<1>3. \A k \in Requests : ask'[k] = IF k = h THEN Throttles!Idle ELSE ask[k]
  BY <1>1 DEF Throttles!Answered
<1>4. \A k \in Requests : Expiring(k)' <=> Expiring(k) /\ k # h
  BY <1>3, AskIdle DEF Expiring
<1>5. Raising' = Raising \ {h}
  BY <1>3, AskIdle DEF Raising
<1>6. IsFiniteSet(Raising)
  <2>1. Raising \subseteq Requests
    BY DEF Raising
  <2> QED
    BY <2>1, FS_Subset, ThrottlesAssumed
<1>7. IsFiniteSet(Raising \ {h}) /\ Cardinality(Raising) \in Nat /\ Cardinality(Raising \ {h}) \in Nat
      /\ Cardinality(Raising \ {h}) = IF h \in Raising THEN Cardinality(Raising) - 1 ELSE Cardinality(Raising)
  BY <1>6, FS_RemoveElement, FS_CardinalityType
<1> QED
  BY <1>2, <1>4, <1>5, <1>6, <1>7

\* A count in Redis is raised, by the first of its window or by a later one.
LEMMA ThrottlesIncrInv ==
  ASSUME ThrottlesInv, NEW h \in Requests, Throttles!Incr(h)
  PROVE  ThrottlesInv'
<1> DEFINE n == shared.count + 1
<1>1. /\ ask[h].at = "incr" /\ shared' = [shared EXCEPT !.count = n]
      /\ IF n = 1 THEN ask' = [ask EXCEPT ![h].at = "expire"] /\ UNCHANGED passed
                  ELSE Throttles!Answered(h) /\ Throttles!PassedShared(n)
      /\ UNCHANGED <<memory, connected, alone, came, failed, stuck>>
  <2>1. shared'.count = n
    BY ThrottlesTyped DEF Throttles!Incr, ThrottlesInv, Counts
  <2> QED
    BY <2>1 DEF Throttles!Incr, Throttles!SetsTtl
<1>2. /\ shared \in Counts /\ ask \in [Requests -> [at : {"idle", "incr", "expire"}, worker : Conns]]
      /\ passed \in [shared : LastTicks, memory : [Conns -> LastTicks]]
  BY ThrottlesTyped DEF ThrottlesInv
<1>3. shared' \in Counts /\ shared'.count = n /\ shared'.ttl = shared.ttl /\ n \in Nat /\ shared.count \in Nat
  BY <1>1, <1>2 DEF Counts
<1>4. h \in Raising /\ ~Expiring(h)
  BY <1>1 DEF Raising, Expiring
<1>5. Raising' = Raising \ {h} /\ Cardinality(Raising') = Cardinality(Raising) - 1 /\ Cardinality(Raising) \in Nat
  <2>1. CASE n = 1
    <3>1. Raising' = Raising \ {h}
      BY <1>1, <1>2, <2>1 DEF Raising
    <3>2. IsFiniteSet(Raising)
      <4>1. Raising \subseteq Requests
        BY DEF Raising
      <4> QED
        BY <4>1, FS_Subset, ThrottlesAssumed
    <3> QED
      BY <1>4, <3>1, <3>2, FS_RemoveElement, FS_CardinalityType
  <2>2. CASE n # 1
    BY <1>1, <1>4, <2>2, AskAnswered DEF ThrottlesInv
  <2> QED
    BY <2>1, <2>2
<1>6. Throttles!TypeOK' /\ SharedInv' /\ (Owed = 1 => Owed' = 1) /\ (n = 1 => Owed' = 1)
      /\ passed'.memory = passed.memory
  <2>1. CASE n = 1
    <3>1. ask' \in [Requests -> [at : {"idle", "incr", "expire"}, worker : Conns]]
      BY <1>1, <1>2, <2>1
    <3>2. \A k \in Requests : Expiring(k)' <=> Expiring(k) \/ k = h
      BY <1>1, <1>2, <2>1 DEF Expiring
    <3>3. shared.count = 0
      BY <1>3, <2>1
    <3>4. Owed = 0 /\ \A k \in Requests : ~Expiring(k)
      BY <3>3 DEF ThrottlesInv, SharedInv, WindowInv, Owed
    <3>5. Owed' = 1
      BY <3>2 DEF Owed
    <3>6. WindowInv(shared, passed.shared, 0)
      BY <3>4 DEF ThrottlesInv, SharedInv
    <3>7. LetThrough(0) = 0 /\ LetThrough(1) = 1
      BY ThrottlesAssumed DEF LetThrough
    <3>8. passed' = passed /\ passed.shared \in LastTicks /\ shared'.count = 1 /\ shared'.ttl = 0 /\ passed.shared[1] = 0
      BY <1>1, <1>2, <1>3, <2>1, <3>3, <3>6 DEF WindowInv
    <3>9. WindowInv(shared', passed'.shared, 1)
      BY <3>3, <3>6, <3>7, <3>8, ThrottlesAssumed DEF WindowInv, LastTicks
    <3>10. SharedInv'
      BY <3>2, <3>4, <3>5, <3>9 DEF SharedInv
    <3>11. Throttles!TypeOK'
      BY <1>1, <1>3, <3>1, <3>8 DEF ThrottlesInv, Throttles!TypeOK, Counts, LastTicks
    <3> QED
      BY <3>5, <3>8, <3>10, <3>11
  <2>2. CASE n # 1
    <3>1. /\ ask' \in [Requests -> [at : {"idle", "incr", "expire"}, worker : Conns]]
          /\ \A k \in Requests : Expiring(k)' <=> Expiring(k)
      BY <1>1, <1>4, <2>2, AskAnswered DEF ThrottlesInv
    <3>2. Owed' = Owed
      BY <3>1 DEF Owed
    <3>3. shared.count > 0
      BY <1>3, <2>2
    <3>4. CASE Owed = 0
      <4>1. WindowInv(shared, passed.shared, 0)
        BY <3>4 DEF ThrottlesInv, SharedInv
      <4>2. passed.shared \in LastTicks
        BY <1>2
      <4>3. WindowInv(shared', IF Throttles!Within(n) THEN Throttles!Now(passed.shared) ELSE passed.shared, 0)
        BY <1>2, <1>3, <3>3, <4>1, <4>2, CountedMore
      <4>4. /\ passed'.shared = IF Throttles!Within(n) THEN Throttles!Now(passed.shared) ELSE passed.shared
            /\ passed'.memory = passed.memory
            /\ passed' \in [shared : LastTicks, memory : [Conns -> LastTicks]]
        BY <1>1, <1>2, <2>2, ThrottlesNow DEF Throttles!PassedShared
      <4>5. SharedInv'
        BY <3>1, <3>2, <3>4, <4>3, <4>4 DEF ThrottlesInv, SharedInv
      <4>6. Throttles!TypeOK'
        BY <1>1, <1>3, <3>1, <4>4 DEF ThrottlesInv, Throttles!TypeOK, Counts, LastTicks
      <4> QED
        BY <3>2, <3>4, <4>4, <4>5, <4>6, <2>2
    <3>5. CASE Owed = 1
      <4>1. WindowInv(shared, passed.shared, 1)
        BY <3>5 DEF ThrottlesInv, SharedInv
      <4>2. /\ passed'.shared = IF Throttles!Within(n) THEN Throttles!Now(passed.shared) ELSE passed.shared
            /\ passed'.memory = passed.memory
            /\ passed' \in [shared : LastTicks, memory : [Conns -> LastTicks]]
        BY <1>1, <1>2, <2>2, ThrottlesNow DEF Throttles!PassedShared
      <4>3. /\ \A i \in 1 .. Window : passed'.shared[i] =
                 IF n <= MaxRequests THEN passed.shared[i] + 1 ELSE passed.shared[i]
            /\ passed.shared \in LastTicks
        BY <1>2, <4>2, ThrottlesNow DEF Throttles!Within
      <4>4. LetThrough(n) = IF n <= MaxRequests THEN LetThrough(shared.count) + 1 ELSE LetThrough(shared.count)
        BY <1>3, ThrottlesAssumed DEF LetThrough
      <4>5. LetThrough(shared.count) \in Nat /\ 1 \in 1 .. Window
        BY <1>3, ThrottlesAssumed DEF LetThrough
      <4>6. \A i \in 1 .. Window : passed'.shared[i] + 1 <= LetThrough(n) + MaxRequests
        <5> SUFFICES ASSUME NEW i \in 1 .. Window PROVE passed'.shared[i] + 1 <= LetThrough(n) + MaxRequests
          OBVIOUS
        <5>1. passed.shared[i] + 1 <= LetThrough(shared.count) + MaxRequests /\ passed.shared[i] \in Nat
          BY <4>1, <4>3 DEF WindowInv, LastTicks
        <5> QED
          BY <4>3, <4>4, <4>5, <5>1, ThrottlesAssumed
      <4>7. passed'.shared[1] + 1 <= LetThrough(n)
        <5>1. passed.shared[1] + 1 <= LetThrough(shared.count) /\ passed.shared[1] \in Nat
          BY <4>1, <4>3, <4>5 DEF WindowInv, LastTicks
        <5> QED
          BY <4>3, <4>4, <4>5, <5>1, ThrottlesAssumed
      <4>8. n > 0 /\ shared.ttl = 0
        BY <1>3, <4>1 DEF WindowInv
      <4>9. WindowInv(shared', passed'.shared, 1)
        BY <1>3, <4>6, <4>7, <4>8 DEF WindowInv
      <4>10. SharedInv'
        BY <3>1, <3>2, <3>5, <4>9 DEF ThrottlesInv, SharedInv
      <4>11. Throttles!TypeOK'
        BY <1>1, <1>3, <3>1, <4>2 DEF ThrottlesInv, Throttles!TypeOK, Counts, LastTicks
      <4> QED
        BY <3>2, <3>5, <4>2, <4>10, <4>11, <2>2
    <3> QED
      BY <3>4, <3>5 DEF Owed
  <2> QED
    BY <2>1, <2>2
<1>7. MemoryInv'
  BY <1>1, <1>6 DEF ThrottlesInv, MemoryInv, WindowInv
<1>8. CameInv'
  <2>1. Age' = Age
    BY <1>3 DEF Age
  <2>2. n + Cardinality(Raising') = shared.count + Cardinality(Raising)
    BY <1>3, <1>5
  <2>3. ASSUME ~stuck, shared'.ttl = 0 PROVE Owed' = 1
    <3>1. shared.count > 0 => Owed = 1
      BY <1>3, <2>3 DEF ThrottlesInv, CameInv
    <3> QED
      BY <1>3, <1>6, <3>1
  <2> QED
    BY <1>1, <1>3, <2>1, <2>2, <2>3 DEF ThrottlesInv, CameInv
<1> QED
  BY <1>6, <1>7, <1>8 DEF ThrottlesInv

\* The request between the commands is the only one; without it none is owed.
LEMMA ExpiringLeaves ==
  ASSUME ThrottlesInv, NEW h \in Requests, Expiring(h), Throttles!Answered(h)
  PROVE  /\ Owed = 1 /\ Owed' = 0 /\ \A k \in Requests : ~Expiring(k)'
         /\ Cardinality(Raising') = Cardinality(Raising)
<1>1. \A k \in Requests : ~Expiring(k)'
  BY AskAnswered DEF ThrottlesInv, SharedInv
<1>2. Owed = 1 /\ Owed' = 0
  BY <1>1 DEF Owed
<1>3. h \notin Raising
  BY DEF Expiring, Raising
<1> QED
  BY <1>1, <1>2, <1>3, AskAnswered DEF ThrottlesInv

\* The time to live is set: the window begins, and the request passes.
LEMMA ThrottlesExpireInv ==
  ASSUME ThrottlesInv, NEW h \in Requests, Throttles!Expire(h)
  PROVE  ThrottlesInv'
<1>1. /\ Expiring(h) /\ Throttles!Answered(h)
      /\ shared' = IF shared.count = 0 THEN shared ELSE [shared EXCEPT !.ttl = Window]
      /\ passed' = [passed EXCEPT !.shared = Throttles!Now(@)]
      /\ UNCHANGED <<memory, connected, alone, came, failed, stuck>>
  BY ThrottlesAssumed DEF Throttles!Expire, Throttles!PassedShared, Throttles!Within, Expiring
<1>2. /\ shared \in Counts /\ passed \in [shared : LastTicks, memory : [Conns -> LastTicks]]
  BY ThrottlesTyped DEF ThrottlesInv
<1>3. WindowInv(shared, passed.shared, 1)
  BY <1>1, ExpiringLeaves DEF ThrottlesInv, SharedInv
<1>4. shared' \in Counts /\ shared'.count = shared.count /\ shared'.ttl = Window /\ shared.count > 0 /\ shared.ttl = 0
  <2>1. shared.count # 0 /\ shared.ttl = 0 /\ shared.count > 0
    BY <1>2, <1>3 DEF WindowInv, Counts
  <2> QED
    BY <1>1, <1>2, <2>1, ThrottlesAssumed DEF Counts
<1>5. /\ passed' \in [shared : LastTicks, memory : [Conns -> LastTicks]] /\ passed'.memory = passed.memory
      /\ \A i \in 1 .. Window : passed'.shared[i] = passed.shared[i] + 1 /\ passed.shared[i] \in Nat
  BY <1>1, <1>2, ThrottlesNow DEF LastTicks
<1>6. Throttles!TypeOK'
  BY <1>1, <1>4, <1>5, AskAnswered DEF ThrottlesInv, Throttles!TypeOK, Counts, LastTicks
<1>7. SharedInv'
  <2>1. LetThrough(shared.count) \in Nat /\ 1 \in 1 .. Window
    BY <1>2, ThrottlesAssumed DEF LetThrough, Counts
  <2>2. \A i \in 1 .. Window : passed'.shared[i] + 0 <= LetThrough(shared'.count) + MaxRequests
    BY <1>3, <1>4, <1>5, <2>1, ThrottlesAssumed DEF WindowInv
  <2>3. \A i \in 1 .. (Window - shared'.ttl + 1) : i = 1
    BY <1>4, ThrottlesAssumed
  <2>4. passed'.shared[1] + 0 <= LetThrough(shared'.count)
    BY <1>3, <1>4, <1>5, <2>1 DEF WindowInv
  <2>5. WindowInv(shared', passed'.shared, 0)
    BY <1>4, <2>2, <2>3, <2>4 DEF WindowInv
  <2> QED
    BY <1>1, <2>5, ExpiringLeaves DEF SharedInv
<1>8. MemoryInv'
  BY <1>1, <1>5 DEF ThrottlesInv, MemoryInv, WindowInv
<1>9. CameInv'
  <2>1. Age = 0 /\ Age' = 0
    BY <1>4, ThrottlesAssumed DEF Age
  <2> QED
    BY <1>1, <1>4, <2>1, ExpiringLeaves, ThrottlesAssumed DEF ThrottlesInv, CameInv
<1> QED
  BY <1>6, <1>7, <1>8, <1>9 DEF ThrottlesInv

\* A command fails: the request passes uncounted, or leaves a count that
\* has no time to live.
LEMMA ThrottlesFailsInv ==
  ASSUME ThrottlesInv, NEW h \in Requests, Throttles!Fails(h)
  PROVE  ThrottlesInv'
<1>1. /\ Throttles!Answered(h) /\ ask[h].at \in {"incr", "expire"} /\ failed < MaxFailed
      /\ failed' = failed + 1 /\ stuck' = (stuck \/ Expiring(h))
      /\ UNCHANGED <<shared, memory, connected, alone, came, passed>>
  BY DEF Throttles!Fails, Expiring
<1>2. shared \in Counts /\ passed \in [shared : LastTicks, memory : [Conns -> LastTicks]] /\ failed \in 0 .. MaxFailed
      /\ stuck \in BOOLEAN /\ came \in LastTicks
  BY ThrottlesTyped DEF ThrottlesInv
<1>3. Throttles!TypeOK'
  <2>1. failed' \in 0 .. MaxFailed /\ stuck' \in BOOLEAN
    BY <1>1, <1>2, ThrottlesAssumed
  <2> QED
    BY <1>1, <2>1, AskAnswered DEF ThrottlesInv, Throttles!TypeOK
<1>4. CASE Expiring(h)
  <2>1. WindowInv(shared, passed.shared, 1)
    BY <1>4, <1>1, ExpiringLeaves DEF ThrottlesInv, SharedInv
  <2>2. LetThrough(shared.count) \in Nat
    BY <1>2, ThrottlesAssumed DEF LetThrough, Counts
  <2>3. WindowInv(shared, passed.shared, 0)
    BY <1>2, <2>1, <2>2, ThrottlesAssumed DEF WindowInv, LastTicks, Counts
  <2>4. SharedInv'
    BY <1>1, <1>4, <2>3, ExpiringLeaves DEF SharedInv, WindowInv
  <2>5. CameInv'
    BY <1>1, <1>4 DEF CameInv
  <2>6. MemoryInv'
    BY <1>1 DEF ThrottlesInv, MemoryInv, WindowInv
  <2> QED
    BY <1>3, <2>4, <2>5, <2>6 DEF ThrottlesInv
<1>5. CASE ~Expiring(h)
  <2>1. h \in Raising
    BY <1>1, <1>5 DEF Raising, Expiring
  <2>2. \A k \in Requests : Expiring(k)' <=> Expiring(k)
    BY <1>1, <1>5, AskAnswered DEF ThrottlesInv
  <2>3. Owed' = Owed
    BY <2>2 DEF Owed
  <2>4. SharedInv'
    BY <1>1, <2>2, <2>3 DEF ThrottlesInv, SharedInv, WindowInv
  <2>5. CameInv'
    <3>1. Cardinality(Raising') = Cardinality(Raising) - 1 /\ Cardinality(Raising) \in Nat /\ Cardinality(Raising') \in Nat
      BY <1>1, <2>1, AskAnswered DEF ThrottlesInv
    <3>2. Age' = Age /\ Age \in Nat
      BY <1>1, <1>2, ThrottlesAssumed DEF Age, Counts
    <3>3. ASSUME ~stuck, NEW i \in (Age + 1) .. Window PROVE shared.count + Cardinality(Raising') <= came[i]
      <4>1. shared.count + Cardinality(Raising) <= came[i] /\ i \in 1 .. Window
        BY <3>2, <3>3, ThrottlesAssumed DEF ThrottlesInv, CameInv
      <4>2. came[i] \in Nat /\ shared.count \in Nat
        BY <1>2, <4>1 DEF LastTicks, Counts
      <4> QED
        BY <3>1, <4>1, <4>2
    <3>4. ~stuck' => ~stuck
      BY <1>1
    <3> QED
      BY <1>1, <2>3, <3>2, <3>3, <3>4 DEF ThrottlesInv, CameInv
  <2>6. MemoryInv'
    BY <1>1 DEF ThrottlesInv, MemoryInv, WindowInv
  <2> QED
    BY <1>3, <2>4, <2>5, <2>6 DEF ThrottlesInv
<1> QED
  BY <1>4, <1>5

\* A worker that is alone counts for itself.
LEMMA ThrottlesMemoryIncrInv ==
  ASSUME ThrottlesInv, NEW h \in Requests, Throttles!MemoryIncr(h)
  PROVE  ThrottlesInv'
<1> DEFINE w == ask[h].worker
           m == [count |-> memory[w].count + 1, ttl |-> IF memory[w] = Throttles!NoCount THEN Window ELSE memory[w].ttl]
<1>1. /\ ask[h].at = "incr" /\ w \in alone /\ memory' = [memory EXCEPT ![w] = m]
      /\ Throttles!Answered(h) /\ Throttles!PassedMemory(w, m.count)
      /\ UNCHANGED <<shared, connected, alone, came, failed, stuck>>
  BY DEF Throttles!MemoryIncr
<1>2. /\ memory \in [Conns -> Counts] /\ passed \in [shared : LastTicks, memory : [Conns -> LastTicks]]
      /\ alone \subseteq Conns /\ w \in Conns /\ came \in LastTicks /\ shared \in Counts
  BY <1>1, ThrottlesTyped DEF ThrottlesInv
<1>3. /\ memory[w] \in Counts /\ passed.memory[w] \in LastTicks /\ WindowInv(memory[w], passed.memory[w], 0)
  BY <1>2 DEF ThrottlesInv, MemoryInv
<1>4. /\ m \in Counts /\ m.count = memory[w].count + 1
      /\ memory[w].count > 0 => m.ttl = memory[w].ttl
      /\ memory[w].count = 0 => m.ttl = Window
  <2>1. memory[w].count = 0 => memory[w] = Throttles!NoCount
    BY <1>3 DEF WindowInv, Counts, Throttles!NoCount
  <2>2. memory[w].count > 0 => memory[w] # Throttles!NoCount
    BY DEF Throttles!NoCount
  <2>3. m \in Counts
    BY <1>3, ThrottlesAssumed DEF Counts
  <2> QED
    BY <2>1, <2>2, <2>3
<1> DEFINE g == IF Throttles!Within(m.count) THEN Throttles!Now(passed.memory[w]) ELSE passed.memory[w]
<1> HIDE DEF w, m
<1>5. WindowInv(m, g, 0)
  BY <1>3, <1>4, CountedMore
<1>6. g \in LastTicks
  BY <1>3, ThrottlesNow
<1>7. /\ passed' \in [shared : LastTicks, memory : [Conns -> LastTicks]]
      /\ passed'.shared = passed.shared /\ passed'.memory[w] = g
      /\ \A v \in Conns \ {w} : passed'.memory[v] = passed.memory[v]
  <2>1. passed.memory \in [Conns -> LastTicks]
    BY <1>2
  <2>2. CASE Throttles!Within(m.count)
    BY <1>1, <1>2, <1>6, <2>1, <2>2 DEF Throttles!PassedMemory
  <2>3. CASE ~Throttles!Within(m.count)
    BY <1>1, <1>2, <2>1, <2>3 DEF Throttles!PassedMemory
  <2> QED
    BY <2>2, <2>3
<1>8. Throttles!TypeOK'
  <2>1. memory' \in [Conns -> Counts]
    BY <1>1, <1>2, <1>4
  <2> QED
    BY <1>1, <1>7, <2>1, AskAnswered DEF ThrottlesInv, Throttles!TypeOK, Counts, LastTicks
<1>9. \A k \in Requests : Expiring(k)' <=> Expiring(k)
  BY <1>1, AskAnswered DEF ThrottlesInv, Expiring
<1>10. Owed' = Owed
  BY <1>9 DEF Owed
<1>11. SharedInv'
  BY <1>1, <1>7, <1>9, <1>10 DEF ThrottlesInv, SharedInv, WindowInv
<1>12. MemoryInv'
  <2> SUFFICES ASSUME NEW v \in Conns
               PROVE  /\ WindowInv(memory'[v], passed'.memory[v], 0)
                      /\ v \notin alone => memory'[v] = Throttles!NoCount /\ passed'.memory[v] = Throttles!NoneYet
    BY <1>1 DEF MemoryInv, Throttles!NoCount, Throttles!NoneYet
  <2>1. CASE v = w
    BY <1>1, <1>2, <1>5, <1>7, <2>1
  <2>2. CASE v # w
    BY <1>1, <1>2, <1>7, <2>2 DEF ThrottlesInv, MemoryInv
  <2> QED
    BY <2>1, <2>2
<1>13. CameInv'
  <2>1. Cardinality(Raising') = Cardinality(Raising) - 1 /\ Cardinality(Raising) \in Nat /\ Cardinality(Raising') \in Nat
    BY <1>1, AskAnswered DEF ThrottlesInv, Raising
  <2>2. Age' = Age /\ Age \in Nat
    BY <1>1, <1>2, ThrottlesAssumed DEF Age, Counts
  <2>3. ASSUME ~stuck, NEW i \in (Age + 1) .. Window PROVE shared.count + Cardinality(Raising') <= came[i]
    <3>1. shared.count + Cardinality(Raising) <= came[i] /\ i \in 1 .. Window
      BY <2>2, <2>3, ThrottlesAssumed DEF ThrottlesInv, CameInv
    <3>2. came[i] \in Nat /\ shared.count \in Nat
      BY <1>2, <3>1 DEF LastTicks, Counts
    <3> QED
      BY <2>1, <3>1, <3>2
  <2> QED
    BY <1>1, <1>10, <2>2, <2>3 DEF ThrottlesInv, CameInv
<1> QED
  BY <1>8, <1>11, <1>12, <1>13 DEF ThrottlesInv

\* A tick: every count and every stretch grows older by one.
LEMMA ThrottlesTickInv ==
  ASSUME ThrottlesInv, Throttles!Tick
  PROVE  ThrottlesInv'
<1>1. /\ \A h \in Requests : ask[h] = Throttles!Idle
      /\ shared' = Throttles!Older(shared) /\ memory' = [w \in Conns |-> Throttles!Older(memory[w])]
      /\ came' = Throttles!Shift(came)
      /\ passed' = [shared |-> Throttles!Shift(passed.shared), memory |-> [w \in Conns |-> Throttles!Shift(passed.memory[w])]]
      /\ UNCHANGED <<connected, alone, ask, failed, stuck>>
  BY DEF Throttles!Tick
<1>2. /\ shared \in Counts /\ memory \in [Conns -> Counts] /\ came \in LastTicks
      /\ passed \in [shared : LastTicks, memory : [Conns -> LastTicks]]
  BY ThrottlesTyped DEF ThrottlesInv
<1>3. /\ \A h \in Requests : ~Expiring(h) /\ ~Expiring(h)'
      /\ Raising = {} /\ Raising' = {} /\ Owed = 0 /\ Owed' = 0
  <2>1. \A h \in Requests : ask[h].at = "idle" /\ ask'[h].at = "idle"
    BY <1>1, AskIdle
  <2> QED
    BY <2>1 DEF Expiring, Raising, Owed
<1>4. shared' \in Counts /\ WindowInv(shared', passed'.shared, 0)
  <2>1. WindowInv(shared, passed.shared, 0) /\ passed.shared \in LastTicks
    BY <1>2, <1>3 DEF ThrottlesInv, SharedInv
  <2>2. passed'.shared = Throttles!Shift(passed.shared)
    BY <1>1
  <2> QED
    BY <1>1, <1>2, <2>1, <2>2, CountedOlder
<1>5. SharedInv'
  BY <1>3, <1>4 DEF SharedInv
<1>6. ASSUME NEW w \in Conns
      PROVE  /\ memory'[w] = Throttles!Older(memory[w]) /\ passed'.memory[w] = Throttles!Shift(passed.memory[w])
             /\ memory'[w] \in Counts /\ passed'.memory[w] \in LastTicks /\ WindowInv(memory'[w], passed'.memory[w], 0)
             /\ w \notin alone' => memory'[w] = Throttles!NoCount /\ passed'.memory[w] = Throttles!NoneYet
  <2>1. memory'[w] = Throttles!Older(memory[w]) /\ passed'.memory[w] = Throttles!Shift(passed.memory[w])
    BY <1>1
  <2>2. memory[w] \in Counts /\ passed.memory[w] \in LastTicks /\ WindowInv(memory[w], passed.memory[w], 0)
    BY <1>2 DEF ThrottlesInv, MemoryInv
  <2>3. memory'[w] \in Counts /\ WindowInv(memory'[w], passed'.memory[w], 0) /\ passed'.memory[w] \in LastTicks
    BY <2>1, <2>2, CountedOlder, ThrottlesNow
  <2>4. Throttles!Older(Throttles!NoCount) = Throttles!NoCount
    BY DEF Throttles!Older, Throttles!NoCount
  <2>5. Throttles!Shift(Throttles!NoneYet) = Throttles!NoneYet
    <3>1. Throttles!NoneYet \in LastTicks
      BY DEF Throttles!NoneYet, LastTicks
    <3>2. \A i \in 1 .. Window : i # 1 => i - 1 \in 1 .. Window
      BY ThrottlesAssumed
    <3> QED
      BY <3>2 DEF Throttles!Shift, Throttles!NoneYet
  <2> QED
    BY <1>1, <2>1, <2>3, <2>4, <2>5 DEF ThrottlesInv, MemoryInv
<1>7. MemoryInv'
  BY <1>1, <1>6 DEF MemoryInv, Throttles!NoCount, Throttles!NoneYet
<1>8. came' \in LastTicks
  BY <1>1, <1>2, ThrottlesNow
<1>9. Throttles!TypeOK'
  <2>1. memory' \in [Conns -> Counts]
    BY <1>1, <1>6
  <2>2. [w \in Conns |-> Throttles!Shift(passed.memory[w])] \in [Conns -> LastTicks]
    BY <1>2, ThrottlesNow
  <2>3. Throttles!Shift(passed.shared) \in LastTicks
    BY <1>2, ThrottlesNow
  <2>4. passed' \in [shared : LastTicks, memory : [Conns -> LastTicks]]
    BY <1>1, <2>2, <2>3
  <2> QED
    BY <1>1, <1>4, <1>8, <2>1, <2>4 DEF ThrottlesInv, Throttles!TypeOK, Counts, LastTicks
<1>10. CameInv'
  <2> SUFFICES ASSUME ~stuck PROVE CameInv'
    BY <1>1 DEF CameInv
  <2>1. shared.count \in Nat /\ shared.ttl \in 0 .. Window
    BY <1>2 DEF Counts
  <2>2. shared.count > 0 => shared.ttl > 0
    BY <1>3, <2>1 DEF ThrottlesInv, CameInv
  <2>3. Cardinality(Raising) = 0 /\ Cardinality(Raising') = 0
    BY <1>3, FS_EmptySet
  <2>4. CASE shared'.count = 0
    <3>1. \A i \in (Age' + 1) .. Window : shared'.count + Cardinality(Raising') <= came'[i]
      <4>1. PICK a \in Nat : a = Age'
        BY <1>4, ThrottlesAssumed DEF Age, Counts
      <4>2. ASSUME NEW i \in (Age' + 1) .. Window PROVE came'[i] \in Nat
        <5>1. i \in (a + 1) .. Window
          BY <4>1, <4>2
        <5>2. i \in 1 .. Window
          BY <5>1, ThrottlesAssumed
        <5> QED
          BY <1>8, <5>2 DEF LastTicks
      <4> QED
        BY <2>3, <2>4, <4>2
    <3> QED
      BY <2>4, <3>1 DEF CameInv
  <2>5. CASE shared'.count # 0
    <3>1. shared.ttl > 1 /\ shared'.count = shared.count /\ shared'.ttl = shared.ttl - 1
      <4>1. shared.ttl # 1
        BY <1>1, <2>5 DEF Throttles!Older, Throttles!NoCount
      <4>2. shared.ttl # 0
        BY <1>1, <2>1, <2>2, <2>5 DEF Throttles!Older, Throttles!NoCount
      <4>3. shared.ttl > 1
        BY <2>1, <4>1, <4>2
      <4> QED
        BY <1>1, <1>2, <4>3 DEF Throttles!Older, Counts
    <3>2. Age' = Age + 1 /\ Age \in Nat
      BY <2>1, <3>1, ThrottlesAssumed DEF Age
    <3>3. ASSUME NEW i \in (Age' + 1) .. Window PROVE shared'.count + Cardinality(Raising') <= came'[i]
      <4>1. i \in 2 .. Window /\ i - 1 \in (Age + 1) .. Window
        BY <3>2, <3>3, ThrottlesAssumed
      <4>2. came'[i] = came[i - 1]
        BY <1>1, <1>2, <4>1, ThrottlesNow
      <4>3. shared.count + Cardinality(Raising) <= came[i - 1]
        BY <4>1 DEF ThrottlesInv, CameInv
      <4> QED
        BY <2>3, <3>1, <4>2, <4>3
    <3>4. shared'.ttl # 0
      BY <2>1, <3>1
    <3> QED
      BY <3>3, <3>4 DEF CameInv
  <2> QED
    BY <2>4, <2>5
<1> QED
  BY <1>5, <1>7, <1>9, <1>10 DEF ThrottlesInv

\* Every step of a throttle keeps the invariant.
LEMMA ThrottlesNextInv == ASSUME ThrottlesInv, Throttles!Next PROVE ThrottlesInv'
BY ThrottlesTickInv, ThrottlesBeginInv, ThrottlesIncrInv, ThrottlesExpireInv, ThrottlesFailsInv, ThrottlesMemoryIncrInv
   DEF Throttles!Next

\* At first nothing is counted, and nothing came or passed.
LEMMA ThrottlesInitInv == ASSUME Throttles!Init PROVE ThrottlesInv
<1>1. /\ shared = Throttles!NoCount /\ memory = [w \in Conns |-> Throttles!NoCount]
      /\ connected = {} /\ alone = {} /\ ask = [h \in Requests |-> Throttles!Idle]
      /\ came = Throttles!NoneYet
      /\ passed = [shared |-> Throttles!NoneYet, memory |-> [w \in Conns |-> Throttles!NoneYet]]
      /\ failed = 0 /\ stuck = FALSE
  BY DEF Throttles!Init
<1>2. Throttles!NoCount \in Counts /\ Throttles!NoCount.count = 0 /\ Throttles!NoCount.ttl = 0
  BY ThrottlesAssumed DEF Throttles!NoCount, Counts
<1>3. Throttles!NoneYet \in LastTicks /\ \A i \in 1 .. Window : Throttles!NoneYet[i] = 0
  BY DEF Throttles!NoneYet, LastTicks
<1>4. WindowInv(Throttles!NoCount, Throttles!NoneYet, 0)
  BY <1>2, <1>3, ThrottlesAssumed DEF WindowInv, LetThrough
<1>5. Owed = 0 /\ Raising = {} /\ \A h \in Requests : ~Expiring(h)
  BY <1>1, AskIdle DEF Owed, Raising, Expiring
<1>6. Throttles!TypeOK
  <2>1. ask \in [Requests -> [at : {"idle", "incr", "expire"}, worker : Conns]]
    BY <1>1, AskIdle
  <2>2. memory \in [Conns -> Counts] /\ shared \in Counts /\ came \in LastTicks
    BY <1>1, <1>2, <1>3
  <2>3. passed \in [shared : LastTicks, memory : [Conns -> LastTicks]]
    BY <1>1, <1>3
  <2>4. failed \in 0 .. MaxFailed
    BY <1>1, ThrottlesAssumed
  <2> QED
    BY <1>1, <2>1, <2>2, <2>3, <2>4, ThrottlesTyped
<1>7. SharedInv /\ MemoryInv
  BY <1>1, <1>4, <1>5 DEF SharedInv, MemoryInv
<1>8. CameInv
  <2>1. Age = 0 /\ Cardinality(Raising) = 0
    BY <1>1, <1>2, <1>5, FS_EmptySet DEF Age
  <2> QED
    BY <1>1, <1>2, <1>3, <2>1 DEF CameInv
<1> QED
  BY <1>6, <1>7, <1>8 DEF ThrottlesInv

\* The invariant holds throughout.
LEMMA ThrottlesInvariance == PlatformSpec => [](part = "throttles" => ThrottlesInv)
<1>1. PlatformInit => (part = "throttles" => ThrottlesInv)
  BY ThrottlesInitInv DEF PlatformInit
<1>2. (part = "throttles" => ThrottlesInv) /\ [PlatformNext]_allVars => (part = "throttles" => ThrottlesInv)'
  <2>1. ASSUME ThrottlesInv, UNCHANGED <<shared, memory, connected, alone, ask, came, passed, failed, stuck>>
        PROVE  ThrottlesInv'
    <3>1. Throttles!TypeOK'
      BY <2>1 DEF ThrottlesInv, Throttles!TypeOK
    <3>2. \A h \in Requests : Expiring(h)' <=> Expiring(h)
      BY <2>1 DEF Expiring
    <3>3. Owed' = Owed /\ Raising' = Raising /\ Age' = Age
      BY <2>1, <3>2 DEF Owed, Raising, Age
    <3>4. SharedInv'
      BY <2>1, <3>2, <3>3 DEF ThrottlesInv, SharedInv, WindowInv
    <3>5. MemoryInv' /\ CameInv'
      BY <2>1, <3>3 DEF ThrottlesInv, MemoryInv, CameInv, WindowInv
    <3> QED
      BY <3>1, <3>4, <3>5 DEF ThrottlesInv
  <2>2. part = "throttles" /\ [PlatformNext]_allVars =>
          \/ Throttles!Next
          \/ UNCHANGED <<shared, memory, connected, alone, ask, came, passed, failed, stuck>>
    BY DEF PlatformNext, Only, allVars
  <2> QED
    BY <2>1, <2>2, ThrottlesNextInv, PartStays
<1> QED
  BY <1>1, <1>2, PTL DEF PlatformSpec

\* A throttle lets through at most twice its limit in a window, each worker
\* that counts for itself the same, and refuses nobody for requests of
\* longer ago unless a failure left the count without a time to live
\* (_incr, _memory_incr and RateLimiter.check in api/app/core/rate_limit.py).
THEOREM ThrottlesStaySound == PlatformSpec => []ThrottleSound
<1>1. ThrottlesInv => Throttles!ThrottleSound
  <2> SUFFICES ASSUME ThrottlesInv PROVE Throttles!ThrottleSound
    OBVIOUS
  <2>1. /\ shared \in Counts /\ memory \in [Conns -> Counts] /\ came \in LastTicks
        /\ passed \in [shared : LastTicks, memory : [Conns -> LastTicks]]
    BY ThrottlesTyped DEF ThrottlesInv
  <2>2. Window \in 1 .. Window /\ MaxRequests \in Nat
    BY ThrottlesAssumed
  <2>3. ASSUME NEW c \in Counts, NEW f \in LastTicks, NEW d \in {0, 1}, WindowInv(c, f, d)
        PROVE  f[Window] <= 2 * MaxRequests
    <3>1. LetThrough(c.count) <= MaxRequests /\ LetThrough(c.count) \in Nat
      BY <2>2 DEF LetThrough, Counts
    <3>2. f[Window] + d <= LetThrough(c.count) + MaxRequests /\ f[Window] \in Nat
      BY <2>2, <2>3 DEF WindowInv, LastTicks
    <3> QED
      BY <2>2, <3>1, <3>2
  <2>4. passed.shared[Window] <= 2 * MaxRequests
    <3>1. Owed \in {0, 1} /\ passed.shared \in LastTicks
      BY <2>1 DEF Owed
    <3> QED
      BY <2>1, <2>3, <3>1 DEF ThrottlesInv, SharedInv
  <2>5. ASSUME NEW w \in Conns PROVE passed.memory[w][Window] <= IF w \in alone THEN 2 * MaxRequests ELSE 0
    <3>1. memory[w] \in Counts /\ passed.memory[w] \in LastTicks
      BY <2>1
    <3>2. passed.memory[w][Window] <= 2 * MaxRequests
      BY <2>3, <3>1 DEF ThrottlesInv, MemoryInv
    <3>3. w \notin alone => passed.memory[w][Window] = 0
      BY <2>2 DEF ThrottlesInv, MemoryInv, Throttles!NoneYet
    <3> QED
      BY <3>2, <3>3
  <2>6. ASSUME ~stuck PROVE shared.count <= came[Window]
    <3>1. IsFiniteSet(Raising)
      <4>1. Raising \subseteq Requests
        BY DEF Raising
      <4> QED
        BY <4>1, FS_Subset, ThrottlesAssumed
    <3>2. Cardinality(Raising) \in Nat /\ shared.count \in Nat /\ came[Window] \in Nat
      BY <2>1, <2>2, <3>1, FS_CardinalityType DEF Counts, LastTicks
    <3>3. Window \in (Age + 1) .. Window
      BY <2>1, ThrottlesAssumed DEF Age, Counts
    <3> QED
      BY <2>6, <3>2, <3>3 DEF ThrottlesInv, CameInv
  <2> QED
    BY <2>4, <2>5, <2>6, <2>1, ThrottlesTyped
       DEF Throttles!ThrottleSound, Throttles!PassedBounded, Throttles!CountsRecent
<1>2. (part = "throttles" => ThrottlesInv) => ThrottleSound
  BY <1>1 DEF ThrottleSound
<1> QED
  BY <1>2, ThrottlesInvariance, PTL

-----------------------------------------------------------------------------
(* The types of every part.  Those that the invariants above leave out are *)
(* kept by each step that keeps the invariant.                             *)

\* A throttle's invariant says its types, as do those of pools and sessions.
LEMMA SomeTyped ==
  PlatformSpec => [](/\ part = "pool" => TenantPool!TypeOK
                     /\ part = "sessions" => Sessions!TypeOK
                     /\ part = "throttles" => Throttles!TypeOK)
<1>1. (part = "sessions" => SessionsInv) => (part = "sessions" => Sessions!TypeOK)
  BY DEF SessionsInv
<1>2. (part = "throttles" => ThrottlesInv) => (part = "throttles" => Throttles!TypeOK)
  BY DEF ThrottlesInv
<1> QED
  BY <1>1, <1>2, PoolTyped, SessionsInvariance, ThrottlesInvariance, PTL

\* Accounts are there whichever part runs.
LEMMA AccountsTyped == PlatformSpec => []TypeOK
<1>1. PlatformInit => Init
  BY DEF PlatformInit
<1>2. [PlatformNext]_allVars => [Next]_vars
  BY DEF PlatformNext, Only, allVars
<1>3. Spec => []TypeOK
  BY PlatformAssumption, TypeCorrect DEF PlatformAssumption
<1> QED
  BY <1>1, <1>2, <1>3, PTL DEF PlatformSpec, Spec

\* The limits have their types.
LEMMA LimitsTyped == PlatformSpec => [](part = "limits" => RateLimits!TypeOK)
<1>1. PlatformInit /\ part = "limits" => LimitsProofs!Init
  BY DEF PlatformInit, RateLimits!Init, LimitsProofs!Init, RateLimits!Idle, LimitsProofs!Idle
<1>2. part = "limits" /\ [PlatformNext]_allVars => [LimitsProofs!Next]_<<count, ttl, lock, login, wrong, opened, stops, orphan>>
  BY LimitsSame DEF PlatformNext, Only, allVars
<1>3. LimitsProofs!Spec => []LimitsProofs!TypeOK
  BY LimitsAssumed, LimitsProofs!TypeCorrect
<1>4. LimitsProofs!TypeOK => RateLimits!TypeOK
  BY DEF RateLimits!TypeOK, LimitsProofs!TypeOK, RateLimits!Steps, LimitsProofs!Steps
<1>5. [PlatformNext]_allVars => (part = "limits" <=> (part = "limits")')
  BY PartStays
<1> QED
  BY <1>1, <1>2, <1>3, <1>4, <1>5, PTL DEF PlatformSpec, LimitsProofs!Spec, LimitsProofs!vars

\* The catalogue has its types.
LEMMA CatalogueTyped == PlatformSpec => [](part = "catalogue" => Catalogue!TypeOK)
<1>1. PlatformInit /\ part = "catalogue" => CatalogueProofs!Init
  BY DEF PlatformInit, Catalogue!Init, CatalogueProofs!Init, Catalogue!Idle, CatalogueProofs!Idle
<1>2. part = "catalogue" /\ [PlatformNext]_allVars =>
        [CatalogueProofs!Next]_<<version, cache, reader, seeder, local, copy, lateSet, missed, between>>
  BY CatalogueSame DEF PlatformNext, Only, allVars
<1>3. CatalogueProofs!Spec => []CatalogueProofs!TypeOK
  BY PlatformAssumption, CatalogueProofs!TypeCorrect
     DEF PlatformAssumption, Catalogue!CatalogueAssumption, CatalogueProofs!CatalogueAssumption
<1>4. CatalogueProofs!TypeOK => Catalogue!TypeOK
  BY DEF Catalogue!TypeOK, CatalogueProofs!TypeOK, Catalogue!Count, CatalogueProofs!Count, Catalogue!Copies,
         CatalogueProofs!Copies, Catalogue!Catalogues, CatalogueProofs!Catalogues
<1>5. [PlatformNext]_allVars => (part = "catalogue" <=> (part = "catalogue")')
  BY PartStays
<1> QED
  BY <1>1, <1>2, <1>3, <1>4, <1>5, PTL DEF PlatformSpec, CatalogueProofs!Spec, CatalogueProofs!vars

\* Of term exams, what MarksInv does not say: the marks typed last, and the
\* histories.
MarksTypes ==
  /\ exam \in BOOLEAN /\ saves \in 0 .. MaxSaves /\ clash \subseteq ClassList /\ stale \subseteq ClassList
  /\ last \in [ClassList -> TermExams!Marks \cup {None}]

\* Every step keeps it.
LEMMA MarksTypesStay == ASSUME MarksInv, MarksTypes, TermExams!Next PROVE MarksTypes'
<1>1. CASE TermExams!DeleteTermExam
  BY <1>1 DEF TermExams!DeleteTermExam, TermExams!NoRows, MarksTypes
<1>2. ASSUME NEW p \in Requests,
             \/ TermExams!OpenPage(p) \/ TermExams!ClosePage(p) \/ TermExams!ReadRow(p) \/ TermExams!Refetch(p)
             \/ \E l \in ClassList : \E m \in Entered[l] : TermExams!Type(p, l, m)
      PROVE  MarksTypes'
  BY <1>2 DEF TermExams!OpenPage, TermExams!ClosePage, TermExams!ReadRow, TermExams!Refetch, TermExams!Type, MarksTypes
<1>3. ASSUME NEW p \in Requests, TermExams!Save(p) PROVE MarksTypes'
  <2>1. saves' = saves + 1 /\ saves < MaxSaves /\ UNCHANGED <<exam, last, clash, stale>>
    BY <1>3 DEF TermExams!Save
  <2>2. MaxSaves \in Nat
    BY PlatformAssumption DEF PlatformAssumption, TermExams!TermExamsAssumption
  <2> QED
    BY <2>1, <2>2 DEF MarksTypes
<1>4. ASSUME NEW p \in Requests, TermExams!Commit(p) PROVE MarksTypes'
  <2>1. save[p].sent \in [ClassList -> TermExams!Marks]
    BY DEF MarksInv
  <2>2. /\ UNCHANGED <<exam, saves>>
        /\ \/ UNCHANGED <<last, clash, stale>>
           \/ /\ last' = [l \in ClassList |-> IF l \in save[p].typed \/ last[l] = None THEN save[p].sent[l] ELSE last[l]]
              /\ clash' = clash \cup {l \in ClassList : save[p].seen[l] # rows[l]}
              /\ stale' = stale \cup {l \in ClassList \ save[p].typed : save[p].got[l] # rows[l]}
    BY <1>4 DEF TermExams!Commit
  <2> QED
    BY <2>1, <2>2 DEF MarksTypes
<1> QED
  BY <1>1, <1>2, <1>3, <1>4 DEF TermExams!Next

\* Term exams have their types.
LEMMA ExamsTyped == PlatformSpec => [](part = "exams" => TermExams!TypeOK)
<1>1. PlatformInit => (part = "exams" => MarksTypes)
  <2> SUFFICES ASSUME PlatformInit, part = "exams" PROVE MarksTypes
    OBVIOUS
  <2>1. TermExams!Init
    BY DEF PlatformInit
  <2>2. MaxSaves \in Nat
    BY PlatformAssumption DEF PlatformAssumption, TermExams!TermExamsAssumption
  <2> QED
    BY <2>1, <2>2 DEF TermExams!Init, MarksTypes
<1>2. (part = "exams" => MarksInv) /\ (part = "exams" => MarksTypes) /\ [PlatformNext]_allVars
        => (part = "exams" => MarksTypes)'
  <2>1. part = "exams" /\ [PlatformNext]_allVars =>
          TermExams!Next \/ UNCHANGED <<exam, rows, page, save, last, clash, stale, saves>>
    BY DEF PlatformNext, Only, allVars
  <2>2. ASSUME MarksTypes, UNCHANGED <<exam, rows, page, save, last, clash, stale, saves>> PROVE MarksTypes'
    BY <2>2 DEF MarksTypes
  <2> QED
    BY <2>1, <2>2, PartStays, MarksTypesStay
<1>3. MarksInv /\ MarksTypes => TermExams!TypeOK
  BY DEF MarksInv, MarksTypes, TermExams!TypeOK
<1> QED
  BY <1>1, <1>2, <1>3, MarksInvariance, PTL DEF PlatformSpec

\* Of toggles, what RoadmapInv does not say: their bound.
LEMMA RoadmapTyped == PlatformSpec => [](part = "roadmap" => Roadmap!TypeOK)
<1> DEFINE Types == toggles \in 0 .. MaxToggles
<1>1. MaxToggles \in Nat /\ Ids # {}
  BY PlatformAssumption DEF PlatformAssumption, Roadmap!RoadmapAssumption
<1>2. PlatformInit => (part = "roadmap" => Types)
  BY <1>1 DEF PlatformInit, Roadmap!Init
<1>3. (part = "roadmap" => Types) /\ [PlatformNext]_allVars => (part = "roadmap" => Types)'
  <2>1. part = "roadmap" /\ [PlatformNext]_allVars =>
          Roadmap!Next \/ UNCHANGED <<votes, voteCount, toggle, overlaps, toggles>>
    BY DEF PlatformNext, Only, allVars
  <2>2. Roadmap!Next => toggles' = toggles \/ (toggles < MaxToggles /\ toggles' = toggles + 1)
    BY DEF Roadmap!Next, Roadmap!ReadVote, Roadmap!Commit, Roadmap!ReadCount
  <2>3. Types /\ (toggles' = toggles \/ (toggles < MaxToggles /\ toggles' = toggles + 1)) => Types'
    BY <1>1
  <2> HIDE DEF Types
  <2> QED
    BY <2>1, <2>2, <2>3, PartStays DEF Types
<1>4. RoadmapInv /\ Types => Roadmap!TypeOK
  <2> SUFFICES ASSUME RoadmapInv, Types PROVE Roadmap!TypeOK
    OBVIOUS
  <2> DEFINE Toggle == [at : {"idle", "vote", "commit"}, user : Ids, count : Int, voted : BOOLEAN, alone : BOOLEAN]
  <2>1. ASSUME NEW r \in Requests PROVE toggle[r] \in Toggle
    <3>1. (CHOOSE u \in Ids : TRUE) \in Ids
      BY <1>1
    <3>2. Roadmap!Idle \in Toggle
      BY <3>1 DEF Roadmap!Idle
    <3>3. toggle[r] = Roadmap!Idle \/ toggle[r] \in RoadmapToggle
      BY DEF RoadmapInv, RoadmapReads
    <3> QED
      BY <3>2, <3>3 DEF RoadmapToggle
  <2>2. toggle \in [Requests -> Toggle]
    <3> HIDE DEF Toggle
    <3> QED
      BY <2>1 DEF RoadmapInv
  <2> QED
    BY <2>2 DEF RoadmapInv, Roadmap!TypeOK
<1> HIDE DEF Types
<1> QED
  BY <1>2, <1>3, <1>4, RoadmapInvariance, PTL DEF PlatformSpec

\* Of the browser's tokens, what ClientInv does not say: the bounds, and the
\* pairs that calls were sent with.
ClientTypes ==
  /\ issued \in 0 .. ClientPairs /\ valid \cup leaving \subseteq 1 .. issued
  /\ \A c \in Requests : {apiCall[c].used, apiCall[c].tok} \subseteq 0 .. ClientPairs
  /\ {out, flying, hit} \subseteq BOOLEAN

\* The bound is a number.
LEMMA ClientAssumed == ClientPairs \in Nat \ {0}
BY PlatformAssumption DEF PlatformAssumption, ApiClient!ApiClientAssumption

\* A call at its next step has the pair it was sent with, or none.
LEMMA AtKeeps ==
  ASSUME ClientInv, ClientTypes, NEW c \in Requests, NEW at
  PROVE  {ApiClient!At(c, at).used, ApiClient!At(c, at).tok} \subseteq 0 .. ClientPairs
<1> DEFINE kept == [apiCall[c] EXCEPT !.at = at]
           ended == [ApiClient!Idle EXCEPT !.at = at]
           anew == [ApiClient!Idle EXCEPT !.at = at, !.opening = apiCall[c].opening]
<1>1. kept.used = apiCall[c].used /\ kept.tok = apiCall[c].tok
  BY DEF ClientInv, ClientTyped, CallRow
<1>2. ended.used = 0 /\ ended.tok = 0 /\ anew.used = 0 /\ anew.tok = 0
  BY DEF ApiClient!Idle
<1>3. ApiClient!At(c, at) \in {kept, ended, anew}
  BY DEF ApiClient!At
<1> HIDE DEF kept, ended, anew
<1> QED
  BY <1>1, <1>2, <1>3, ClientAssumed DEF ClientTypes

\* Every step keeps it.
LEMMA ClientTypesStay == ASSUME ClientInv, ClientTypes, ApiClient!Next PROVE ClientTypes'
<1> USE DEF ApiClient!Mishap
<1>1. /\ apiCall \in [Requests -> CallRow] /\ stored \in 0 .. ClientPairs
      /\ issued \in Nat
  BY ClientAssumed DEF ClientInv, ClientTyped, ClientTypes
<1>2. ASSUME NEW c \in Requests, NEW e, apiCall' = [apiCall EXCEPT ![c] = e],
             {e.used, e.tok} \subseteq 0 .. ClientPairs,
             UNCHANGED <<issued, valid, leaving, out, flying>>, hit' \in BOOLEAN
      PROVE  ClientTypes'
  BY <1>1, <1>2 DEF ClientTypes
<1>3. ASSUME NEW c \in Requests, NEW at, ApiClient!Go(c, at),
             UNCHANGED <<issued, valid, leaving, out, flying>>, hit' \in BOOLEAN
      PROVE  ClientTypes'
  <2>1. apiCall' = [apiCall EXCEPT ![c] = ApiClient!At(c, at)]
    BY <1>3 DEF ApiClient!Go
  <2> QED
    BY <1>2, <1>3, <2>1, AtKeeps
<1>4. ASSUME NEW c \in Requests,
             \/ ApiClient!Answered(c) \/ ApiClient!HydrateFails(c) \/ ApiClient!ServerChecks(c)
             \/ ApiClient!AnswerLost(c) \/ ApiClient!TakeAnswer(c) \/ ApiClient!Retry(c) \/ ApiClient!Clear(c)
      PROVE  ClientTypes'
  <2>1. UNCHANGED <<issued, valid, leaving, out, flying>> /\ hit' \in BOOLEAN
    BY <1>4 DEF ApiClient!Answered, ApiClient!HydrateFails, ApiClient!ServerChecks, ApiClient!AnswerLost,
                ApiClient!TakeAnswer, ApiClient!Retry, ApiClient!Clear, ClientTypes
  <2>2. PICK at : ApiClient!Go(c, at)
    BY <1>4 DEF ApiClient!Answered, ApiClient!HydrateFails, ApiClient!ServerChecks, ApiClient!AnswerLost,
                ApiClient!TakeAnswer, ApiClient!Retry, ApiClient!Clear
  <2> QED
    BY <1>3, <2>1, <2>2
<1>5. ASSUME NEW c \in Requests, NEW opening \in BOOLEAN, ApiClient!Begin(c, opening) PROVE ClientTypes'
  <2> DEFINE e == [ApiClient!Idle EXCEPT !.at = "sent", !.opening = opening, !.used = stored]
  <2>1. apiCall' = [apiCall EXCEPT ![c] = e] /\ UNCHANGED <<issued, valid, leaving, out, flying>> /\ hit' \in BOOLEAN
    BY <1>5 DEF ApiClient!Begin, ClientTypes
  <2>2. e.used = stored /\ e.tok = 0
    BY DEF ApiClient!Idle
  <2> HIDE DEF e
  <2>3. {e.used, e.tok} \subseteq 0 .. ClientPairs
    <3>1. ClientPairs \in Nat
      BY ClientAssumed
    <3>2. 0 \in 0 .. ClientPairs
      BY <3>1
    <3> QED
      BY <1>1, <2>2, <3>2
  <2> QED
    BY <1>2, <2>1, <2>3
<1>6. ASSUME NEW c \in Requests, ApiClient!AskRefresh(c) PROVE ClientTypes'
  <2> DEFINE cleared == ApiClient!At(c, "clear")
             asks == [ApiClient!At(c, "asked") EXCEPT !.used = 0, !.tok = stored]
             e == IF stored = 0 THEN cleared ELSE asks
  <2>1. apiCall' = [apiCall EXCEPT ![c] = e] /\ UNCHANGED <<issued, valid, leaving, out, flying>>
    BY <1>6 DEF ApiClient!AskRefresh, ApiClient!TokenFor
  <2> HIDE DEF e
  <2>2. hit' \in BOOLEAN
    BY <1>6 DEF ApiClient!AskRefresh, ApiClient!InFlight, ClientTypes
  <2>3. {cleared.used, cleared.tok} \subseteq 0 .. ClientPairs
    BY AtKeeps
  <2>4. ApiClient!At(c, "asked") \in CallRow
    BY AtRow DEF ClientInv, ApiClient!Steps
  <2>5. asks.used = 0 /\ asks.tok = stored
    BY <2>4 DEF CallRow
  <2> HIDE DEF cleared, asks
  <2>6. {e.used, e.tok} \subseteq 0 .. ClientPairs
    BY <1>1, <2>3, <2>5, ClientAssumed DEF e
  <2> QED
    BY <1>2, <2>1, <2>2, <2>6
<1>7. ASSUME NEW c \in Requests, ApiClient!ServerRotates(c) PROVE ClientTypes'
  <2>1. /\ apiCall' = [apiCall EXCEPT ![c].at = "answered", ![c].got = issued']
        /\ issued < ClientPairs /\ issued' = issued + 1
        /\ UNCHANGED <<leaving, out, flying>>
    BY <1>7 DEF ApiClient!ServerRotates
  <2>2. hit' \in BOOLEAN
    BY <1>7 DEF ApiClient!ServerRotates, ClientTypes
  <2>3. valid' \subseteq valid \cup {issued'}
    BY <1>7 DEF ApiClient!ServerRotates
  <2>4. \A d \in Requests : apiCall'[d].used = apiCall[d].used /\ apiCall'[d].tok = apiCall[d].tok
    BY <1>1, <2>1 DEF CallRow
  <2>5. issued' \in 0 .. ClientPairs /\ 1 .. issued \subseteq 1 .. issued' /\ issued' \in 1 .. issued'
    BY <1>1, <2>1, ClientAssumed
  <2>6. valid' \cup leaving' \subseteq 1 .. issued'
    BY <2>1, <2>3, <2>5 DEF ClientTypes
  <2> QED
    BY <2>1, <2>2, <2>4, <2>5, <2>6 DEF ClientTypes
<1>8. CASE \/ ApiClient!Logout \/ ApiClient!AccessRunsOut \/ ApiClient!RefreshRunsOut
           \/ \E n \in revoking : ApiClient!RevokeArrives(n)
           \/ \E n \in leaving : ApiClient!LogoutEnds(n)
  <2>1. /\ UNCHANGED <<issued, apiCall>> /\ {out', flying', hit'} \subseteq BOOLEAN /\ valid' \subseteq valid
        /\ leaving' \subseteq leaving \/ (stored # 0 /\ leaving' = leaving \cup {stored})
    BY <1>8 DEF ApiClient!Logout, ApiClient!InFlight, ApiClient!AccessRunsOut, ApiClient!RefreshRunsOut,
                ApiClient!RevokeArrives, ApiClient!LogoutEnds, ClientTypes
  <2>2. stored # 0 => stored \in 1 .. issued
    BY DEF ClientInv, ClientTyped
  <2> QED
    BY <2>1, <2>2 DEF ClientTypes
<1>9. CASE ApiClient!Login
  <2>1. /\ UNCHANGED <<apiCall, leaving>> /\ {out', flying', hit'} \subseteq BOOLEAN
        /\ issued < ClientPairs /\ issued' = issued + 1 /\ valid' = valid \cup {issued'}
    BY <1>9 DEF ApiClient!Login, ClientTypes
  <2>2. issued' \in 0 .. ClientPairs /\ 1 .. issued \subseteq 1 .. issued' /\ issued' \in 1 .. issued'
    BY <1>1, <2>1, ClientAssumed
  <2> QED
    BY <2>1, <2>2 DEF ClientTypes
<1>10. CASE ApiClient!VersionRaised
  <2> DEFINE e(c) == [apiCall[c] EXCEPT !.at = "stale"]
  <2>1. /\ UNCHANGED <<issued, leaving, out, flying>> /\ hit' \in BOOLEAN /\ valid' = {}
        /\ apiCall' = [c \in Requests |-> IF apiCall[c].at = "rotating" THEN e(c) ELSE apiCall[c]]
    BY <1>10 DEF ApiClient!VersionRaised
  <2>2. ASSUME NEW c \in Requests PROVE e(c).used = apiCall[c].used /\ e(c).tok = apiCall[c].tok
    BY <1>1 DEF CallRow
  <2> HIDE DEF e
  <2> QED
    BY <2>1, <2>2 DEF ClientTypes
<1>11. ASSUME NEW cs \in SUBSET Requests, ApiClient!Unload(cs) PROVE ClientTypes'
  <2>1. /\ apiCall' = [c \in Requests |-> IF c \in cs THEN ApiClient!Idle ELSE apiCall[c]]
        /\ {out', flying', hit'} \subseteq BOOLEAN /\ UNCHANGED <<issued, valid>> /\ leaving' \subseteq leaving
    BY <1>11 DEF ApiClient!Unload, ApiClient!InFlight, ClientTypes
  <2>2. ApiClient!Idle.used = 0 /\ ApiClient!Idle.tok = 0
    BY DEF ApiClient!Idle
  <2> QED
    BY <1>1, <2>1, <2>2, ClientAssumed DEF ClientTypes
<1> QED
  BY <1>4, <1>5, <1>6, <1>7, <1>8, <1>9, <1>10, <1>11 DEF ApiClient!Next

\* The browser's tokens have their types.
LEMMA ClientTypesHold == PlatformSpec => [](part = "client" => ApiClient!TypeOK)
<1>1. PlatformInit => (part = "client" => ClientTypes)
  <2> SUFFICES ASSUME PlatformInit, part = "client" PROVE ClientTypes
    OBVIOUS
  <2>1. ApiClient!Init
    BY DEF PlatformInit
  <2>2. /\ issued = 1 /\ valid = {1} /\ leaving = {} /\ apiCall = [c \in Requests |-> ApiClient!Idle]
        /\ out = FALSE /\ flying = FALSE /\ hit = FALSE
    BY <2>1 DEF ApiClient!Init
  <2>3. issued \in 0 .. ClientPairs /\ valid \cup leaving \subseteq 1 .. issued
    BY <2>2, ClientAssumed
  <2>4. \A c \in Requests : {apiCall[c].used, apiCall[c].tok} \subseteq 0 .. ClientPairs
    BY <2>2, ClientAssumed DEF ApiClient!Idle
  <2> QED
    BY <2>2, <2>3, <2>4 DEF ClientTypes
<1>2. (part = "client" => ClientInv) /\ (part = "client" => ClientTypes) /\ [PlatformNext]_allVars
        => (part = "client" => ClientTypes)'
  <2>1. part = "client" /\ [PlatformNext]_allVars =>
          \/ ApiClient!Next
          \/ UNCHANGED <<stored, issued, usable, valid, apiCall, revoking, leaving, out, flying, hit>>
    BY DEF PlatformNext, Only, allVars
  <2>2. ASSUME ClientTypes,
               UNCHANGED <<stored, issued, usable, valid, apiCall, revoking, leaving, out, flying, hit>>
        PROVE  ClientTypes'
    BY <2>2 DEF ClientTypes
  <2> QED
    BY <2>1, <2>2, PartStays, ClientTypesStay
<1>3. ClientInv /\ ClientTypes => ApiClient!TypeOK
  <2> SUFFICES ASSUME ClientInv, ClientTypes PROVE ApiClient!TypeOK
    OBVIOUS
  <2>1. /\ apiCall \in [Requests -> CallRow]
        /\ \A c \in Requests : {apiCall[c].used, apiCall[c].tok, apiCall[c].got} \subseteq 0 .. ClientPairs
    BY ClientAssumed DEF ClientInv, ClientTyped, ClientTypes
  <2>2. apiCall \in [Requests -> [at : ApiClient!Steps, opening : BOOLEAN, used : 0 .. ClientPairs,
                                  tok : 0 .. ClientPairs, got : 0 .. ClientPairs]]
    BY <2>1 DEF CallRow
  <2>3. stored \in 0 .. issued /\ issued \in 0 .. ClientPairs
    BY DEF ClientInv, ClientTyped, ClientTypes
  <2>4. {stored, issued} \subseteq 0 .. ClientPairs
    BY <2>3, ClientAssumed
  <2>5. usable \cup valid \cup revoking \cup leaving \subseteq 1 .. issued
    BY DEF ClientInv, ClientTyped, ClientTypes
  <2> QED
    BY <2>2, <2>4, <2>5 DEF ClientTypes, ApiClient!TypeOK
<1> QED
  BY <1>1, <1>2, <1>3, ClientInvariance, PTL DEF PlatformSpec

\* Of billing, what BillingInv does not say: the bounds.
PaidRow == [sub : 1 .. MaxSubs, status : 1 .. MaxEvents]
BillingTypes ==
  /\ events \in Seq([kind : {"completed", "updated", "deleted"}, sub : 1 .. MaxSubs]) /\ Len(events) <= MaxEvents
  /\ again \in 0 .. MaxAgain /\ overlap \in BOOLEAN /\ subscription \in PaidRow \cup {None}
  /\ \A h \in Requests : hook[h].seen \in PaidRow \cup {None}

\* Its bounds are numbers, and events those of its subscriptions.
LEMMA BillingBounds ==
  ASSUME BillingTypes
  PROVE  /\ {MaxEvents, MaxAgain} \subseteq Nat /\ Len(events) \in Nat /\ DOMAIN events = 1 .. Len(events)
         /\ DOMAIN events \subseteq 1 .. MaxEvents
         /\ \A e \in DOMAIN events : events[e] \in [kind : {"completed", "updated", "deleted"}, sub : 1 .. MaxSubs]
<1> DEFINE Event == [kind : {"completed", "updated", "deleted"}, sub : 1 .. MaxSubs]
<1>1. {MaxEvents, MaxAgain} \subseteq Nat
  BY PlatformAssumption DEF PlatformAssumption, Billing!BillingAssumption
<1>2. events \in Seq(Event) /\ Len(events) <= MaxEvents
  BY DEF BillingTypes
<1> HIDE DEF Event
<1>3. Len(events) \in Nat /\ DOMAIN events = 1 .. Len(events) /\ \A e \in DOMAIN events : events[e] \in Event
  BY <1>2
<1>4. DOMAIN events \subseteq 1 .. MaxEvents
  BY <1>1, <1>2, <1>3
<1> QED
  BY <1>1, <1>3, <1>4 DEF Event

\* Every step keeps them.
LEMMA BillingTypesStay == ASSUME BillingInv, BillingTypes, Billing!Next PROVE BillingTypes'
<1>1. Billing!Idle.seen = None /\ hook = [h \in Requests |-> hook[h]]
  BY DEF Billing!Idle, BillingInv
<1>2. ASSUME NEW kind \in {"completed", "updated", "deleted"}, NEW s \in 1 .. MaxSubs, Billing!Happens(kind, s)
      PROVE  BillingTypes'
  <2> DEFINE Event == [kind : {"completed", "updated", "deleted"}, sub : 1 .. MaxSubs]
             new == [kind |-> kind, sub |-> s]
  <2>1. Len(events) < MaxEvents /\ events' = Append(events, new) /\ UNCHANGED <<subscription, hook, again, overlap>>
    BY <1>2 DEF Billing!Happens
  <2>2. new \in Event /\ events \in Seq(Event)
    BY DEF BillingTypes
  <2> HIDE DEF new, Event
  <2>3. events' \in Seq(Event) /\ Len(events') = Len(events) + 1 /\ Len(events) \in Nat
    BY <2>1, <2>2
  <2>4. Len(events') <= MaxEvents
    BY <2>1, <2>3, BillingBounds
  <2> QED
    BY <2>1, <2>3, <2>4 DEF BillingTypes, Event
<1>3. CASE Billing!Checkout \/ Billing!Update \/ Billing!Delete
  <2>1. \A s \in Billing!Subs : s \in 1 .. MaxSubs
    BY BillingBounds DEF Billing!Subs
  <2> QED
    BY <1>2, <1>3, <2>1 DEF Billing!Checkout, Billing!Update, Billing!Delete
<1>4. ASSUME NEW h \in Requests, NEW e \in DOMAIN events, Billing!Receive(h, e) PROVE BillingTypes'
  <2> DEFINE found == IF Billing!Finds(e) THEN subscription ELSE None
             at == IF events[e].kind = "completed" THEN "retrieve" ELSE IF Billing!Finds(e) THEN "commit" ELSE "done"
             entry == [at |-> at, event |-> e, seen |-> found, status |-> e]
  <2>1. /\ hook' = [hook EXCEPT ![h] = entry] /\ overlap' \in BOOLEAN /\ UNCHANGED <<events, subscription>>
        /\ again' = again \/ (again < MaxAgain /\ again' = again + 1)
    BY <1>4 DEF Billing!Receive
  <2>2. entry.seen \in PaidRow \cup {None}
    BY DEF BillingTypes
  <2>3. again' \in 0 .. MaxAgain
    BY <2>1, BillingBounds DEF BillingTypes
  <2> HIDE DEF entry
  <2> QED
    BY <1>1, <2>1, <2>2, <2>3 DEF BillingTypes
<1>5. ASSUME NEW h \in Requests, Billing!Answer(h) \/ Billing!Stop(h) PROVE BillingTypes'
  <2>1. hook' = [hook EXCEPT ![h] = Billing!Idle] /\ UNCHANGED <<events, subscription, again, overlap>>
    BY <1>5 DEF Billing!Answer, Billing!Stop
  <2> QED
    BY <1>1, <2>1 DEF BillingTypes
<1>6. ASSUME NEW h \in Requests, Billing!Retrieve(h) \/ Billing!Commit(h)
      PROVE  /\ hook[h] = [at |-> hook[h].at, event |-> hook[h].event, seen |-> hook[h].seen, status |-> hook[h].status]
             /\ hook[h].event \in DOMAIN events /\ hook[h].status \in DOMAIN events
             /\ hook[h].at = "commit" /\ events[hook[h].event].kind # "completed" => subscription # None
  <2>1. hook[h].at # "idle"
    BY <1>6 DEF Billing!Retrieve, Billing!Commit
  <2>2. hook[h] # Billing!Idle
    BY <2>1 DEF Billing!Idle
  <2> QED
    BY <2>2 DEF BillingInv, BillingHook
<1>7. ASSUME NEW h \in Requests, Billing!Retrieve(h) PROVE BillingTypes'
  <2>1. /\ UNCHANGED <<events, subscription, again, overlap>>
        /\ \E n : hook' = [hook EXCEPT ![h].at = "commit", ![h].status = n]
    BY <1>7 DEF Billing!Retrieve
  <2>2. \A g \in Requests : hook'[g].seen = hook[g].seen
    BY <1>1, <1>6, <1>7, <2>1
  <2> QED
    BY <2>1, <2>2 DEF BillingTypes
<1>8. ASSUME NEW h \in Requests, Billing!Commit(h) PROVE BillingTypes'
  <2>1. \/ hook' = [hook EXCEPT ![h] = Billing!Idle] /\ UNCHANGED subscription
        \/ /\ subscription' = [sub |-> Billing!SubOf(hook[h]), status |-> hook[h].status]
           /\ hook' = [hook EXCEPT ![h].at = "done"]
    BY <1>8 DEF Billing!Commit
  <2>2. UNCHANGED <<events, again, overlap>> /\ hook[h].at = "commit"
    BY <1>8 DEF Billing!Commit
  <2>3. Billing!SubOf(hook[h]) \in 1 .. MaxSubs /\ hook[h].status \in 1 .. MaxEvents
    BY <1>6, <1>8, <2>2, BillingBounds DEF Billing!SubOf, BillingTypes, PaidRow
  <2>4. [sub |-> Billing!SubOf(hook[h]), status |-> hook[h].status] \in PaidRow
    BY <2>3 DEF PaidRow
  <2>5. \A g \in Requests : hook'[g].seen \in {hook[g].seen, None}
    BY <1>1, <1>6, <1>8, <2>1
  <2> QED
    BY <2>1, <2>2, <2>4, <2>5 DEF BillingTypes
<1> QED
  BY <1>3, <1>4, <1>5, <1>7, <1>8 DEF Billing!Next

\* Billing has its types.
LEMMA BillingTypesHold == PlatformSpec => [](part = "billing" => Billing!TypeOK)
<1>1. PlatformInit => (part = "billing" => BillingTypes)
  <2> SUFFICES ASSUME PlatformInit, part = "billing" PROVE BillingTypes
    OBVIOUS
  <2>1. Billing!Init
    BY DEF PlatformInit
  <2>2. {MaxEvents, MaxAgain} \subseteq Nat
    BY PlatformAssumption DEF PlatformAssumption, Billing!BillingAssumption
  <2>3. \A h \in Requests : hook[h].seen = None
    BY <2>1 DEF Billing!Init, Billing!Idle
  <2>4. events = <<>> /\ again = 0 /\ overlap = FALSE /\ subscription = None
    BY <2>1 DEF Billing!Init
  <2>5. events \in Seq([kind : {"completed", "updated", "deleted"}, sub : 1 .. MaxSubs]) /\ Len(events) = 0
    BY <2>4
  <2>6. MaxEvents \in Nat /\ MaxAgain \in Nat
    BY <2>2
  <2>7. Len(events) <= MaxEvents /\ again \in 0 .. MaxAgain
    BY <2>4, <2>5, <2>6
  <2>8. overlap \in BOOLEAN /\ subscription \in PaidRow \cup {None}
    BY <2>4
  <2>9. \A h \in Requests : hook[h].seen \in PaidRow \cup {None}
    BY <2>3
  <2> QED
    BY <2>5, <2>7, <2>8, <2>9 DEF BillingTypes
<1>2. (part = "billing" => BillingInv) /\ (part = "billing" => BillingTypes) /\ [PlatformNext]_allVars
        => (part = "billing" => BillingTypes)'
  <2>1. part = "billing" /\ [PlatformNext]_allVars =>
          Billing!Next \/ UNCHANGED <<events, subscription, hook, answered, again, overlap>>
    BY DEF PlatformNext, Only, allVars
  <2>2. ASSUME BillingTypes, UNCHANGED <<events, subscription, hook, answered, again, overlap>> PROVE BillingTypes'
    BY <2>2 DEF BillingTypes
  <2> QED
    BY <2>1, <2>2, PartStays, BillingTypesStay
<1>3. BillingInv /\ BillingTypes => Billing!TypeOK
  <2> SUFFICES ASSUME BillingInv, BillingTypes PROVE Billing!TypeOK
    OBVIOUS
  <2> DEFINE Hook == [at : {"idle", "retrieve", "commit", "done"}, event : 0 .. MaxEvents,
                      seen : {None} \cup PaidRow, status : 0 .. MaxEvents]
  <2>1. ASSUME NEW h \in Requests PROVE hook[h] \in Hook
    <3>1. CASE hook[h] = Billing!Idle
      BY <3>1, BillingBounds DEF Billing!Idle
    <3>2. CASE hook[h] # Billing!Idle
      <4>1. /\ hook[h].at \in {"retrieve", "commit", "done"} /\ hook[h].event \in DOMAIN events
            /\ hook[h] = [at |-> hook[h].at, event |-> hook[h].event, seen |-> hook[h].seen, status |-> hook[h].status]
            /\ hook[h].status \in DOMAIN events
        BY <3>2 DEF BillingInv, BillingHook
      <4>2. hook[h].event \in 0 .. MaxEvents /\ hook[h].status \in 0 .. MaxEvents
        BY <4>1, BillingBounds
      <4>3. hook[h].seen \in {None} \cup PaidRow
        BY DEF BillingTypes
      <4> QED
        BY <4>1, <4>2, <4>3
    <3> QED
      BY <3>1, <3>2
  <2>2. hook \in [Requests -> Hook]
    <3> HIDE DEF Hook
    <3> QED
      BY <2>1 DEF BillingInv
  <2> QED
    BY <2>2 DEF BillingInv, BillingTypes, PaidRow, Billing!TypeOK
<1> QED
  BY <1>1, <1>2, <1>3, BillingInvariance, PTL DEF PlatformSpec

\* Of the reports, the rows; the marks of all items are a number.
LEMMA ReportsTyped == PlatformSpec => [](part = "reports" => Reports!TypeOK)
<1>1. ASSUME ReportsRows PROVE Reports!TypeOK
  <2>1. max \in [Exams -> 1 .. Base]
    BY <1>1 DEF ReportsRows
  <2>2. \A l \in Reports!Everyone, e \in Exams : marks[l][e] # None => marks[l][e] \in Nat
    BY <1>1 DEF ReportsRows
  <2> DEFINE f == [i \in DOMAIN items |-> Reports!MaxLevel(i)]
  <2>3. DOMAIN f = DOMAIN items /\ \A i \in DOMAIN f : f[i] \in Nat
    BY <1>1 DEF ReportsRows, Reports!MaxLevel
  <2>4. IsFiniteSet(DOMAIN items)
    BY <1>1, ReportsAssumed, FS_Subset DEF ReportsRows
  <2>5. Reports!TotalMarks = Reports!Sum(f)
    BY DEF Reports!TotalMarks, Reports!MaxOf
  <2> HIDE DEF f
  <2>6. Reports!Sum(f) \in Nat
    BY <2>3, <2>4, SumCounts
  <2> QED
    BY <1>1, <2>1, <2>2, <2>5, <2>6 DEF ReportsRows, Reports!TypeOK
<1>2. (part = "reports" => ReportsRows) => (part = "reports" => Reports!TypeOK)
  BY <1>1
<1> QED
  BY <1>2, RowsInvariance, PTL

\* Of records, what SchoolInv does not say: the histories, and that a stray
\* is there.
RecordsTypes ==
  /\ moved \subseteq Users /\ demoted \in BOOLEAN /\ changes \in 0 .. RecordChanges
  /\ strays \subseteq DOMAIN learners \cup DOMAIN works

\* Steps that keep all of it.
LEMMA RecordsKept ==
  ASSUME RecordsTypes, UNCHANGED <<learners, works, strays, moved, demoted, changes>>
  PROVE  RecordsTypes'
BY DEF RecordsTypes

\* Steps that put a row x in, which may become a stray.
LEMMA RowsPut ==
  ASSUME RecordsTypes, UNCHANGED <<moved, demoted, changes>>, NEW x,
         DOMAIN learners \subseteq DOMAIN learners', DOMAIN works \subseteq DOMAIN works',
         x \in DOMAIN learners' \cup DOMAIN works', strays' \in {strays, strays \cup {x}, strays \ {x}}
  PROVE  RecordsTypes'
BY DEF RecordsTypes

\* What a teacher does to records.
LEMMA TeachersTypes ==
  ASSUME RecordsTypes, NEW u \in Users, Records!TeacherActs(u), ~\E s \in Schools : Records!ChangeSchool(u, s)
  PROVE  RecordsTypes'
<1>1. ASSUME NEW l \in Learners, NEW c \in Classes, Records!AddLearner(u, l, c) PROVE RecordsTypes'
  <2>1. /\ DOMAIN learners' = DOMAIN learners \cup {l} /\ UNCHANGED <<works, moved, demoted, changes>>
        /\ strays' \in {strays, strays \cup {l}, strays \ {l}}
    BY <1>1 DEF Records!AddLearner, Records!PutLearner, Records!With, Records!Stray, Records!RecordsOnly
  <2> QED
    BY <2>1, RowsPut
<1>2. ASSUME NEW w \in Works, NEW c \in Classes,
             Records!StartRun(u, w, c) \/ \E s \in Schools : Records!CreateTermExam(u, w, c, s)
      PROVE  RecordsTypes'
  <2>1. /\ DOMAIN works' = DOMAIN works \cup {w} /\ UNCHANGED <<learners, moved, demoted, changes>>
        /\ strays' \in {strays, strays \cup {w}, strays \ {w}}
    BY <1>2 DEF Records!StartRun, Records!CreateTermExam, Records!With, Records!Stray, Records!RecordsOnly
  <2> QED
    BY <2>1, RowsPut
<1>3. ASSUME NEW c \in Classes, Records!CreateClass(u, c) PROVE RecordsTypes'
  BY <1>3, RecordsKept DEF Records!CreateClass, Records!RecordsOnly
<1>4. ASSUME NEW l \in Learners, Records!DeleteLearner(u, l) PROVE RecordsTypes'
  BY <1>4 DEF Records!DeleteLearner, Records!RecordsOnly, RecordsTypes
<1>5. ASSUME NEW w \in Works, Records!CloseRun(u, w) PROVE RecordsTypes'
  BY <1>5 DEF Records!CloseRun, Records!RecordsOnly, RecordsTypes
<1>6. ASSUME NEW w \in Works, Records!DeleteTermExam(u, w) PROVE RecordsTypes'
  BY <1>6 DEF Records!DeleteTermExam, Records!RecordsOnly, RecordsTypes
<1> QED
  BY <1>1, <1>2, <1>3, <1>4, <1>5, <1>6 DEF Records!TeacherActs

\* What school admins and super admins do to learners of a class.
LEMMA AdminsTypes ==
  ASSUME RecordsTypes, NEW u \in Users, NEW l \in Learners, NEW c \in Classes,
         \/ Records!AdminCreateLearner(u, l, c) \/ Records!AdminUpdateLearner(u, l, c)
         \/ \E s \in Schools : Records!SuperCreateLearner(u, l, c, s) \/ Records!SuperUpdateLearner(u, l, c, s)
  PROVE  RecordsTypes'
<1>1. CASE Records!AdminCreateLearner(u, l, c) \/ \E s \in Schools : Records!SuperCreateLearner(u, l, c, s)
  <2>1. DOMAIN learners' = DOMAIN learners \cup {l} /\ UNCHANGED <<works, strays, moved, demoted, changes>>
    BY <1>1 DEF Records!AdminCreateLearner, Records!SuperCreateLearner, Records!PutLearner, Records!With, Records!RecordsOnly
  <2> QED
    BY <2>1, RowsPut
<1>2. CASE Records!AdminUpdateLearner(u, l, c) \/ \E s \in Schools : Records!SuperUpdateLearner(u, l, c, s)
  <2>1. /\ DOMAIN learners' = DOMAIN learners /\ l \in DOMAIN learners /\ UNCHANGED <<works, moved, demoted, changes>>
        /\ strays' \in {strays, strays \cup {l}, strays \ {l}}
    BY <1>2 DEF Records!AdminUpdateLearner, Records!SuperUpdateLearner, Records!PatchLearner, Records!Stray, Records!RecordsOnly
  <2> QED
    BY <2>1, RowsPut
<1> QED
  BY <1>1, <1>2

\* Changes of users' rows are counted.
LEMMA ChangesTypes ==
  ASSUME RecordsTypes, NEW u \in Users, NEW entry, Records!Change(u, entry), demoted' \in BOOLEAN
  PROVE  RecordsTypes'
<1>1. /\ changes < RecordChanges /\ changes' = changes + 1 /\ moved' \subseteq moved \cup {u}
      /\ UNCHANGED <<learners, works, strays>>
  BY DEF Records!Change, Records!UsersOnly
<1>2. RecordChanges \in Nat
  BY PlatformAssumption DEF PlatformAssumption, Records!SchoolRecordsAssumption
<1>3. changes' \in 0 .. RecordChanges
  BY <1>1, <1>2 DEF RecordsTypes
<1> QED
  BY <1>1, <1>3 DEF RecordsTypes

\* Every step keeps it.
LEMMA RecordsTypesStay == ASSUME RecordsTypes, Records!Next PROVE RecordsTypes'
<1>1. PICK u \in Users :
        \/ Records!Arrive(u) \/ \E s \in Schools : Records!Signup(u, s)
        \/ seen[u] # None /\ (Records!TeacherActs(u) \/ Records!AdminActs(u) \/ Records!SuperActs(u))
  BY DEF Records!Next
<1>2. CASE Records!Arrive(u) \/ \E s \in Schools : Records!Signup(u, s)
  BY <1>2, RecordsKept DEF Records!Arrive, Records!Signup, Records!NewUser, Records!UsersOnly
<1>3. CASE Records!TeacherActs(u)
  <2>1. ASSUME NEW s \in Schools, Records!ChangeSchool(u, s) PROVE RecordsTypes'
    BY <2>1, ChangesTypes DEF Records!ChangeSchool, RecordsTypes
  <2> QED
    BY <1>3, <2>1, TeachersTypes
<1>4. CASE Records!AdminActs(u)
  <2>1. ASSUME NEW v \in Users, Records!AdminCreateTeacher(u, v) PROVE RecordsTypes'
    BY <2>1, RecordsKept DEF Records!AdminCreateTeacher, Records!NewUser, Records!UsersOnly
  <2>2. ASSUME NEW v \in Users, NEW b \in BOOLEAN, Records!AdminSetActive(u, v, b) PROVE RecordsTypes'
    BY <2>2, ChangesTypes DEF Records!AdminSetActive, RecordsTypes
  <2>3. ASSUME NEW c \in Classes, NEW l \in Learners, Records!AdminCreateLearner(u, l, c) \/ Records!AdminUpdateLearner(u, l, c)
        PROVE  RecordsTypes'
    BY <2>3, AdminsTypes
  <2>4. ASSUME NEW c \in Classes,
               \/ Records!AdminDeleteClass(u, c)
               \/ \E t \in Users : Records!AdminCreateClass(u, c, t) \/ Records!AdminUpdateClass(u, c, t)
        PROVE  RecordsTypes'
    BY <2>4, RecordsKept DEF Records!AdminDeleteClass, Records!AdminCreateClass, Records!AdminUpdateClass, Records!RecordsOnly
  <2> QED
    BY <1>4, <2>1, <2>2, <2>3, <2>4 DEF Records!AdminActs
<1>5. CASE Records!SuperActs(u)
  <2>1. ASSUME NEW v \in Users, Records!SuperDeactivate(u, v) PROVE RecordsTypes'
    BY <2>1, ChangesTypes DEF Records!SuperDeactivate, RecordsTypes
  <2>2. ASSUME NEW v \in Users, NEW entry \in Records!Updates(users[v]), Records!SuperUpdateUser(u, v, entry)
        PROVE  RecordsTypes'
    BY <2>2, ChangesTypes DEF Records!SuperUpdateUser, RecordsTypes
  <2>3. ASSUME NEW v \in Users, NEW s \in Schools, NEW role \in Records!Roles, Records!SuperCreateUser(u, v, s, role)
        PROVE  RecordsTypes'
    BY <2>3, RecordsKept DEF Records!SuperCreateUser, Records!NewUser, Records!UsersOnly
  <2>4. ASSUME NEW l \in Learners, Records!SuperDeleteLearner(u, l) PROVE RecordsTypes'
    BY <2>4 DEF Records!SuperDeleteLearner, Records!RecordsOnly, RecordsTypes
  <2>5. ASSUME NEW l \in Learners, NEW c \in Classes, NEW s \in Schools,
               Records!SuperCreateLearner(u, l, c, s) \/ Records!SuperUpdateLearner(u, l, c, s)
        PROVE  RecordsTypes'
    BY <2>5, AdminsTypes
  <2> QED
    BY <1>5, <2>1, <2>2, <2>3, <2>4, <2>5 DEF Records!SuperActs
<1> QED
  BY <1>1, <1>2, <1>3, <1>4, <1>5

\* Records have their types.
LEMMA RecordsTyped == PlatformSpec => [](part = "records" => Records!TypeOK)
<1>1. PlatformInit => (part = "records" => RecordsTypes)
  <2> SUFFICES ASSUME PlatformInit, part = "records" PROVE RecordsTypes
    OBVIOUS
  <2>1. Records!Init
    BY DEF PlatformInit
  <2>2. RecordChanges \in Nat
    BY PlatformAssumption DEF PlatformAssumption, Records!SchoolRecordsAssumption
  <2>3. changes = 0 /\ strays = {} /\ moved = {} /\ demoted = FALSE
    BY <2>1 DEF Records!Init
  <2>4. changes \in 0 .. RecordChanges
    BY <2>2, <2>3
  <2> QED
    BY <2>3, <2>4 DEF RecordsTypes
<1>2. (part = "records" => RecordsTypes) /\ [PlatformNext]_allVars => (part = "records" => RecordsTypes)'
  <2>1. part = "records" /\ [PlatformNext]_allVars =>
          Records!Next \/ UNCHANGED <<learners, works, strays, moved, demoted, changes>>
    BY DEF PlatformNext, Only, allVars
  <2> QED
    BY <2>1, PartStays, RecordsKept, RecordsTypesStay
<1>3. SchoolInv /\ RecordsTypes => Records!TypeOK
  BY DEF SchoolInv, UsersInv, RecordsInv, RecordsTypes, Records!TypeOK
<1> QED
  BY <1>1, <1>2, <1>3, SchoolInvariance, PTL DEF PlatformSpec

\* Of people, what PeopleInv does not say: there are no records, and the
\* histories.
PeopleTypes ==
  /\ classes = <<>> /\ learners = <<>> /\ works = <<>> /\ strays = {}
  /\ moved \subseteq Users /\ demoted \in BOOLEAN /\ changes \in 0 .. PeopleChanges

\* Changes of users' rows are counted.
LEMMA PeopleChangesTypes ==
  ASSUME PeopleTypes, NEW u \in Users, NEW entry, People!Change(u, entry), demoted' \in BOOLEAN
  PROVE  PeopleTypes'
<1>1. /\ changes < PeopleChanges /\ changes' = changes + 1 /\ moved' \subseteq moved \cup {u}
      /\ UNCHANGED <<classes, learners, works, strays>>
  BY DEF People!Change, People!UsersOnly
<1>2. PeopleChanges \in Nat
  BY PlatformAssumption DEF PlatformAssumption, People!SchoolRecordsAssumption
<1>3. changes' \in 0 .. PeopleChanges
  BY <1>1, <1>2 DEF PeopleTypes
<1> QED
  BY <1>1, <1>3 DEF PeopleTypes

\* Every step keeps it.
LEMMA PeopleTypesStay == ASSUME PeopleTypes, People!Next PROVE PeopleTypes'
<1>1. PICK u \in Users :
        \/ People!Arrive(u) \/ \E s \in Schools : People!Signup(u, s)
        \/ seen[u] # None /\ (People!TeacherActs(u) \/ People!AdminActs(u) \/ People!SuperActs(u))
  BY DEF People!Next
<1>2. CASE People!Arrive(u) \/ \E s \in Schools : People!Signup(u, s)
  BY <1>2 DEF People!Arrive, People!Signup, People!NewUser, People!UsersOnly, PeopleTypes
<1>3. CASE People!TeacherActs(u)
  BY <1>3, PeopleChangesTypes DEF People!TeacherActs, People!ChangeSchool, PeopleTypes
<1>4. CASE People!AdminActs(u)
  <2>1. ASSUME NEW v \in Users, People!AdminCreateTeacher(u, v) PROVE PeopleTypes'
    BY <2>1 DEF People!AdminCreateTeacher, People!NewUser, People!UsersOnly, PeopleTypes
  <2>2. ASSUME NEW v \in Users, NEW b \in BOOLEAN, People!AdminSetActive(u, v, b) PROVE PeopleTypes'
    BY <2>2, PeopleChangesTypes DEF People!AdminSetActive, PeopleTypes
  <2> QED
    BY <1>4, <2>1, <2>2 DEF People!AdminActs
<1>5. CASE People!SuperActs(u)
  <2>1. ASSUME NEW v \in Users, People!SuperDeactivate(u, v) PROVE PeopleTypes'
    BY <2>1, PeopleChangesTypes DEF People!SuperDeactivate, PeopleTypes
  <2>2. ASSUME NEW v \in Users, NEW entry \in People!Updates(users[v]), People!SuperUpdateUser(u, v, entry)
        PROVE  PeopleTypes'
    BY <2>2, PeopleChangesTypes DEF People!SuperUpdateUser, PeopleTypes
  <2>3. ASSUME NEW v \in Users, NEW s \in Schools, NEW role \in People!Roles, People!SuperCreateUser(u, v, s, role)
        PROVE  PeopleTypes'
    BY <2>3 DEF People!SuperCreateUser, People!NewUser, People!UsersOnly, PeopleTypes
  <2> QED
    BY <1>5, <2>1, <2>2, <2>3 DEF People!SuperActs
<1> QED
  BY <1>1, <1>2, <1>3, <1>4, <1>5

\* People have their types.
LEMMA PeopleTyped == PlatformSpec => [](part = "people" => People!TypeOK)
<1>1. PlatformInit => (part = "people" => PeopleTypes)
  <2> SUFFICES ASSUME PlatformInit, part = "people" PROVE PeopleTypes
    OBVIOUS
  <2>1. People!Init
    BY DEF PlatformInit
  <2>2. PeopleChanges \in Nat
    BY PlatformAssumption DEF PlatformAssumption, People!SchoolRecordsAssumption
  <2>3. changes = 0 /\ classes = <<>> /\ learners = <<>> /\ works = <<>> /\ strays = {} /\ moved = {} /\ demoted = FALSE
    BY <2>1 DEF People!Init
  <2>4. changes \in 0 .. PeopleChanges
    BY <2>2, <2>3
  <2> QED
    BY <2>3, <2>4 DEF PeopleTypes
<1>2. (part = "people" => PeopleTypes) /\ [PlatformNext]_allVars => (part = "people" => PeopleTypes)'
  <2>1. part = "people" /\ [PlatformNext]_allVars =>
          People!Next \/ UNCHANGED <<classes, learners, works, strays, moved, demoted, changes>>
    BY DEF PlatformNext, Only, allVars
  <2>2. ASSUME PeopleTypes, UNCHANGED <<classes, learners, works, strays, moved, demoted, changes>> PROVE PeopleTypes'
    BY <2>2 DEF PeopleTypes
  <2> QED
    BY <2>1, <2>2, PartStays, PeopleTypesStay
<1>3. PeopleInv /\ PeopleTypes => People!TypeOK
  BY DEF PeopleInv, PeopleTypes, People!TypeOK
<1> QED
  BY <1>1, <1>2, <1>3, PeopleInvariance, PTL DEF PlatformSpec

\* Of schemes of work, what SchemeInv does not say: the entries of the bank
\* and the cells.
SchemeTypes ==
  /\ DOMAIN bank \subseteq Contents
  /\ \A c \in DOMAIN bank : bank[c] \in SchemesOfWork!Entry /\ bank[c].order = c
  /\ \A c \in DOMAIN cells : cells[c] \in SchemesOfWork!Cell
  /\ \A c \in DOMAIN draft : draft[c] \in SchemesOfWork!Cell
  /\ making \in {"new", "read", "write", "done", "failed"} /\ writes \in 0 .. MaxWrites

\* What is assumed of contents and the bound.
LEMMA SchemesAssumed == IsFiniteSet(Contents) /\ Contents \subseteq Nat /\ MaxWrites \in Nat
BY PlatformAssumption DEF PlatformAssumption, SchemesOfWork!SchemesAssumption, SchemesOfWork!IsFiniteSet, IsFiniteSet

\* In a finite set of numbers, each place is taken.
LEMMA PlacesTaken ==
  ASSUME NEW S, IsFiniteSet(S), S \subseteq Nat, NEW k \in Nat, k < Cardinality(S)
  PROVE  \E c \in S : Cardinality({d \in S : d < c}) = k
<1> DEFINE below(c) == {d \in S : d < c}
           n == Cardinality(S)
           place == [c \in S |-> Cardinality(below(c))]
<1>1. n \in Nat /\ \A c \in S : IsFiniteSet(below(c)) /\ Cardinality(below(c)) \in Nat
  BY FS_Subset, FS_CardinalityType
<1>2. ASSUME NEW c \in S, NEW d \in S, c < d PROVE Cardinality(below(c)) < Cardinality(below(d))
  <2>1. c \notin below(c) /\ below(c) \cup {c} \subseteq below(d)
    <3>1. \A e \in S : e < c => e < d
      BY <1>2
    <3>2. ~(c < c)
      OBVIOUS
    <3> QED
      BY <1>2, <3>1, <3>2
  <2> HIDE DEF below
  <2>2. Cardinality(below(c) \cup {c}) = Cardinality(below(c)) + 1
    BY <1>1, <2>1, FS_AddElement
  <2>3. Cardinality(below(c) \cup {c}) <= Cardinality(below(d))
    BY <1>1, <2>1, FS_Subset
  <2> QED
    BY <1>1, <2>2, <2>3
<1>3. \A c \in S : Cardinality(below(c)) \in 0 .. n - 1
  <2> SUFFICES ASSUME NEW c \in S PROVE Cardinality(below(c)) \in 0 .. n - 1
    OBVIOUS
  <2>1. below(c) \subseteq S \ {c}
    OBVIOUS
  <2>2. IsFiniteSet(S \ {c}) /\ Cardinality(S \ {c}) = n - 1
    BY FS_RemoveElement
  <2> HIDE DEF below, n
  <2>3. Cardinality(below(c)) <= n - 1
    BY <2>1, <2>2, FS_Subset
  <2> QED
    BY <1>1, <2>3
<1> HIDE DEF below
<1>4. \A c, d \in S : Cardinality(below(c)) = Cardinality(below(d)) => c = d
  <2> SUFFICES ASSUME NEW c \in S, NEW d \in S, Cardinality(below(c)) = Cardinality(below(d)), c # d PROVE FALSE
    OBVIOUS
  <2>1. c < d \/ d < c
    OBVIOUS
  <2> QED
    BY <1>1, <1>2, <2>1
<1>5. place \in Injection(S, 0 .. n - 1)
  <2>1. place \in [S -> 0 .. n - 1]
    BY <1>3
  <2>2. \A c, d \in S : place[c] = place[d] => c = d
    BY <1>4
  <2> HIDE DEF place, n
  <2> QED
    BY <2>1, <2>2 DEF Injection, IsInjective
<1>6. IsFiniteSet(0 .. n - 1) /\ Cardinality(0 .. n - 1) = n
  <2> HIDE DEF n
  <2> QED
    BY <1>1, FS_Interval
<1>7. place \in Surjection(S, 0 .. n - 1)
  <2> HIDE DEF place
  <2> QED
    BY <1>5, <1>6, FS_Injection
<1>8. k \in 0 .. n - 1
  BY <1>1
<1>9. PICK c \in S : place[c] = k
  BY <1>7, <1>8 DEF Surjection
<1> QED
  BY <1>9 DEF below

\* A block is an entry of the scheme's sub-strand and term.
LEMMA BlocksAreEntries ==
  ASSUME SchemeTypes, NEW i \in 1 .. Len(SchemesOfWork!Blocks)
  PROVE  SchemesOfWork!Blocks[i] \in DOMAIN bank
<1> DEFINE here == {c \in DOMAIN bank : bank[c].here}
           n == SchemesOfWork!Cardinality(here)
           at(c) == SchemesOfWork!Cardinality({d \in here : bank[d].order < bank[c].order})
<1>1. here \subseteq Nat /\ IsFiniteSet(here)
  BY SchemesAssumed, FS_Subset DEF SchemeTypes
<1>2. n = Cardinality(here) /\ n \in Nat
  <2> HIDE DEF here
  <2> QED
    BY <1>1, FS_CardinalityType DEF SchemesOfWork!Cardinality, Cardinality
<1>3. \A c \in here : {d \in here : bank[d].order < bank[c].order} = {d \in here : d < c}
  BY DEF SchemeTypes
<1>4. \A c \in here : at(c) = Cardinality({d \in here : d < c})
  BY <1>3 DEF SchemesOfWork!Cardinality, Cardinality
<1>5. SchemesOfWork!Blocks = [j \in 1 .. n |-> CHOOSE c \in here : at(c) = j - 1]
  BY DEF SchemesOfWork!Blocks
<1> HIDE DEF here, n, at
<1>6. Len(SchemesOfWork!Blocks) = n
  BY <1>2, <1>5
<1>7. i - 1 \in Nat /\ i - 1 < Cardinality(here) /\ i \in 1 .. n
  BY <1>2, <1>6
<1>8. \E c \in here : at(c) = i - 1
  <2>1. \E c \in here : Cardinality({d \in here : d < c}) = i - 1
    BY <1>1, <1>7, PlacesTaken
  <2> QED
    BY <1>4, <2>1
<1>9. SchemesOfWork!Blocks[i] \in here
  BY <1>5, <1>7, <1>8
<1> QED
  BY <1>9 DEF here

\* A schedule names entries, and 0 for a break.
LEMMA ScheduleNames ==
  ASSUME SchemeInv, SchemeTypes, SchemesOfWork!Blocks # <<>>
  PROVE  LET plan == SchemesOfWork!Schedule(scheme, SchemesOfWork!Blocks)
         IN  \A c \in DOMAIN plan : plan[c] \in DOMAIN bank \cup {0}
<1> DEFINE blocks == SchemesOfWork!Blocks
           n == Len(blocks)
           calendar == SchemesOfWork!Calendar(scheme)
           at == [i \in DOMAIN calendar |->
                    IF calendar[i][2] = 0 \/ blocks = <<>> THEN 0 ELSE blocks[SchemesOfWork!BlockOf(calendar, n, i)]]
<1>1. n \in Nat \ {0}
  BY BlocksCounted, SchemesAssumed, FS_Subset DEF SchemeTypes
<1>2. scheme.weeks \in Nat \ {0} /\ scheme.perWeek \in Nat
  BY PlatformAssumption DEF SchemeInv, PlatformAssumption, SchemesOfWork!SchemesAssumption
<1>3. InOrder(calendar)
  BY <1>2, CalendarInOrder
<1>4. DOMAIN calendar = 1 .. Len(calendar)
  BY <1>3 DEF InOrder
<1>5. \A i \in 1 .. n : blocks[i] \in DOMAIN bank
  BY BlocksAreEntries
<1> HIDE DEF blocks, n, calendar
<1>6. \A i \in DOMAIN calendar : at[i] \in DOMAIN bank \cup {0}
  <2> SUFFICES ASSUME NEW i \in 1 .. Len(calendar), calendar[i][2] # 0
               PROVE  blocks[SchemesOfWork!BlockOf(calendar, n, i)] \in DOMAIN bank
    BY <1>4
  <2>1. PICK k \in Nat : SchemesOfWork!Slots(calendar, i) = k + 1
    BY <1>3, LessonsBefore
  <2>2. SchemesOfWork!BlockOf(calendar, n, i) \in 1 .. n
    BY <1>1, <2>1 DEF SchemesOfWork!BlockOf
  <2> QED
    BY <1>5, <2>2
<1>7. SchemesOfWork!Schedule(scheme, blocks) =
        [c \in SchemesOfWork!Range(calendar) |-> at[CHOOSE i \in DOMAIN calendar : calendar[i] = c]]
  BY DEF SchemesOfWork!Schedule, calendar, n
<1>8. \A c \in SchemesOfWork!Range(calendar) : \E i \in DOMAIN calendar : calendar[i] = c
  BY DEF SchemesOfWork!Range
<1> HIDE DEF at
<1> QED
  BY <1>6, <1>7, <1>8 DEF blocks

\* A cell that is filled from an entry, or a break.
LEMMA FilledTyped ==
  ASSUME SchemeTypes, NEW c \in DOMAIN bank \cup {0}
  PROVE  SchemesOfWork!Filled(c) \in SchemesOfWork!Cell
BY DEF SchemeTypes, SchemesOfWork!Filled, SchemesOfWork!Break, SchemesOfWork!Entry, SchemesOfWork!Cell

\* Writes are counted.
LEMMA WriteTyped == ASSUME SchemeTypes, SchemesOfWork!Write PROVE writes' \in 0 .. MaxWrites
<1>1. writes \in 0 .. MaxWrites /\ writes < MaxWrites /\ writes' = writes + 1
  BY DEF SchemeTypes, SchemesOfWork!Write
<1> QED
  BY <1>1, SchemesAssumed

\* Every step keeps it.
LEMMA SchemeTypesStay == ASSUME SchemeInv, SchemeTypes, SchemesOfWork!Next PROVE SchemeTypes'
<1>1. CASE SchemesOfWork!Create
  BY <1>1 DEF SchemesOfWork!Create, SchemeTypes
<1>2. CASE SchemesOfWork!GenerateReads
  <2>1. UNCHANGED <<bank, cells, writes>> /\ making' \in {"failed", "write"}
    BY <1>2 DEF SchemesOfWork!GenerateReads
  <2>2. \A c \in DOMAIN draft' : draft'[c] \in SchemesOfWork!Cell
    <3>1. CASE SchemesOfWork!Blocks = <<>>
      BY <1>2, <3>1 DEF SchemesOfWork!GenerateReads, SchemeTypes
    <3>2. CASE SchemesOfWork!Blocks # <<>>
      <4> DEFINE plan == SchemesOfWork!Schedule(scheme, SchemesOfWork!Blocks)
      <4>1. draft' = [c \in DOMAIN plan |-> SchemesOfWork!Filled(plan[c])]
        BY <1>2, <3>2 DEF SchemesOfWork!GenerateReads
      <4>2. \A c \in DOMAIN plan : plan[c] \in DOMAIN bank \cup {0}
        BY <3>2, ScheduleNames
      <4> HIDE DEF plan
      <4> QED
        BY <4>1, <4>2, FilledTyped
    <3> QED
      BY <3>1, <3>2
  <2> QED
    BY <2>1, <2>2 DEF SchemeTypes
<1>3. CASE SchemesOfWork!GenerateWrites \/ SchemesOfWork!Stop
  <2>1. /\ UNCHANGED <<bank, writes>> /\ making' \in {"done", "failed"} /\ draft' = SchemesOfWork!NoCells
        /\ cells' \in {cells, draft}
    BY <1>3 DEF SchemesOfWork!GenerateWrites, SchemesOfWork!Stop
  <2> QED
    BY <2>1 DEF SchemeTypes, SchemesOfWork!NoCells
<1>4. CASE SchemesOfWork!DeleteScheme
  BY <1>4 DEF SchemesOfWork!DeleteScheme, SchemeTypes, SchemesOfWork!NoCells
<1>5. ASSUME NEW c \in DOMAIN cells, NEW t \in Texts \cup {cells[c].topic}, NEW l \in Texts \cup {None},
             SchemesOfWork!UpdateLessonCell(c, t, l)
      PROVE  SchemeTypes'
  <2>1. /\ cells' = [cells EXCEPT ![c].topic = t, ![c].list = l] /\ SchemesOfWork!Write
        /\ UNCHANGED <<bank, draft, making>>
    BY <1>5 DEF SchemesOfWork!UpdateLessonCell
  <2>2. cells[c] \in SchemesOfWork!Cell /\ t \in Texts \cup {None}
    BY DEF SchemeTypes, SchemesOfWork!Cell
  <2>3. [cells[c] EXCEPT !.topic = t, !.list = l] \in SchemesOfWork!Cell
    BY <2>2 DEF SchemesOfWork!Cell
  <2>4. \A d \in DOMAIN cells' : cells'[d] \in SchemesOfWork!Cell
    BY <2>1, <2>3 DEF SchemeTypes
  <2> QED
    BY <2>1, <2>4, WriteTyped DEF SchemeTypes
<1>6. ASSUME NEW c \in Contents, SchemesOfWork!DeleteContent(c) PROVE SchemeTypes'
  <2>1. /\ bank' = [d \in DOMAIN bank \ {c} |-> bank[d]] /\ SchemesOfWork!Write
        /\ UNCHANGED <<cells, draft, making>>
    BY <1>6 DEF SchemesOfWork!DeleteContent
  <2> QED
    BY <2>1, WriteTyped DEF SchemeTypes
<1>7. ASSUME NEW c \in Contents, NEW here \in BOOLEAN, NEW t \in Texts, NEW l \in {t, None},
             SchemesOfWork!PutContent(c, here, t, l)
      PROVE  SchemeTypes'
  <2> DEFINE entry == [here |-> here, order |-> c, topic |-> t, list |-> l]
  <2>1. entry \in SchemesOfWork!Entry /\ entry.order = c
    BY SchemesAssumed DEF SchemesOfWork!Entry
  <2>2. /\ bank' = [d \in DOMAIN bank \cup {c} |-> IF d = c THEN entry ELSE bank[d]] /\ SchemesOfWork!Write
        /\ UNCHANGED <<cells, draft, making>>
    BY <1>7 DEF SchemesOfWork!PutContent
  <2> HIDE DEF entry
  <2> QED
    BY <2>1, <2>2, WriteTyped DEF SchemeTypes
<1> QED
  BY <1>1, <1>2, <1>3, <1>4, <1>5, <1>6, <1>7 DEF SchemesOfWork!Next

\* Schemes of work have their types.
LEMMA SchemesTyped == PlatformSpec => [](part = "schemes" => SchemesOfWork!TypeOK)
<1>1. PlatformInit => (part = "schemes" => SchemeTypes)
  <2> SUFFICES ASSUME PlatformInit, part = "schemes" PROVE SchemeTypes
    OBVIOUS
  <2>1. SchemesOfWork!Init
    BY DEF PlatformInit
  <2>2. PICK b \in SUBSET Contents, t \in Texts : bank = [c \in b |-> [here |-> TRUE, order |-> c, topic |-> t, list |-> t]]
    BY <2>1 DEF SchemesOfWork!Init
  <2>3. \A c \in DOMAIN bank : bank[c] \in SchemesOfWork!Entry /\ bank[c].order = c
    BY <2>2, SchemesAssumed DEF SchemesOfWork!Entry
  <2>4. writes \in 0 .. MaxWrites
    BY <2>1, SchemesAssumed DEF SchemesOfWork!Init
  <2>5. cells = SchemesOfWork!NoCells /\ draft = SchemesOfWork!NoCells /\ making = "new"
    BY <2>1 DEF SchemesOfWork!Init
  <2> QED
    BY <2>2, <2>3, <2>4, <2>5 DEF SchemeTypes, SchemesOfWork!NoCells
<1>2. (part = "schemes" => SchemeInv) /\ (part = "schemes" => SchemeTypes) /\ [PlatformNext]_allVars
        => (part = "schemes" => SchemeTypes)'
  <2>1. ASSUME SchemeTypes, UNCHANGED <<bank, scheme, cells, draft, making, writes>> PROVE SchemeTypes'
    BY <2>1 DEF SchemeTypes
  <2>2. part = "schemes" /\ [PlatformNext]_allVars =>
          SchemesOfWork!Next \/ UNCHANGED <<bank, scheme, cells, draft, making, writes>>
    BY DEF PlatformNext, Only, allVars
  <2> QED
    BY <2>1, <2>2, PartStays, SchemeTypesStay
<1>3. SchemeInv /\ SchemeTypes => SchemesOfWork!TypeOK
  BY DEF SchemeInv, SchemeTypes, SchemesOfWork!TypeOK
<1> QED
  BY <1>1, <1>2, <1>3, SchemeInvariance, PTL DEF PlatformSpec

\* Of assessments, what ItemsInv does not say: that the lists are sequences,
\* and the histories.
ItemLists == Seq(Assessments!Item)
ItemsTypes ==
  /\ asked \in BOOLEAN /\ edits \in 0 .. MaxEdits /\ logged \subseteq DOMAIN assessments /\ apart \subseteq Requests
  /\ holed \subseteq {Assessments!NewDraft} \cup DOMAIN assessments
  /\ \A a \in DOMAIN assessments : assessments[a].items \in ItemLists
  /\ \A p \in Requests : details[p].shown \in ItemLists /\ details[p].cached \in ItemLists
  /\ \A r \in Requests : patch[r].items \in ItemLists /\ patch[r].seen \in ItemLists

\* A new row has the items of a draft or of another row.
LEMMA RowTyped ==
  ASSUME ItemsTypes, NEW a \in AssessmentIds, NEW list \in ItemLists, Assessments!Put(a, list),
         holed' \subseteq holed \cup {a}, asked' \in BOOLEAN, UNCHANGED <<details, patch, logged, apart, edits>>
  PROVE  ItemsTypes'
<1>1. /\ DOMAIN assessments' = DOMAIN assessments \cup {a}
      /\ \A b \in DOMAIN assessments' : assessments'[b].items = IF b = a THEN list ELSE assessments[b].items
  BY DEF Assessments!Put
<1> QED
  BY <1>1 DEF ItemsTypes

\* What makes assessments keeps it.
LEMMA MakingTypes == ASSUME ItemsInv, ItemsTypes, Assessments!MakingActs PROVE ItemsTypes'
<1>1. ASSUME Assessments!DraftOnly, asked' \in BOOLEAN, holed' \subseteq holed \cup {Assessments!NewDraft} PROVE ItemsTypes'
  BY <1>1 DEF Assessments!DraftOnly, ItemsTypes
<1>2. CASE Assessments!AskGenerate \/ Assessments!GenerateFails \/ Assessments!AddItem
  <2>1. Assessments!DraftOnly /\ holed' = holed /\ asked' \in {asked, TRUE, FALSE}
    BY <1>2 DEF Assessments!AskGenerate, Assessments!GenerateFails, Assessments!AddItem
  <2> QED
    BY <1>1, <2>1 DEF ItemsTypes
<1>3. ASSUME NEW n \in 1 .. MaxItems, NEW ids \in [1 .. n -> 1 .. MaxItems], Assessments!Generate(ids) PROVE ItemsTypes'
  BY <1>1, <1>3 DEF Assessments!Generate
<1>4. ASSUME NEW i \in DOMAIN newItems, Assessments!RemoveItem(i) PROVE ItemsTypes'
  <2>1. Assessments!DraftOnly /\ asked' = asked /\ holed' \subseteq holed \cup {Assessments!NewDraft}
    BY <1>4 DEF Assessments!RemoveItem
  <2> QED
    BY <1>1, <2>1 DEF ItemsTypes
<1>5. ASSUME NEW i \in DOMAIN newItems, NEW t \in ItemTexts, Assessments!UpdateItem(i, t) PROVE ItemsTypes'
  BY <1>1, <1>5 DEF Assessments!UpdateItem, ItemsTypes
<1>6. ASSUME NEW a \in AssessmentIds, NEW gone \in BOOLEAN, Assessments!Create(a, gone) PROVE ItemsTypes'
  <2>1. /\ Assessments!Put(a, newItems) /\ holed' \subseteq holed \cup {a} /\ asked' \in BOOLEAN
        /\ UNCHANGED <<details, patch, logged, apart, edits>>
    BY <1>6 DEF Assessments!Create, Assessments!HoledBy
  <2>2. newItems \in ItemLists
    BY DEF ItemsInv, DraftInv, ItemLists
  <2> QED
    BY <2>1, <2>2, RowTyped
<1>7. ASSUME NEW a \in AssessmentIds, NEW b \in AssessmentIds, Assessments!DuplicateAssessment(a, b) PROVE ItemsTypes'
  <2>1. /\ Assessments!Put(b, assessments[a].items) /\ holed' \subseteq holed \cup {b} /\ a \in DOMAIN assessments
        /\ UNCHANGED <<asked, details, patch, logged, apart, edits>>
    BY <1>7 DEF Assessments!DuplicateAssessment, Assessments!HoledBy, Assessments!Live
  <2>2. assessments[a].items \in ItemLists /\ asked' \in BOOLEAN
    BY <2>1 DEF ItemsTypes
  <2> QED
    BY <2>1, <2>2, RowTyped
<1> QED
  BY <1>2, <1>3, <1>4, <1>5, <1>6, <1>7 DEF Assessments!MakingActs

\* What deletes them keeps it.
LEMMA DeletingTypes == ASSUME ItemsInv, ItemsTypes, Assessments!DeletingActs PROVE ItemsTypes'
<1>1. PICK a \in AssessmentIds :
        Assessments!LogDeletion(a) \/ Assessments!MarkDeleted(a) \/ Assessments!DeletionStops(a)
  BY DEF Assessments!DeletingActs
<1>2. CASE Assessments!LogDeletion(a)
  BY <1>2 DEF Assessments!LogDeletion, Assessments!Live, ItemsTypes
<1>3. CASE Assessments!MarkDeleted(a)
  <2>1. /\ assessments' = [assessments EXCEPT ![a].gone = TRUE] /\ a \in deleting
        /\ UNCHANGED <<asked, details, patch, logged, holed, apart, edits>>
    BY <1>3 DEF Assessments!MarkDeleted
  <2>2. a \in DOMAIN assessments /\ DOMAIN assessments[a] = {"items", "gone"}
    BY <2>1 DEF ItemsInv, RowInv
  <2>3. DOMAIN assessments' = DOMAIN assessments /\ \A b \in DOMAIN assessments : assessments'[b].items = assessments[b].items
    BY <2>1, <2>2
  <2> QED
    BY <2>1, <2>3 DEF ItemsTypes
<1>4. CASE Assessments!DeletionStops(a)
  BY <1>4 DEF Assessments!DeletionStops, ItemsTypes
<1> QED
  BY <1>1, <1>2, <1>3, <1>4

\* An edit on a page sends a list.
LEMMA ChangeTyped ==
  ASSUME ItemsInv, ItemsTypes, NEW p \in Requests, NEW r \in Requests, NEW list \in ItemLists, Assessments!Change(p, r, list)
  PROVE  ItemsTypes'
<1> DEFINE filled == Assessments!Filled(list, details[p].cached)
           sent == [at |-> "sent", page |-> p, on |-> details[p].on, items |-> list, seen |-> <<>>]
<1>1. /\ edits < MaxEdits /\ edits' = edits + 1 /\ details' = [details EXCEPT ![p].shown = filled]
      /\ patch' = [patch EXCEPT ![r] = sent] /\ apart' \subseteq apart \cup {p}
      /\ UNCHANGED <<asked, assessments, logged, holed>>
  BY DEF Assessments!Change
<1>2. edits' \in 0 .. MaxEdits
  <2>1. MaxEdits \in Nat
    BY PlatformAssumption DEF PlatformAssumption, Assessments!AssessmentsAssumption
  <2>2. edits \in 0 .. MaxEdits
    BY DEF ItemsTypes
  <2> QED
    BY <1>1, <2>1, <2>2
<1>3. sent.items \in ItemLists /\ sent.seen \in ItemLists
  BY DEF ItemLists
<1>4. filled \in ItemLists
  BY DEF Assessments!Filled, ItemsTypes
<1>5. DOMAIN details = Requests /\ DOMAIN patch = Requests /\ {"shown", "cached"} \subseteq DOMAIN details[p]
  BY PagesOn DEF ItemsInv, PageInv, Assessments!Closed
<1> HIDE DEF filled, sent
<1>6. \A q \in Requests : details'[q].shown \in {filled, details[q].shown} /\ details'[q].cached = details[q].cached
  BY <1>1, <1>5
<1>7. \A q \in Requests : patch'[q] = sent \/ patch'[q] = patch[q]
  BY <1>1, <1>5
<1> QED
  BY <1>1, <1>2, <1>3, <1>4, <1>6, <1>7 DEF ItemsTypes

\* Editing an item, and taking one off.
LEMMA EditTypes ==
  ASSUME ItemsInv, ItemsTypes, NEW p \in Requests, NEW r \in Requests, NEW i \in DOMAIN details[p].shown,
         Assessments!RemoveShown(p, r, i) \/ \E t \in ItemTexts : Assessments!EditItem(p, r, i, t)
  PROVE  ItemsTypes'
<1> DEFINE list == details[p].shown
<1>1. /\ list \in ItemLists /\ DOMAIN list = 1 .. Len(list) /\ Len(list) \in Nat
      /\ \A j \in DOMAIN list : list[j] \in Assessments!Item
  <2>1. list \in ItemLists
    BY DEF ItemsTypes
  <2> HIDE DEF list
  <2> QED
    BY <2>1 DEF ItemLists
<1>2. CASE Assessments!RemoveShown(p, r, i)
  <2> DEFINE kept == {j \in DOMAIN list : list[j].id # list[i].id}
             n == Assessments!Cardinality(kept)
  <2>1. PICK at \in [1 .. n -> kept] : Assessments!Change(p, r, [j \in DOMAIN at |-> list[at[j]]])
    BY <1>2 DEF Assessments!RemoveShown
  <2>2. n \in Nat
    <3>1. IsFiniteSet(DOMAIN list)
      BY <1>1, FS_Interval
    <3>2. kept \subseteq DOMAIN list
      OBVIOUS
    <3> HIDE DEF kept
    <3> QED
      BY <3>1, <3>2, FS_Subset, FS_CardinalityType DEF Assessments!Cardinality, Cardinality
  <2> DEFINE new == [j \in DOMAIN at |-> list[at[j]]]
  <2>3. \A j \in 1 .. n : list[at[j]] \in Assessments!Item
    <3>1. \A j \in 1 .. n : at[j] \in DOMAIN list
      <4> HIDE DEF n
      <4> QED
        BY <2>1
    <3> QED
      BY <1>1, <3>1
  <2> HIDE DEF n, list
  <2>4. new \in ItemLists
    <3>1. new = [j \in 1 .. n |-> list[at[j]]]
      BY <2>1
    <3> QED
      BY <2>2, <2>3, <3>1 DEF ItemLists
  <2> QED
    BY <2>1, <2>4, ChangeTyped
<1>3. ASSUME NEW t \in ItemTexts, Assessments!EditItem(p, r, i, t) PROVE ItemsTypes'
  <2> DEFINE edited == [list[i] EXCEPT !.text = t]
             new == [j \in DOMAIN list |-> IF list[j].id = edited.id THEN edited ELSE list[j]]
  <2>1. Assessments!Change(p, r, new)
    BY <1>3 DEF Assessments!EditItem
  <2>2. edited \in Assessments!Item
    BY <1>1 DEF Assessments!Item
  <2> HIDE DEF edited, list
  <2>3. new \in ItemLists
    BY <1>1, <2>2 DEF ItemLists
  <2> QED
    BY <2>1, <2>3, ChangeTyped
<1> QED
  BY <1>2, <1>3

\* Pages that open and close, and requests, keep it.
LEMMA RequestTypes ==
  ASSUME ItemsInv, ItemsTypes, NEW r \in Requests,
         Assessments!LoadRow(r) \/ Assessments!CommitRow(r) \/ Assessments!TakeAnswer(r) \/ Assessments!PatchFails(r)
  PROVE  ItemsTypes'
<1>1. /\ DOMAIN details = Requests /\ DOMAIN patch = Requests
      /\ \A p \in Requests : {"shown", "cached"} \subseteq DOMAIN details[p]
      /\ {"at", "items", "seen"} \subseteq DOMAIN patch[r]
  <2>1. \A p \in Requests : {"shown", "cached"} \subseteq DOMAIN details[p]
    BY DEF ItemsInv, PageInv, Assessments!Closed
  <2>2. {"at", "items", "seen"} \subseteq DOMAIN patch[r]
    <3>1. CASE patch[r] = Assessments!NoPatch
      BY <3>1 DEF Assessments!NoPatch
    <3>2. CASE patch[r] # Assessments!NoPatch
      BY <3>2 DEF ItemsInv, PatchInv
    <3> QED
      BY <3>1, <3>2
  <2> QED
    BY <2>1, <2>2, PagesOn
<1>2. CASE Assessments!LoadRow(r)
  <2> DEFINE list == assessments[patch[r].on].items
  <2>1. /\ patch' = [patch EXCEPT ![r].at = "loaded", ![r].seen = list] /\ patch[r].on \in DOMAIN assessments
        /\ UNCHANGED <<asked, assessments, details, logged, holed, apart, edits>>
    BY <1>2 DEF Assessments!LoadRow, Assessments!Live
  <2>2. list \in ItemLists
    BY <2>1 DEF ItemsTypes
  <2> HIDE DEF list
  <2>3. \A q \in Requests : patch'[q].items = patch[q].items /\ patch'[q].seen \in {list, patch[q].seen}
    BY <1>1, <2>1
  <2> QED
    BY <2>1, <2>2, <2>3 DEF ItemsTypes
<1>3. CASE Assessments!CommitRow(r)
  <2>1. /\ patch[r].at = "loaded" /\ patch' = [patch EXCEPT ![r].at = "answered"] /\ apart' \subseteq Requests
        /\ \/ assessments' = assessments
           \/ assessments' = [assessments EXCEPT ![patch[r].on].items = patch[r].items]
        /\ UNCHANGED <<asked, details, logged, holed, edits>>
    BY <1>3 DEF Assessments!CommitRow, ItemsTypes
  <2>2. patch[r].on \in DOMAIN assessments /\ "items" \in DOMAIN assessments[patch[r].on]
    <3>1. patch[r] # Assessments!NoPatch
      BY <2>1 DEF Assessments!NoPatch
    <3>2. patch[r].on \in DOMAIN assessments
      BY <3>1 DEF ItemsInv, PatchInv
    <3> QED
      BY <3>2 DEF ItemsInv, RowInv
  <2>3. \A q \in Requests : patch'[q].items = patch[q].items /\ patch'[q].seen = patch[q].seen
    BY <1>1, <2>1
  <2>4. /\ DOMAIN assessments' = DOMAIN assessments
        /\ \A a \in DOMAIN assessments : assessments'[a].items \in {patch[r].items, assessments[a].items}
    BY <2>1, <2>2
  <2> QED
    BY <2>1, <2>3, <2>4 DEF ItemsTypes
<1>4. CASE Assessments!TakeAnswer(r) \/ Assessments!PatchFails(r)
  <2> DEFINE p == patch[r].page
             fetched == IF Assessments!Live(patch[r].on) THEN assessments[patch[r].on].items ELSE details[p].cached
             filled == Assessments!Filled(details[p].shown, fetched)
  <2>1. /\ patch' = [patch EXCEPT ![r] = Assessments!NoPatch] /\ apart' \subseteq apart \cup Requests
        /\ \/ details' = details
           \/ p \in Requests /\ details' = [details EXCEPT ![p].cached = fetched, ![p].shown = filled]
        /\ UNCHANGED <<asked, assessments, logged, holed, edits>>
    BY <1>4 DEF Assessments!TakeAnswer, Assessments!PatchFails
  <2>2. p \in Requests => fetched \in ItemLists /\ filled \in ItemLists
    BY DEF ItemsTypes, Assessments!Live, Assessments!Filled
  <2>3. Assessments!NoPatch.items \in ItemLists /\ Assessments!NoPatch.seen \in ItemLists
    BY DEF Assessments!NoPatch, ItemLists
  <2>4. \A q \in Requests : patch'[q] \in {Assessments!NoPatch, patch[q]}
    BY <1>1, <2>1
  <2> HIDE DEF p, fetched, filled
  <2>5. details' = details \/
        (p \in Requests /\ \A q \in Requests : /\ details'[q].shown \in {filled, details[q].shown}
                                              /\ details'[q].cached \in {fetched, details[q].cached})
    BY <1>1, <2>1
  <2> QED
    BY <2>1, <2>2, <2>3, <2>4, <2>5 DEF ItemsTypes
<1> QED
  BY <1>2, <1>3, <1>4

\* All that a page does keeps it.
LEMMA PagesTypes == ASSUME ItemsInv, ItemsTypes, Assessments!PageActs PROVE ItemsTypes'
<1>1. DOMAIN details = Requests /\ DOMAIN patch = Requests
  BY PagesOn
<1>2. ASSUME NEW p \in Requests, Assessments!Close(p) PROVE ItemsTypes'
  <2>1. /\ details' = [details EXCEPT ![p] = Assessments!Closed] /\ apart' \subseteq apart
        /\ patch' = [r \in Requests |-> IF patch[r].page = p THEN [patch[r] EXCEPT !.page = None] ELSE patch[r]]
        /\ UNCHANGED <<asked, assessments, logged, holed, edits>>
    BY <1>2 DEF Assessments!Close
  <2>2. Assessments!Closed.shown \in ItemLists /\ Assessments!Closed.cached \in ItemLists
    BY DEF Assessments!Closed, ItemLists
  <2>3. \A q \in Requests : details'[q] \in {Assessments!Closed, details[q]}
    BY <1>1, <2>1
  <2>4. \A r \in Requests : patch'[r].items = patch[r].items /\ patch'[r].seen = patch[r].seen
    <3> SUFFICES ASSUME NEW r \in Requests PROVE patch'[r].items = patch[r].items /\ patch'[r].seen = patch[r].seen
      OBVIOUS
    <3>1. {"items", "seen"} \subseteq DOMAIN patch[r]
      BY DEF ItemsInv, PatchInv, Assessments!NoPatch
    <3> QED
      BY <2>1, <3>1
  <2> QED
    BY <2>1, <2>2, <2>3, <2>4 DEF ItemsTypes
<1>3. ASSUME NEW p \in Requests, NEW a \in AssessmentIds, Assessments!Open(p, a) PROVE ItemsTypes'
  <2> DEFINE new == [on |-> a, shown |-> assessments[a].items, cached |-> assessments[a].items]
  <2>1. /\ details' = [details EXCEPT ![p] = new] /\ a \in DOMAIN assessments /\ apart' \subseteq apart
        /\ UNCHANGED <<asked, assessments, patch, logged, holed, edits>>
    BY <1>3 DEF Assessments!Open, Assessments!Live
  <2>2. new.shown \in ItemLists /\ new.cached \in ItemLists
    BY <2>1 DEF ItemsTypes
  <2> HIDE DEF new
  <2>3. \A q \in Requests : details'[q] \in {new, details[q]}
    BY <1>1, <2>1
  <2> QED
    BY <2>1, <2>2, <2>3 DEF ItemsTypes
<1> QED
  BY <1>2, <1>3, EditTypes, RequestTypes DEF Assessments!PageActs

\* Assessments have their types.
LEMMA AssessmentsTyped == PlatformSpec => [](part \in {"draft", "assessments"} => Assessments!TypeOK)
<1> DEFINE Here == part \in {"draft", "assessments"}
           these == <<newItems, asked, assessments, details, patch, deleting, logged, holed, apart, edits>>
<1>1. PlatformInit => (Here => ItemsTypes)
  <2> SUFFICES ASSUME PlatformInit, Here PROVE ItemsTypes
    OBVIOUS
  <2>1. Assessments!Init
    BY DEF PlatformInit
  <2>2. MaxEdits \in Nat
    BY PlatformAssumption DEF PlatformAssumption, Assessments!AssessmentsAssumption
  <2>3. asked = FALSE /\ edits \in 0 .. MaxEdits /\ logged = {} /\ apart = {} /\ holed = {}
    BY <2>1, <2>2 DEF Assessments!Init
  <2>4. \A a \in DOMAIN assessments : assessments[a].items \in ItemLists
    BY <2>1, ItemsAssumed DEF Assessments!Init, ItemLists
  <2>5. \A p \in Requests : details[p].shown \in ItemLists /\ details[p].cached \in ItemLists
    <3>1. \A p \in Requests : details[p] = Assessments!Closed
      BY <2>1 DEF Assessments!Init
    <3>2. Assessments!Closed.shown = <<>> /\ Assessments!Closed.cached = <<>> /\ <<>> \in ItemLists
      BY DEF Assessments!Closed, ItemLists
    <3> QED
      BY <3>1, <3>2
  <2>6. \A r \in Requests : patch[r].items \in ItemLists /\ patch[r].seen \in ItemLists
    <3>1. \A r \in Requests : patch[r] = Assessments!NoPatch
      BY <2>1 DEF Assessments!Init
    <3>2. Assessments!NoPatch.items = <<>> /\ Assessments!NoPatch.seen = <<>> /\ <<>> \in ItemLists
      BY DEF Assessments!NoPatch, ItemLists
    <3> QED
      BY <3>1, <3>2
  <2> QED
    BY <2>3, <2>4, <2>5, <2>6 DEF ItemsTypes
<1>2. (Here => ItemsInv) /\ (Here => ItemsTypes) /\ [PlatformNext]_allVars => (Here => ItemsTypes)'
  <2>1. ASSUME ItemsTypes, UNCHANGED these PROVE ItemsTypes'
    BY <2>1 DEF ItemsTypes
  <2>2. Here /\ [PlatformNext]_allVars =>
          \/ Assessments!MakingActs \/ Assessments!DeletingActs \/ Assessments!PageActs \/ UNCHANGED these
    BY DEF PlatformNext, Only, allVars
  <2> QED
    BY <2>1, <2>2, PartStays, MakingTypes, DeletingTypes, PagesTypes
<1>3. ItemsInv /\ ItemsTypes => Assessments!TypeOK
  <2> SUFFICES ASSUME ItemsInv, ItemsTypes PROVE Assessments!TypeOK
    OBVIOUS
  <2>1. \A a \in DOMAIN assessments :
          a \in AssessmentIds /\ assessments[a].items \in Seq(Assessments!Item) /\ assessments[a].gone \in BOOLEAN
    BY DEF ItemsInv, RowInv, ItemsTypes, ItemLists
  <2>2. \A p \in Requests : /\ details[p].on \in DOMAIN assessments \cup {None}
                           /\ {details[p].shown, details[p].cached} \subseteq Seq(Assessments!Item)
    BY DEF ItemsInv, PageInv, ItemsTypes, ItemLists, Assessments!Closed
  <2>3. \A r \in Requests :
          /\ patch[r].at \in {"none", "sent", "loaded", "answered"}
          /\ patch[r].page \in Requests \cup {None} /\ patch[r].on \in DOMAIN assessments \cup {None}
          /\ {patch[r].items, patch[r].seen} \subseteq Seq(Assessments!Item)
    <3> SUFFICES ASSUME NEW r \in Requests
                 PROVE  /\ patch[r].at \in {"none", "sent", "loaded", "answered"}
                        /\ patch[r].page \in Requests \cup {None} /\ patch[r].on \in DOMAIN assessments \cup {None}
      BY DEF ItemsTypes, ItemLists
    <3>1. CASE patch[r] = Assessments!NoPatch
      BY <3>1 DEF Assessments!NoPatch
    <3>2. CASE patch[r] # Assessments!NoPatch
      BY <3>2 DEF ItemsInv, PatchInv
    <3> QED
      BY <3>1, <3>2
  <2>4. newItems \in Seq(Assessments!Item) /\ deleting \subseteq DOMAIN assessments
    BY DEF ItemsInv, DraftInv
  <2> QED
    BY <2>1, <2>2, <2>3, <2>4 DEF ItemsTypes, Assessments!TypeOK
<1> QED
  BY <1>1, <1>2, <1>3, ItemsInvariance, PTL DEF PlatformSpec

\* One of the parts runs.
LEMMA SomePart == PlatformSpec => [](part \in Parts)
<1>1. PlatformInit => part \in Parts
  BY DEF PlatformInit
<1>2. part \in Parts /\ [PlatformNext]_allVars => (part \in Parts)'
  BY PartStays DEF Parts
<1> QED
  BY <1>1, <1>2, PTL DEF PlatformSpec

\* Whatever part runs, its state is one the program's types allow: rows are
\* rows, lists are lists, what is counted stays in its bounds, and no history
\* names what was never there.
THEOREM TypesHold == PlatformSpec => []AllTyped
<1> DEFINE OfSchool ==
             /\ part = "records" => Records!TypeOK
             /\ part = "people" => People!TypeOK
             /\ part = "accounts" => TypeOK
             /\ part = "limits" => RateLimits!TypeOK
             /\ part = "schemes" => SchemesOfWork!TypeOK
           OfMarks ==
             /\ part = "exams" => TermExams!TypeOK
             /\ part = "reports" => Reports!TypeOK
             /\ part = "client" => ApiClient!TypeOK
             /\ part = "roadmap" => Roadmap!TypeOK
             /\ part = "billing" => Billing!TypeOK
           OfItems ==
             /\ part \in Parts
             /\ part = "catalogue" => Catalogue!TypeOK
             /\ part \in {"draft", "assessments"} => Assessments!TypeOK
           OfShared ==
             /\ part = "pool" => TenantPool!TypeOK
             /\ part = "sessions" => Sessions!TypeOK
             /\ part = "throttles" => Throttles!TypeOK
<1>1. PlatformSpec => []OfSchool
  BY RecordsTyped, PeopleTyped, AccountsTyped, LimitsTyped, SchemesTyped, PTL
<1>2. PlatformSpec => []OfMarks
  BY ExamsTyped, ReportsTyped, ClientTypesHold, RoadmapTyped, BillingTypesHold, PTL
<1>3. PlatformSpec => []OfItems
  BY SomePart, CatalogueTyped, AssessmentsTyped, PTL
<1>4. PlatformSpec => []OfShared
  BY SomeTyped, PTL
<1>5. OfSchool /\ OfMarks /\ OfItems /\ OfShared => AllTyped
  BY DEF AllTyped
<1> HIDE DEF OfSchool, OfMarks, OfItems, OfShared
<1> QED
  BY <1>1, <1>2, <1>3, <1>4, <1>5, PTL
=============================================================================
