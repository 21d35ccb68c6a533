----------------------------- MODULE Throttles ------------------------------
(***************************************************************************)
(* One throttle of api/app/core/rate_limit.py for one address: the one     *)
(* every request passes (GlobalThrottleMiddleware), or that of a kind of   *)
(* endpoint (_throttle); they differ in the key and the limit.  The count  *)
(* is in Redis, shared by the workers, and raised and given its time to    *)
(* live in two commands.  A worker that cannot connect to Redis the first  *)
(* time counts for itself from then on.                                    *)
(*                                                                         *)
(* A tick is a part of the window; a request lasts less than one.          *)
(***************************************************************************)
EXTENDS Integers, FiniteSets

CONSTANTS
  Handlers,      \* requests at work at the same time
  Workers,       \* processes of the API
  MaxRequests,   \* max_requests, MAX_REQUESTS_PER_MINUTE
  Window,        \* window_seconds, in ticks
  MaxCame,       \* bound: requests in a window, and what is counted
  MaxFailed      \* bound: commands to Redis that fail

ThrottlesAssumption ==
  /\ IsFiniteSet(Handlers) /\ Workers # {} /\ {MaxRequests, Window} \subseteq Nat \ {0}
  /\ {MaxCame, MaxFailed} \subseteq Nat

VARIABLES
  shared,     \* the count in Redis
  memory,     \* that of each worker
  connected,  \* workers with a connection to Redis ...
  alone,      \* ... and workers that gave up (_redis_failed)
  ask,        \* each request: where it is, its worker
  came,       \* history: for each i, the requests of the last i ticks ...
  passed,     \* ... and those let through by the count in Redis and by a worker's
  failed,     \* commands that failed
  stuck       \* history: the count in Redis was left without a time to live

vars == <<shared, memory, connected, alone, ask, came, passed, failed, stuck>>

\* A count, and the ticks it has left; 0 of one that has no time to live.
NoCount == [count |-> 0, ttl |-> 0]
Idle == [at |-> "idle", worker |-> CHOOSE w \in Workers : TRUE]

\* One more, and a tick without any, in the numbers of the last i ticks.
NoneYet == [i \in 1 .. Window |-> 0]
Now(f) == [i \in 1 .. Window |-> f[i] + 1]
Shift(f) == [i \in 1 .. Window |-> IF i = 1 THEN 0 ELSE f[i - 1]]

Init ==
  /\ shared = NoCount /\ memory = [w \in Workers |-> NoCount]
  /\ connected = {} /\ alone = {} /\ ask = [h \in Handlers |-> Idle]
  /\ came = NoneYet /\ passed = [shared |-> NoneYet, memory |-> [w \in Workers |-> NoneYet]]
  /\ failed = 0 /\ stuck = FALSE

\* Whether the request goes on, or is answered 429.
Within(n) == n <= MaxRequests
Answered(h) == ask' = [ask EXCEPT ![h] = Idle]
PassedShared(n) == passed' = IF Within(n) THEN [passed EXCEPT !.shared = Now(@)] ELSE passed
PassedMemory(w, n) == passed' = IF Within(n) THEN [passed EXCEPT !.memory[w] = Now(@)] ELSE passed

\* A request comes to a worker, which connects to Redis when it has not tried.
Begin(h, w, connects) ==
  /\ ask[h] = Idle /\ came[Window] < MaxCame /\ shared.count < MaxCame
  /\ came' = Now(came)
  /\ connected' = IF connects /\ w \notin alone THEN connected \cup {w} ELSE connected
  /\ w \in connected => connects
  /\ alone' = IF connects THEN alone ELSE alone \cup {w}
  /\ w \in alone => ~connects
  /\ ask' = [ask EXCEPT ![h] = [at |-> "incr", worker |-> w]]
  /\ UNCHANGED <<shared, memory, passed, failed, stuck>>

\* Variant: every request sets the time to live anew.
SetsTtl_always(n) == TRUE

\* Only the first of a window does.
SetsTtl(n) == n = 1

\* _incr: the count is raised ...
Incr(h) ==
  /\ ask[h].at = "incr" /\ ask[h].worker \notin alone
  /\ shared' = [shared EXCEPT !.count = @ + 1]
  /\ IF SetsTtl(shared'.count) THEN ask' = [ask EXCEPT ![h].at = "expire"] /\ UNCHANGED passed
                               ELSE Answered(h) /\ PassedShared(shared'.count)
  /\ UNCHANGED <<memory, connected, alone, came, failed, stuck>>

\* ... and its time to live set.
Expire(h) ==
  /\ ask[h].at = "expire"
  /\ shared' = IF shared.count = 0 THEN shared ELSE [shared EXCEPT !.ttl = Window]
  /\ Answered(h) /\ PassedShared(1)
  /\ UNCHANGED <<memory, connected, alone, came, failed, stuck>>

\* A command fails: the request is let through, whatever was counted.
Fails(h) ==
  /\ ask[h].at \in {"incr", "expire"} /\ ask[h].worker \notin alone /\ failed < MaxFailed
  /\ failed' = failed + 1 /\ stuck' = (stuck \/ ask[h].at = "expire")
  /\ Answered(h)
  /\ UNCHANGED <<shared, memory, connected, alone, came, passed>>

\* _memory_incr
MemoryIncr(h) ==
  LET w == ask[h].worker
      m == [count |-> memory[w].count + 1, ttl |-> IF memory[w] = NoCount THEN Window ELSE memory[w].ttl] IN
  /\ ask[h].at = "incr" /\ w \in alone
  /\ memory' = [memory EXCEPT ![w] = m]
  /\ Answered(h) /\ PassedMemory(w, m.count)
  /\ UNCHANGED <<shared, connected, alone, came, failed, stuck>>

\* Variant: a count without a time to live grows older as well.
Older_any(c) == IF c.ttl = 1 THEN NoCount ELSE [c EXCEPT !.ttl = @ - 1]

Older(c) == CASE c.ttl > 1 -> [c EXCEPT !.ttl = @ - 1] [] c.ttl = 1 -> NoCount [] OTHER -> c

Tick ==
  /\ \A h \in Handlers : ask[h] = Idle
  /\ shared' = Older(shared) /\ memory' = [w \in Workers |-> Older(memory[w])]
  /\ came' = Shift(came)
  /\ passed' = [shared |-> Shift(passed.shared), memory |-> [w \in Workers |-> Shift(passed.memory[w])]]
  /\ UNCHANGED <<connected, alone, ask, failed, stuck>>

Next ==
  \/ Tick
  \/ \E h \in Handlers :
       \/ \E w \in Workers, connects \in BOOLEAN : Begin(h, w, connects)
       \/ Incr(h) \/ Expire(h) \/ Fails(h) \/ MemoryIncr(h)

Spec == Init /\ [][Next]_vars

-----------------------------------------------------------------------------
TypeOK ==
  /\ shared \in [count : Nat, ttl : 0 .. Window]
  /\ memory \in [Workers -> [count : Nat, ttl : 0 .. Window]]
  /\ connected \cup alone \subseteq Workers /\ connected \cap alone = {}
  /\ ask \in [Handlers -> [at : {"idle", "incr", "expire"}, worker : Workers]]
  /\ came \in [1 .. Window -> Nat]
  /\ passed \in [shared : [1 .. Window -> Nat], memory : [Workers -> [1 .. Window -> Nat]]]
  /\ failed \in 0 .. MaxFailed /\ stuck \in BOOLEAN

\* In any stretch of time as long as the window the count in Redis lets at
\* most twice the limit through, as the stretch may touch two windows, and
\* so does that of each worker that counts for itself; more only come
\* through when commands fail, one each (failed).
PassedBounded ==
  /\ passed.shared[Window] <= 2 * MaxRequests
  /\ \A w \in Workers : passed.memory[w][Window] <= IF w \in alone THEN 2 * MaxRequests ELSE 0

\* What is counted came within the last Window ticks, so nobody is refused
\* for requests of longer ago: only a failure between the two commands leaves
\* a count that goes on for good.
CountsRecent == stuck \/ shared.count <= came[Window]

\* The throttle lets enough pass and not too much, through failures of Redis.
ThrottleSound == PassedBounded /\ CountsRecent
=============================================================================
