----------------------------- MODULE RateLimits -----------------------------
(***************************************************************************)
(* The lockout of one account (api/app/core/rate_limit.py and the login    *)
(* handler of routers/auth.py): the failures counted for each address and  *)
(* the lock.  A count is raised (INCR) and, when that made it 1, given its *)
(* time to live (EXPIRE) in a second command: a request can stop between.  *)
(* The throttles of the same file count requests in the same two commands; *)
(* here they are part of the choice whether a request comes.               *)
(*                                                                         *)
(* A tick is a part of the fifteen minutes that windows and locks last; a  *)
(* request, a matter of milliseconds, lasts less than one.                 *)
(***************************************************************************)
EXTENDS Integers, FiniteSets

CONSTANTS
  Handlers,   \* requests at work at the same time
  Ips,        \* addresses
  Failures,   \* LOCKOUT_MAX_FAILURES
  Window,     \* LOCKOUT_WINDOW_SECONDS, in ticks
  Duration,   \* LOCKOUT_DURATION_SECONDS, in ticks
  MaxCount,   \* bound: a count that is reached
  MaxOpened,  \* bound: locks ended by a right password while a count goes on
  MaxStops    \* bound: requests that stop half-way, or meet no answer

\* Window and lock are both of fifteen minutes.
RateLimitsAssumption ==
  /\ IsFiniteSet(Handlers) /\ IsFiniteSet(Ips) /\ Ips # {}
  /\ {Failures, Window, Duration} \subseteq Nat \ {0} /\ Window <= Duration
  /\ MaxCount \in Nat /\ MaxOpened \in Nat /\ MaxStops \in Nat

VARIABLES
  count,    \* fl:<email>:<ip>, 0 when there is none
  ttl,      \* ticks it has left; 0 of a count that has no time to live
  lock,     \* ticks account_locked:<email> has left, 0 when there is none
  login,    \* what each request is at, and from which address
  wrong,    \* history: wrong passwords tried from an address since its count began
  opened,   \* history: locks that a right password ended while that count was full
  stops,    \* requests that stopped half-way, or that Redis did not answer
  orphan    \* history: addresses a request left without what should follow

vars == <<count, ttl, lock, login, wrong, opened, stops, orphan>>

Steps == {"check", "verify", "fail", "expire", "lock", "clear", "unlock"}
Idle == [at |-> "idle", ip |-> CHOOSE ip \in Ips : TRUE]

Init ==
  /\ count = [ip \in Ips |-> 0] /\ ttl = [ip \in Ips |-> 0]
  /\ lock = 0 /\ stops = 0 /\ orphan = {}
  /\ wrong = [ip \in Ips |-> 0] /\ opened = [ip \in Ips |-> 0]
  /\ login = [h \in Handlers |-> Idle]

Go(h, at) == login' = [login EXCEPT ![h] = IF at = "idle" THEN Idle ELSE [@ EXCEPT !.at = at]]

Begin(h, ip) ==
  /\ login[h] = Idle /\ count[ip] < MaxCount /\ \A i \in Ips : opened[i] < MaxOpened
  /\ login' = [login EXCEPT ![h] = [at |-> "check", ip |-> ip]]
  /\ UNCHANGED <<count, ttl, lock, wrong, opened, stops, orphan>>

\* Variant: the lock is not looked at.
Check_skipped(h) ==
  /\ login[h].at = "check"
  /\ Go(h, "verify")
  /\ UNCHANGED <<count, ttl, lock, wrong, opened, stops, orphan>>

\* is_locked_out_any_ip
Check(h) ==
  /\ login[h].at = "check"
  /\ Go(h, IF lock > 0 THEN "idle" ELSE "verify")
  /\ UNCHANGED <<count, ttl, lock, wrong, opened, stops, orphan>>

\* Redis does not answer: the lock is looked for in the process's own memory,
\* which knows those that it made itself.
CheckFails(h) ==
  /\ login[h].at = "check" /\ stops < MaxStops
  /\ stops' = stops + 1 /\ Go(h, "verify")
  /\ UNCHANGED <<count, ttl, lock, wrong, opened, orphan>>

\* svc_login: the password is right or wrong.
Verify(h, right) ==
  /\ login[h].at = "verify"
  /\ Go(h, IF right THEN "clear" ELSE "fail")
  /\ wrong' = IF right THEN wrong ELSE [wrong EXCEPT ![login[h].ip] = @ + 1]
  /\ UNCHANGED <<count, ttl, lock, opened, stops, orphan>>

AfterFailure(n) == IF n >= Failures THEN "lock" ELSE "idle"

\* Variant: only a second failure sets the time to live.
Fail_late(h) ==
  LET ip == login[h].ip IN
  /\ login[h].at = "fail"
  /\ count' = [count EXCEPT ![ip] = @ + 1]
  /\ Go(h, IF count[ip] = 1 THEN "expire" ELSE AfterFailure(count[ip] + 1))
  /\ UNCHANGED <<ttl, lock, wrong, opened, stops, orphan>>

\* register_login_failure: _incr, its first command ...
Fail(h) ==
  LET ip == login[h].ip IN
  /\ login[h].at = "fail"
  /\ count' = [count EXCEPT ![ip] = @ + 1]
  /\ Go(h, IF count[ip] = 0 THEN "expire" ELSE AfterFailure(count[ip] + 1))
  /\ UNCHANGED <<ttl, lock, wrong, opened, stops, orphan>>

\* ... and its second, on a count of 1, unless that is cleared meanwhile.
Expire(h) ==
  /\ login[h].at = "expire"
  /\ ttl' = [ttl EXCEPT ![login[h].ip] = IF count[login[h].ip] > 0 THEN Window ELSE 0]
  /\ Go(h, AfterFailure(1))
  /\ UNCHANGED <<count, lock, wrong, opened, stops, orphan>>

\* _apply_lockout: account_locked; no code asks for the lock of the pair.
Lock(h) ==
  /\ login[h].at = "lock"
  /\ lock' = Duration
  /\ Go(h, "idle")
  /\ UNCHANGED <<count, ttl, wrong, opened, stops, orphan>>

\* clear_login_failures: the count of this address ...
Clear(h) ==
  LET ip == login[h].ip IN
  /\ login[h].at = "clear"
  /\ count' = [count EXCEPT ![ip] = 0]
  /\ ttl' = [ttl EXCEPT ![ip] = 0]
  /\ wrong' = [wrong EXCEPT ![ip] = 0]
  /\ opened' = [opened EXCEPT ![ip] = 0]
  /\ orphan' = orphan \ {ip}
  /\ Go(h, "unlock")
  /\ UNCHANGED <<lock, stops>>

\* ... and the lock, whoever caused it; the other addresses keep their count.
Unlock(h) ==
  /\ login[h].at = "unlock"
  /\ lock' = 0
  /\ opened' = IF lock = 0 THEN opened
               ELSE [ip \in Ips |-> IF count[ip] >= Failures THEN opened[ip] + 1 ELSE opened[ip]]
  /\ Go(h, "idle")
  /\ UNCHANGED <<count, ttl, wrong, stops, orphan>>

\* The process stops, or Redis does not answer a later command: the request
\* ends, or goes on without what the command should do.
Stop(h) ==
  LET at == login[h].at IN
  /\ stops < MaxStops /\ at # "idle"
  /\ stops' = stops + 1
  /\ orphan' = IF at \in {"expire", "lock"} THEN orphan \cup {login[h].ip} ELSE orphan
  /\ Go(h, "idle")
  /\ UNCHANGED <<count, ttl, lock, wrong, opened>>

\* Time passes between the commands of no request.
Tick ==
  /\ \A h \in Handlers : login[h] = Idle
  /\ LET over == {ip \in Ips : ttl[ip] = 1}
         anew(f) == [ip \in Ips |-> IF ip \in over THEN 0 ELSE f[ip]] IN
     /\ ttl' = [ip \in Ips |-> IF ttl[ip] > 0 THEN ttl[ip] - 1 ELSE 0]
     /\ count' = [ip \in Ips |-> IF ip \in over THEN 0 ELSE count[ip]]
     /\ wrong' = anew(wrong) /\ opened' = anew(opened)
     /\ orphan' = orphan \ over
  /\ lock' = IF lock > 0 THEN lock - 1 ELSE 0
  /\ UNCHANGED <<login, stops>>

Next ==
  \/ Tick
  \/ \E h \in Handlers :
       \/ \E ip \in Ips : Begin(h, ip)
       \/ Check(h) \/ CheckFails(h)
       \/ \E right \in BOOLEAN : Verify(h, right)
       \/ Fail(h) \/ Expire(h) \/ Lock(h)
       \/ Clear(h) \/ Unlock(h) \/ Stop(h)

Spec == Init /\ [][Next]_vars

-----------------------------------------------------------------------------
TypeOK ==
  /\ count \in [Ips -> Nat] /\ ttl \in [Ips -> 0 .. Window]
  /\ lock \in 0 .. Duration /\ stops \in 0 .. MaxStops /\ orphan \subseteq Ips
  /\ wrong \in [Ips -> Nat] /\ opened \in [Ips -> Nat]
  /\ login \in [Handlers -> [at : Steps \cup {"idle"}, ip : Ips]]

\* Someone who guesses from one address has at most Failures tries while its
\* count lasts, and those of requests that passed the check together with
\* the last one; a right password that ends a lock gives as many again.
\* A request that stopped before it was counted adds one, as does one that
\* passed the check because Redis did not answer; a count left without its
\* lock or without a time to live is left out.
GuessesBounded ==
  \A ip \in Ips : ip \notin orphan =>
    wrong[ip] <= Failures - 1 + Cardinality(Handlers) * (opened[ip] + 1) + stops

\* A lock that has run out leaves no full count behind, so whoever waited has
\* all the tries again: only a lock ended by a right password, or a request
\* that stopped half-way, leaves one.
FreshStart ==
  \A ip \in Ips :
    count[ip] >= Failures /\ lock = 0 =>
      \/ ip \in orphan \/ opened[ip] > 0
      \/ \E h \in Handlers : login[h].ip = ip /\ login[h].at \in {"expire", "lock"}

\* A count that never runs out, which blocks its address for good once it is
\* full, comes only from a request that stopped between the two commands.
CountsRunOut ==
  \A ip \in Ips : count[ip] > 0 /\ ttl[ip] = 0 =>
    \/ ip \in orphan
    \/ \E h \in Handlers : login[h].at = "expire" /\ login[h].ip = ip

\* Whoever waits gets in again: counts run out, and a lock that has run out
\* leaves no full count, unless a request stopped half-way.
WaitingHelps == FreshStart /\ CountsRunOut
=============================================================================
