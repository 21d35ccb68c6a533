-------------------------- MODULE RateLimits_proofs --------------------------
(***************************************************************************)
(* The lockout for any number of requests, addresses and tries.            *)
(*                                                                         *)
(* Outlasts: a lock lasts at least as long as every full count, because    *)
(* who fills a count, or finds it full, makes a new lock.  Counted: who    *)
(* passed the check will be counted, and who fills a count will lock; so   *)
(* without a lock a count exceeds its bound by no more than those who are  *)
(* about to lock, and each lock that is ended early lets every request     *)
(* through once more.  Some of those that stopped, or met no answer, were  *)
(* not counted and the others came through a lock: each is one of the two. *)
(***************************************************************************)
EXTENDS RateLimits, FiniteSetTheorems, TLAPS

Login == [at : Steps \cup {"idle"}, ip : Ips]

\* How many requests from an address are at one of the steps.
At(l, ip, steps) == {h \in Handlers : l[h].ip = ip /\ l[h].at \in steps}
Num(l, ip, steps) == Cardinality(At(l, ip, steps))

Passed == {"verify", "fail"}
\* Those that will lock: with one failure allowed, the first does.
Locking == IF Failures = 1 THEN {"expire", "lock"} ELSE {"lock"}

Bound(n) == Failures - 1 + Cardinality(Handlers) * n

Outlasts ==
  lock > 0 => \A ip \in Ips : ip \notin orphan /\ count[ip] >= Failures =>
    \/ \E h \in Handlers : login[h].ip = ip /\ login[h].at \in Locking
    \/ /\ ttl[ip] <= lock
       /\ (\E h \in Handlers : login[h].ip = ip /\ login[h].at = "expire") => lock = Duration

\* The room there is for tries when n requests came through a lock.
Room(ip, n) ==
  /\ wrong[ip] <= count[ip] + Num(login, ip, {"fail"}) + stops - n
  /\ count[ip] + Num(login, ip, Passed) <= Bound(opened[ip] + 1) + n
  /\ lock = 0 => count[ip] <= Bound(opened[ip]) + Num(login, ip, Locking) + (IF opened[ip] > 0 THEN n ELSE 0)

Counted == \A ip \in Ips : ip \notin orphan => \E n \in 0 .. stops : Room(ip, n)

Inv == TypeOK /\ CountsRunOut /\ Outlasts /\ Counted

-----------------------------------------------------------------------------
(* Numbers of requests.                                                    *)

\* The bound grows by the number of requests.
LEMMA BoundGrows ==
  ASSUME RateLimitsAssumption, NEW n \in Nat
  PROVE  /\ Bound(n) \in Nat /\ Bound(n + 1) = Bound(n) + Cardinality(Handlers)
         /\ Failures - 1 <= Bound(n) /\ Cardinality(Handlers) \in Nat
<1>1. Cardinality(Handlers) \in Nat /\ Failures - 1 \in Nat
  BY FS_CardinalityType DEF RateLimitsAssumption
<1>2. Cardinality(Handlers) * n \in Nat /\ Cardinality(Handlers) * (n + 1) = Cardinality(Handlers) * n + Cardinality(Handlers)
  BY <1>1
<1> QED
  BY <1>1, <1>2 DEF Bound

\* There are no more requests than there are.
LEMMA NumType ==
  ASSUME RateLimitsAssumption, NEW l, NEW ip, NEW steps
  PROVE  IsFiniteSet(At(l, ip, steps)) /\ Num(l, ip, steps) \in Nat /\ Num(l, ip, steps) <= Cardinality(Handlers)
<1>1. At(l, ip, steps) \subseteq Handlers /\ IsFiniteSet(Handlers)
  BY DEF At, RateLimitsAssumption
<1> QED
  BY <1>1, FS_Subset, FS_CardinalityType DEF Num

\* None of them is at two steps.
LEMMA NumDisjoint ==
  ASSUME RateLimitsAssumption, NEW l, NEW ip
  PROVE  Num(l, ip, Passed) + Num(l, ip, Locking) <= Cardinality(Handlers)
<1>1. At(l, ip, Passed) \cap At(l, ip, Locking) = {} /\ At(l, ip, Passed) \cup At(l, ip, Locking) \subseteq Handlers
  BY DEF At, Passed, Locking
<1>2. /\ Cardinality(At(l, ip, Passed) \cup At(l, ip, Locking)) = Num(l, ip, Passed) + Num(l, ip, Locking) - Cardinality({})
      /\ Num(l, ip, Passed) \in Nat /\ Num(l, ip, Locking) \in Nat
  BY <1>1, NumType, FS_Union DEF Num
<1>3. Cardinality(At(l, ip, Passed) \cup At(l, ip, Locking)) <= Cardinality(Handlers)
  BY <1>1, FS_Subset DEF RateLimitsAssumption
<1> QED
  BY <1>2, <1>3, FS_EmptySet

\* An idle request.
LEMMA IdleTyped == ASSUME RateLimitsAssumption PROVE Idle \in Login /\ Idle.at = "idle"
<1>1. (CHOOSE ip \in Ips : TRUE) \in Ips
  BY DEF RateLimitsAssumption
<1> QED
  BY <1>1 DEF Idle, Login

\* A request goes from a step to another one.
LEMMA GoMoves ==
  ASSUME RateLimitsAssumption, login \in [Handlers -> Login], NEW h \in Handlers,
         NEW to \in Steps \cup {"idle"}, Go(h, to)
  PROVE  /\ login' \in [Handlers -> Login]
         /\ login'[h].at = to /\ (to # "idle" => login'[h].ip = login[h].ip)
         /\ \A g \in Handlers \ {h} : login'[g] = login[g]
<1>1. CASE to = "idle"
  BY <1>1, IdleTyped DEF Go
<1>2. CASE to # "idle"
  BY <1>2 DEF Go, Login
<1> QED
  BY <1>1, <1>2

\* How the numbers change when it does.
LEMMA GoCounts ==
  ASSUME RateLimitsAssumption, login \in [Handlers -> Login], NEW h \in Handlers,
         NEW to \in Steps \cup {"idle"}, Go(h, to), NEW ip, NEW steps, "idle" \notin steps
  PROVE  LET left == IF login[h].ip = ip /\ login[h].at \in steps THEN 1 ELSE 0
             came == IF login[h].ip = ip /\ to \in steps THEN 1 ELSE 0 IN
         Num(login', ip, steps) = Num(login, ip, steps) - left + came
<1> DEFINE others == At(login, ip, steps) \ {h}
<1>1. /\ login'[h].at = to /\ (to # "idle" => login'[h].ip = login[h].ip)
      /\ \A g \in Handlers \ {h} : login'[g] = login[g]
  BY GoMoves
<1>2. At(login', ip, steps) = IF login[h].ip = ip /\ to \in steps THEN others \cup {h} ELSE others
  BY <1>1 DEF At
<1>3. IsFiniteSet(At(login, ip, steps)) /\ Cardinality(At(login, ip, steps)) \in Nat
  BY NumType DEF Num
<1>4. IsFiniteSet(others) /\ Cardinality(others) = IF h \in At(login, ip, steps) THEN Cardinality(At(login, ip, steps)) - 1 ELSE Cardinality(At(login, ip, steps))
  BY <1>3, FS_RemoveElement
<1>5. Cardinality(others \cup {h}) = Cardinality(others) + 1
  BY <1>4, FS_AddElement
<1>6. h \in At(login, ip, steps) <=> login[h].ip = ip /\ login[h].at \in steps
  BY DEF At
<1> HIDE DEF others
<1> QED
  BY <1>2, <1>3, <1>4, <1>5, <1>6 DEF Num

-----------------------------------------------------------------------------
(* The steps of a request.                                                 *)

\* What the types say of the numbers.
LEMMA Types ==
  ASSUME RateLimitsAssumption, TypeOK
  PROVE  /\ login \in [Handlers -> Login]
         /\ Failures \in Nat \ {0} /\ Window \in Nat \ {0} /\ Duration \in Nat \ {0} /\ Window <= Duration
         /\ lock \in Nat /\ lock <= Duration /\ stops \in Nat
         /\ \A ip \in Ips : /\ count[ip] \in Nat /\ wrong[ip] \in Nat /\ opened[ip] \in Nat
                            /\ ttl[ip] \in Nat /\ ttl[ip] <= Window
BY DEF RateLimitsAssumption, TypeOK, Login

\* A step that changes no count and no lock, and no number but of those that
\* passed the check, keeps what is said of the others.
LEMMA Quiet ==
  ASSUME RateLimitsAssumption, Inv, NEW h \in Handlers,
         login[h].at # "expire", login' \in [Handlers -> Login],
         \A g \in Handlers \ {h} : login'[g] = login[g],
         UNCHANGED <<count, ttl, orphan>>
  PROVE  CountsRunOut'
<1> SUFFICES ASSUME NEW ip \in Ips, count[ip] > 0, ttl[ip] = 0, ip \notin orphan
             PROVE  \E g \in Handlers : login'[g].at = "expire" /\ login'[g].ip = ip
  BY DEF CountsRunOut
<1>1. PICK g \in Handlers : login[g].at = "expire" /\ login[g].ip = ip
  BY DEF Inv, CountsRunOut
<1> QED
  BY <1>1

\* Nor does such a step touch what is said of the lock, unless the request
\* was about to make one.
LEMMA QuietLock ==
  ASSUME RateLimitsAssumption, Inv, NEW h \in Handlers,
         login[h].at \notin {"expire", "lock"}, login' \in [Handlers -> Login],
         login'[h].at \notin {"expire", "lock"},
         \A g \in Handlers \ {h} : login'[g] = login[g],
         UNCHANGED <<count, ttl, lock, orphan>>
  PROVE  Outlasts'
<1> SUFFICES ASSUME lock > 0, NEW ip \in Ips, ip \notin orphan, count[ip] >= Failures
             PROVE  \/ \E g \in Handlers : login'[g].ip = ip /\ login'[g].at \in Locking
                    \/ /\ ttl[ip] <= lock
                       /\ (\E g \in Handlers : login'[g].ip = ip /\ login'[g].at = "expire") => lock = Duration
  BY DEF Outlasts
<1>1. \A g \in Handlers : login[g].at \in {"expire", "lock"} \/ login'[g].at \in {"expire", "lock"} => login'[g] = login[g]
  OBVIOUS
<1>2. Locking \subseteq {"expire", "lock"}
  BY DEF Locking
<1>3. CASE \E g \in Handlers : login[g].ip = ip /\ login[g].at \in Locking
  BY <1>1, <1>2, <1>3
<1>4. CASE ~\E g \in Handlers : login[g].ip = ip /\ login[g].at \in Locking
  BY <1>1, <1>4 DEF Inv, Outlasts
<1> QED
  BY <1>3, <1>4

\* What is known of one address.
LEMMA Numbers ==
  ASSUME RateLimitsAssumption, Inv, NEW ip \in Ips
  PROVE  /\ count[ip] \in Nat /\ wrong[ip] \in Nat /\ opened[ip] \in Nat /\ lock \in Nat /\ stops \in Nat
         /\ Failures \in Nat \ {0} /\ Cardinality(Handlers) \in Nat
         /\ Bound(opened[ip]) \in Nat /\ Failures - 1 <= Bound(opened[ip])
         /\ Bound(opened[ip] + 1) = Bound(opened[ip]) + Cardinality(Handlers)
         /\ \A steps : Num(login, ip, steps) \in Nat /\ Num(login', ip, steps) \in Nat
                        /\ Num(login', ip, steps) <= Cardinality(Handlers)
<1>1. /\ count[ip] \in Nat /\ wrong[ip] \in Nat /\ opened[ip] \in Nat /\ lock \in Nat /\ stops \in Nat
      /\ Failures \in Nat \ {0}
  BY Types DEF Inv
<1>2. /\ Bound(opened[ip]) \in Nat /\ Failures - 1 <= Bound(opened[ip])
      /\ Bound(opened[ip] + 1) = Bound(opened[ip]) + Cardinality(Handlers) /\ Cardinality(Handlers) \in Nat
  BY <1>1, BoundGrows
<1>3. \A steps : Num(login, ip, steps) \in Nat /\ Num(login', ip, steps) \in Nat
                 /\ Num(login', ip, steps) <= Cardinality(Handlers)
  BY NumType
<1> QED
  BY <1>1, <1>2, <1>3

\* A request comes.
LEMMA BeginInv ==
  ASSUME RateLimitsAssumption, Inv, NEW h \in Handlers, NEW ip \in Ips, Begin(h, ip)
  PROVE  Inv'
<1>1. login \in [Handlers -> Login] /\ login[h].at = "idle"
  BY Types, IdleTyped DEF Inv, Begin
<1>2. /\ login' \in [Handlers -> Login] /\ login'[h].at = "check"
      /\ \A g \in Handlers \ {h} : login'[g] = login[g]
  BY <1>1 DEF Begin, Login, Steps
<1>3. TypeOK'
  BY <1>2 DEF Begin, Inv, TypeOK, Login
<1>4. CountsRunOut'
  BY <1>1, <1>2, Quiet DEF Begin
<1>5. Outlasts'
  BY <1>1, <1>2, QuietLock DEF Begin
<1>6. \A i, steps : steps \in {{"fail"}, Passed, Locking} => Num(login', i, steps) = Num(login, i, steps)
  BY <1>1, <1>2 DEF Num, At, Passed, Locking
<1>7. Counted'
  BY <1>6 DEF Begin, Inv, Counted, Room, Bound
<1> QED
  BY <1>3, <1>4, <1>5, <1>7 DEF Inv

\* It is let through only without a lock.
LEMMA CheckInv ==
  ASSUME RateLimitsAssumption, Inv, NEW h \in Handlers, Check(h)
  PROVE  Inv'
<1>1. /\ login \in [Handlers -> Login] /\ login[h].at = "check"
      /\ UNCHANGED <<count, ttl, lock, wrong, opened, stops, orphan>>
  BY Types DEF Inv, Check
<1>2. PICK to \in {"idle", "verify"} : Go(h, to) /\ (to = "verify" => lock = 0)
  BY Types DEF Check, Inv
<1>3. /\ login' \in [Handlers -> Login] /\ login'[h].at = to
      /\ \A g \in Handlers \ {h} : login'[g] = login[g]
  BY <1>1, <1>2, GoMoves DEF Steps
<1>4. TypeOK'
  BY <1>1, <1>3 DEF Inv, TypeOK, Login
<1>5. CountsRunOut'
  BY <1>1, <1>3, Quiet
<1>6. Outlasts'
  BY <1>1, <1>3, QuietLock
<1>7. Counted'
  <2> SUFFICES ASSUME NEW ip \in Ips, ip \notin orphan, NEW n \in 0 .. stops, Room(ip, n)
               PROVE  Room(ip, n)'
    BY <1>1 DEF Inv, Counted
  <2>1. Num(login', ip, {"fail"}) = Num(login, ip, {"fail"}) /\ Num(login', ip, Locking) = Num(login, ip, Locking)
    <3>1. "idle" \notin {"fail"} /\ "idle" \notin Locking /\ "check" \notin Locking /\ "verify" \notin Locking
      BY DEF Locking
    <3>2. Num(login, ip, {"fail"}) \in Nat /\ Num(login, ip, Locking) \in Nat
      BY NumType
    <3> QED
      BY <1>1, <1>2, <3>1, <3>2, GoCounts DEF Steps
  <2>2. Num(login', ip, Passed) = Num(login, ip, Passed) \/ lock = 0
    <3>1. "idle" \notin Passed /\ "check" \notin Passed
      BY DEF Passed
    <3> QED
      BY <1>1, <1>2, <3>1, GoCounts, NumType DEF Steps
  <2>3. Num(login', ip, Passed) + Num(login', ip, Locking) <= Cardinality(Handlers)
    BY NumDisjoint
  <2> QED
    BY <1>1, <2>1, <2>2, <2>3, Numbers DEF Room
<1> QED
  BY <1>4, <1>5, <1>6, <1>7 DEF Inv

\* It goes on without an answer, and may come through a lock.
LEMMA CheckFailsInv ==
  ASSUME RateLimitsAssumption, Inv, NEW h \in Handlers, CheckFails(h)
  PROVE  Inv'
<1>1. /\ login \in [Handlers -> Login] /\ login[h].at = "check" /\ Go(h, "verify")
      /\ UNCHANGED <<count, ttl, lock, wrong, opened, orphan>> /\ stops' = stops + 1
  BY Types DEF Inv, CheckFails
<1>2. /\ login' \in [Handlers -> Login] /\ login'[h].at = "verify"
      /\ \A g \in Handlers \ {h} : login'[g] = login[g]
  BY <1>1, GoMoves DEF Steps
<1>3. TypeOK'
  <2>1. stops' \in 0 .. MaxStops
    BY <1>1 DEF CheckFails, Inv, TypeOK, RateLimitsAssumption
  <2> QED
    BY <1>1, <1>2, <2>1 DEF Inv, TypeOK, Login
<1>4. CountsRunOut'
  BY <1>1, <1>2, Quiet
<1>5. Outlasts'
  BY <1>1, <1>2, QuietLock
<1>6. Counted'
  <2> SUFFICES ASSUME NEW ip \in Ips, ip \notin orphan, NEW n \in 0 .. stops, Room(ip, n)
               PROVE  n + 1 \in 0 .. stops' /\ Room(ip, n + 1)'
    BY <1>1 DEF Inv, Counted
  <2>1. Num(login', ip, {"fail"}) = Num(login, ip, {"fail"}) /\ Num(login', ip, Locking) = Num(login, ip, Locking)
    <3>1. "check" \notin Locking /\ "verify" \notin Locking /\ "idle" \notin Locking
      BY DEF Locking
    <3> QED
      BY <1>1, <3>1, GoCounts, Numbers DEF Steps
  <2>2. Num(login', ip, Passed) <= Num(login, ip, Passed) + 1
    <3>1. "idle" \notin Passed
      BY DEF Passed
    <3> QED
      BY <1>1, <3>1, GoCounts, Numbers DEF Steps
  <2> QED
    BY <1>1, <2>1, <2>2, Numbers DEF Room
<1> QED
  BY <1>3, <1>4, <1>5, <1>6 DEF Inv

\* A wrong password is counted with those that will be counted; a right one
\* never is.
LEMMA VerifyInv ==
  ASSUME RateLimitsAssumption, Inv, NEW h \in Handlers, NEW right \in BOOLEAN, Verify(h, right)
  PROVE  Inv'
<1>1. /\ login \in [Handlers -> Login] /\ login[h].at = "verify"
      /\ UNCHANGED <<count, ttl, lock, opened, stops, orphan>>
      /\ wrong \in [Ips -> Nat]
  BY Types DEF Inv, Verify, TypeOK
<1>2. PICK to \in {"clear", "fail"} :
        Go(h, to) /\ wrong' = IF to = "clear" THEN wrong ELSE [wrong EXCEPT ![login[h].ip] = @ + 1]
  BY DEF Verify
<1>3. /\ login' \in [Handlers -> Login] /\ login'[h].at = to
      /\ \A g \in Handlers \ {h} : login'[g] = login[g]
  BY <1>1, <1>2, GoMoves DEF Steps
<1>4. TypeOK'
  <2>1. wrong' \in [Ips -> Nat]
    <3>1. login[h].ip \in Ips
      BY <1>1 DEF Login
    <3>2. wrong[login[h].ip] + 1 \in Nat
      BY <1>1, <3>1
    <3> QED
      BY <1>1, <1>2, <3>2
  <2> QED
    BY <1>1, <1>3, <2>1 DEF Inv, TypeOK, Login
<1>5. CountsRunOut'
  BY <1>1, <1>3, Quiet
<1>6. Outlasts'
  BY <1>1, <1>3, QuietLock
<1>7. Counted'
  <2> SUFFICES ASSUME NEW ip \in Ips, ip \notin orphan, NEW n \in 0 .. stops, Room(ip, n)
               PROVE  Room(ip, n)'
    BY <1>1 DEF Inv, Counted
  <2>1. Num(login', ip, Locking) = Num(login, ip, Locking)
    <3>1. "idle" \notin Locking /\ "verify" \notin Locking /\ "clear" \notin Locking /\ "fail" \notin Locking
      BY DEF Locking
    <3> QED
      BY <1>1, <1>2, <3>1, GoCounts, Numbers DEF Steps
  <2>2. Num(login', ip, Passed) <= Num(login, ip, Passed)
    <3>1. "idle" \notin Passed /\ "verify" \in Passed
      BY DEF Passed
    <3> QED
      BY <1>1, <1>2, <3>1, GoCounts, Numbers DEF Steps
  <2>3. wrong'[ip] - wrong[ip] = Num(login', ip, {"fail"}) - Num(login, ip, {"fail"})
    BY <1>1, <1>2, GoCounts, Numbers DEF Steps
  <2> QED
    BY <1>1, <1>2, <2>1, <2>2, <2>3, Numbers DEF Room
<1> QED
  BY <1>4, <1>5, <1>6, <1>7 DEF Inv

\* A failure is counted; who fills the count, or finds it full, will lock.
LEMMA FailInv ==
  ASSUME RateLimitsAssumption, Inv, NEW h \in Handlers, Fail(h)
  PROVE  Inv'
<1>1. /\ login \in [Handlers -> Login] /\ login[h].at = "fail" /\ login[h].ip \in Ips
      /\ UNCHANGED <<ttl, lock, wrong, opened, stops, orphan>>
      /\ count \in [Ips -> Nat] /\ Failures \in Nat \ {0}
  BY Types DEF Inv, Fail, TypeOK, Login
<1>2. PICK to \in {"expire", "lock", "idle"} :
        /\ Go(h, to) /\ count' = [count EXCEPT ![login[h].ip] = @ + 1]
        /\ to = "expire" <=> count[login[h].ip] = 0
        /\ to = "idle" => count[login[h].ip] + 1 < Failures
  <2>1. count[login[h].ip] \in Nat
    BY <1>1
  <2> QED
    BY <1>1, <2>1 DEF Fail, AfterFailure
<1>3. /\ login' \in [Handlers -> Login] /\ login'[h].at = to
      /\ to # "idle" => login'[h].ip = login[h].ip
      /\ \A g \in Handlers \ {h} : login'[g] = login[g]
  BY <1>1, <1>2, GoMoves DEF Steps
<1>4. TypeOK'
  <2>1. count' \in [Ips -> Nat]
    BY <1>1, <1>2
  <2> QED
    BY <1>1, <1>3, <2>1 DEF Inv, TypeOK, Login
<1>5. CountsRunOut'
  <2> SUFFICES ASSUME NEW ip \in Ips, count'[ip] > 0, ttl[ip] = 0, ip \notin orphan
               PROVE  \E g \in Handlers : login'[g].at = "expire" /\ login'[g].ip = ip
    BY <1>1 DEF CountsRunOut
  <2>1. CASE count[ip] > 0
    <3>1. PICK g \in Handlers : login[g].at = "expire" /\ login[g].ip = ip
      BY <2>1 DEF Inv, CountsRunOut
    <3> QED
      BY <1>1, <1>3, <3>1
  <2>2. CASE ~(count[ip] > 0)
    BY <1>1, <1>2, <1>3, <2>2
  <2> QED
    BY <2>1, <2>2
<1>6. Outlasts'
  <2> SUFFICES ASSUME lock > 0, NEW ip \in Ips, ip \notin orphan, count'[ip] >= Failures
               PROVE  \/ \E g \in Handlers : login'[g].ip = ip /\ login'[g].at \in Locking
                      \/ /\ ttl[ip] <= lock
                         /\ (\E g \in Handlers : login'[g].ip = ip /\ login'[g].at = "expire") => lock = Duration
    BY <1>1 DEF Outlasts
  <2>1. CASE login[h].ip = ip
    <3>1. to \in Locking
      BY <1>1, <1>2, <2>1, Numbers DEF Locking
    <3> QED
      BY <1>2, <1>3, <2>1, <3>1, GoMoves DEF Locking
  <2>2. CASE login[h].ip # ip
    <3>1. count[ip] >= Failures
      BY <1>1, <1>2, <2>2
    <3>2. \A g \in Handlers : login'[g].ip = ip /\ login'[g].at # "idle" => login'[g] = login[g]
      BY <1>1, <1>2, <1>3, <2>2, GoMoves
    <3>3. \A g \in Handlers : login[g].ip = ip => login'[g] = login[g]
      BY <1>3, <2>2
    <3> QED
      BY <3>1, <3>2, <3>3 DEF Inv, Outlasts
  <2> QED
    BY <2>1, <2>2
<1>7. Counted'
  <2> SUFFICES ASSUME NEW ip \in Ips, ip \notin orphan, NEW n \in 0 .. stops, Room(ip, n)
               PROVE  Room(ip, n)'
    BY <1>1 DEF Inv, Counted
  <2>1. count'[ip] = count[ip] + (IF login[h].ip = ip THEN 1 ELSE 0)
    BY <1>1, <1>2
  <2>2. Num(login', ip, {"fail"}) = Num(login, ip, {"fail"}) - (IF login[h].ip = ip THEN 1 ELSE 0)
    BY <1>1, <1>2, GoCounts, Numbers DEF Steps
  <2>3. Num(login', ip, Passed) = Num(login, ip, Passed) - (IF login[h].ip = ip THEN 1 ELSE 0)
    <3>1. "idle" \notin Passed /\ "fail" \in Passed /\ "expire" \notin Passed /\ "lock" \notin Passed
      BY DEF Passed
    <3> QED
      BY <1>1, <1>2, <3>1, GoCounts, Numbers DEF Steps
  <2>4. Num(login', ip, Locking) = Num(login, ip, Locking) + (IF login[h].ip = ip /\ to \in Locking THEN 1 ELSE 0)
    <3>1. "idle" \notin Locking /\ "fail" \notin Locking
      BY DEF Locking
    <3> QED
      BY <1>1, <1>2, <3>1, GoCounts, Numbers DEF Steps
  <2>5. login[h].ip = ip => to \in Locking \/ count'[ip] < Failures
    BY <1>1, <1>2, <2>1 DEF Locking
  <2> QED
    BY <1>1, <2>1, <2>2, <2>3, <2>4, <2>5, Numbers DEF Room
<1> QED
  BY <1>4, <1>5, <1>6, <1>7 DEF Inv

\* The count gets its time to live; if one failure is enough, a lock follows.
LEMMA ExpireInv ==
  ASSUME RateLimitsAssumption, Inv, NEW h \in Handlers, Expire(h)
  PROVE  Inv'
<1>1. /\ login \in [Handlers -> Login] /\ login[h].at = "expire" /\ login[h].ip \in Ips
      /\ UNCHANGED <<count, lock, wrong, opened, stops, orphan>>
      /\ ttl' = [ttl EXCEPT ![login[h].ip] = IF count[login[h].ip] > 0 THEN Window ELSE 0] /\ ttl \in [Ips -> 0 .. Window]
      /\ Window \in Nat \ {0} /\ Failures \in Nat \ {0}
  BY Types DEF Inv, Expire, TypeOK, Login
<1>2. PICK to \in {"lock", "idle"} : Go(h, to) /\ (to = "lock" <=> Failures = 1)
  BY <1>1 DEF Expire, AfterFailure
<1>3. /\ login' \in [Handlers -> Login] /\ login'[h].at = to
      /\ \A g \in Handlers \ {h} : login'[g] = login[g]
  BY <1>1, <1>2, GoMoves DEF Steps
<1>4. TypeOK'
  <2>1. ttl' \in [Ips -> 0 .. Window]
    BY <1>1
  <2> QED
    BY <1>1, <1>3, <2>1 DEF Inv, TypeOK, Login
<1>5. CountsRunOut'
  <2> SUFFICES ASSUME NEW ip \in Ips, count[ip] > 0, ttl'[ip] = 0, ip \notin orphan
               PROVE  \E g \in Handlers : login'[g].at = "expire" /\ login'[g].ip = ip
    BY <1>1 DEF CountsRunOut
  <2>1. ip # login[h].ip /\ ttl[ip] = 0
    BY <1>1
  <2>2. PICK g \in Handlers : login[g].at = "expire" /\ login[g].ip = ip
    BY <2>1 DEF Inv, CountsRunOut
  <2> QED
    BY <1>3, <2>1, <2>2
<1>6. Outlasts'
  <2> SUFFICES ASSUME lock > 0, NEW ip \in Ips, ip \notin orphan, count[ip] >= Failures
               PROVE  \/ \E g \in Handlers : login'[g].ip = ip /\ login'[g].at \in Locking
                      \/ /\ ttl'[ip] <= lock
                         /\ (\E g \in Handlers : login'[g].ip = ip /\ login'[g].at = "expire") => lock = Duration
    BY <1>1 DEF Outlasts
  <2>1. ASSUME NEW g \in Handlers, login[g].ip = ip, login[g].at \in Locking
        PROVE  login'[g].ip = ip /\ login'[g].at \in Locking
    <3>1. CASE g = h
      <4>1. Failures = 1 /\ to = "lock"
        BY <1>1, <1>2, <2>1, <3>1 DEF Locking
      <4> QED
        BY <1>1, <1>2, <1>3, <2>1, <3>1, <4>1, GoMoves DEF Steps, Locking
    <3> QED
      BY <1>3, <2>1, <3>1
  <2>2. CASE \E g \in Handlers : login[g].ip = ip /\ login[g].at \in Locking
    BY <2>1, <2>2
  <2>3. CASE ~\E g \in Handlers : login[g].ip = ip /\ login[g].at \in Locking
    <3>1. /\ ttl[ip] <= lock
          /\ (\E g \in Handlers : login[g].ip = ip /\ login[g].at = "expire") => lock = Duration
      BY <2>3 DEF Inv, Outlasts
    <3>2. ttl'[ip] <= lock
      <4>1. CASE ip = login[h].ip
        BY <1>1, <3>1, <4>1, Types DEF Inv
      <4>2. CASE ip # login[h].ip
        BY <1>1, <3>1, <4>2
      <4> QED
        BY <4>1, <4>2
    <3>3. \A g \in Handlers : login'[g].at = "expire" => login'[g] = login[g]
      BY <1>2, <1>3
    <3> QED
      BY <3>1, <3>2, <3>3
  <2> QED
    BY <2>2, <2>3
<1>7. Counted'
  <2> SUFFICES ASSUME NEW ip \in Ips, ip \notin orphan, NEW n \in 0 .. stops, Room(ip, n)
               PROVE  Room(ip, n)'
    BY <1>1 DEF Inv, Counted
  <2>1. Num(login', ip, {"fail"}) = Num(login, ip, {"fail"})
    BY <1>1, <1>2, GoCounts, Numbers DEF Steps
  <2>2. Num(login', ip, Passed) = Num(login, ip, Passed)
    <3>1. "idle" \notin Passed /\ "expire" \notin Passed /\ "lock" \notin Passed
      BY DEF Passed
    <3> QED
      BY <1>1, <1>2, <3>1, GoCounts, Numbers DEF Steps
  <2>3. Num(login', ip, Locking) = Num(login, ip, Locking)
    <3>1. "idle" \notin Locking /\ ("expire" \in Locking <=> to \in Locking)
      BY <1>2 DEF Locking
    <3> QED
      BY <1>1, <1>2, <3>1, GoCounts, Numbers DEF Steps
  <2> QED
    BY <1>1, <2>1, <2>2, <2>3, Numbers DEF Room
<1> QED
  BY <1>4, <1>5, <1>6, <1>7 DEF Inv

\* The lock is new and lasts longer than any count.
LEMMA LockInv ==
  ASSUME RateLimitsAssumption, Inv, NEW h \in Handlers, Lock(h)
  PROVE  Inv'
<1>1. /\ login \in [Handlers -> Login] /\ login[h].at = "lock" /\ Go(h, "idle")
      /\ UNCHANGED <<count, ttl, wrong, opened, stops, orphan>> /\ lock' = Duration
      /\ Duration \in Nat \ {0} /\ Window \in Nat /\ Window <= Duration
      /\ \A ip \in Ips : ttl[ip] \in Nat /\ ttl[ip] <= Window
  BY Types DEF Inv, Lock
<1>2. /\ login' \in [Handlers -> Login] /\ login'[h].at = "idle"
      /\ \A g \in Handlers \ {h} : login'[g] = login[g]
  BY <1>1, GoMoves DEF Steps
<1>3. TypeOK'
  BY <1>1, <1>2 DEF Inv, TypeOK, Login
<1>4. CountsRunOut'
  BY <1>1, <1>2, Quiet
<1>5. Outlasts'
  <2>1. \A ip \in Ips : ttl[ip] <= lock'
    BY <1>1
  <2> QED
    BY <1>1, <2>1 DEF Outlasts
<1>6. Counted'
  <2> SUFFICES ASSUME NEW ip \in Ips, ip \notin orphan, NEW n \in 0 .. stops, Room(ip, n)
               PROVE  Room(ip, n)'
    BY <1>1 DEF Inv, Counted
  <2>1. Num(login', ip, {"fail"}) = Num(login, ip, {"fail"}) /\ Num(login', ip, Passed) = Num(login, ip, Passed)
    <3>1. "idle" \notin Passed /\ "lock" \notin Passed
      BY DEF Passed
    <3> QED
      BY <1>1, <3>1, GoCounts, Numbers DEF Steps
  <2> QED
    BY <1>1, <2>1, Numbers DEF Room
<1> QED
  BY <1>3, <1>4, <1>5, <1>6 DEF Inv

\* An address that is cleared starts again; the requests that passed the
\* check are within the bound of a new count.
LEMMA ClearInv ==
  ASSUME RateLimitsAssumption, Inv, NEW h \in Handlers, Clear(h)
  PROVE  Inv'
<1> PICK c : c = login[h].ip
  OBVIOUS
<1>1. /\ login \in [Handlers -> Login] /\ login[h].at = "clear" /\ c \in Ips /\ Go(h, "unlock")
      /\ UNCHANGED <<lock, stops>> /\ orphan' = orphan \ {c}
      /\ \A ip \in Ips \ {c} : /\ count'[ip] = count[ip] /\ ttl'[ip] = ttl[ip]
                               /\ wrong'[ip] = wrong[ip] /\ opened'[ip] = opened[ip]
      /\ count'[c] = 0 /\ ttl'[c] = 0 /\ wrong'[c] = 0 /\ opened'[c] = 0
  BY Types DEF Inv, Clear, TypeOK, Login
<1>2. /\ login' \in [Handlers -> Login] /\ login'[h].at = "unlock"
      /\ \A g \in Handlers \ {h} : login'[g] = login[g]
  BY <1>1, GoMoves DEF Steps
<1>3. TypeOK'
  <2>1. /\ count' \in [Ips -> Nat] /\ wrong' \in [Ips -> Nat] /\ opened' \in [Ips -> Nat]
        /\ ttl' \in [Ips -> 0 .. Window]
    BY Types DEF Inv, Clear, TypeOK
  <2> QED
    BY <1>1, <1>2, <2>1 DEF Inv, TypeOK, Login
<1>4. CountsRunOut'
  <2> SUFFICES ASSUME NEW ip \in Ips \ {c}, count[ip] > 0, ttl[ip] = 0, ip \notin orphan
               PROVE  \E g \in Handlers : login'[g].at = "expire" /\ login'[g].ip = ip
    BY <1>1 DEF CountsRunOut
  <2>1. PICK g \in Handlers : login[g].at = "expire" /\ login[g].ip = ip
    BY DEF Inv, CountsRunOut
  <2> QED
    BY <1>1, <1>2, <2>1
<1>5. Outlasts'
  <2> SUFFICES ASSUME lock > 0, NEW ip \in Ips \ {c}, ip \notin orphan, count[ip] >= Failures
               PROVE  \/ \E g \in Handlers : login'[g].ip = ip /\ login'[g].at \in Locking
                      \/ /\ ttl[ip] <= lock
                         /\ (\E g \in Handlers : login'[g].ip = ip /\ login'[g].at = "expire") => lock = Duration
    BY <1>1, Numbers DEF Outlasts
  <2>1. \A g \in Handlers : login[g].ip = ip \/ login'[g].at \in {"expire", "lock"} => login'[g] = login[g]
    BY <1>1, <1>2
  <2>2. CASE \E g \in Handlers : login[g].ip = ip /\ login[g].at \in Locking
    BY <2>1, <2>2
  <2>3. CASE ~\E g \in Handlers : login[g].ip = ip /\ login[g].at \in Locking
    BY <2>1, <2>3 DEF Inv, Outlasts
  <2> QED
    BY <2>2, <2>3
<1>6. Counted'
  <2> SUFFICES ASSUME NEW ip \in Ips, ip \notin orphan'
               PROVE  \E n \in 0 .. stops : Room(ip, n)'
    BY <1>1 DEF Counted
  <2>1. CASE ip = c
    <3>1. Bound(0) \in Nat /\ Bound(1) = Bound(0) + Cardinality(Handlers)
      BY BoundGrows
    <3>2. 0 + 1 = 1 /\ 0 \in 0 .. stops
      BY Numbers
    <3>3. Room(ip, 0)'
      BY <1>1, <2>1, <3>1, <3>2, Numbers DEF Room
    <3> QED
      BY <3>2, <3>3
  <2>2. CASE ip # c
    <3>1. "unlock" \notin Passed /\ "clear" \notin Passed /\ "unlock" \notin Locking /\ "clear" \notin Locking
          /\ "idle" \notin Passed /\ "idle" \notin Locking
      BY DEF Passed, Locking
    <3>2. /\ Num(login', ip, {"fail"}) = Num(login, ip, {"fail"}) /\ Num(login', ip, Passed) = Num(login, ip, Passed)
          /\ Num(login', ip, Locking) = Num(login, ip, Locking)
      BY <1>1, <3>1, GoCounts, Numbers DEF Steps
    <3>3. PICK n \in 0 .. stops : Room(ip, n)
      BY <1>1, <2>2 DEF Inv, Counted
    <3>4. Room(ip, n)'
      BY <1>1, <2>2, <3>2, <3>3, Numbers DEF Room
    <3> QED
      BY <3>4
  <2> QED
    BY <2>1, <2>2
<1> QED
  BY <1>3, <1>4, <1>5, <1>6 DEF Inv

\* A lock that is ended is noted with every count that is full.
LEMMA UnlockInv ==
  ASSUME RateLimitsAssumption, Inv, NEW h \in Handlers, Unlock(h)
  PROVE  Inv'
<1>1. /\ login \in [Handlers -> Login] /\ login[h].at = "unlock" /\ Go(h, "idle") /\ lock' = 0
      /\ UNCHANGED <<count, ttl, wrong, stops, orphan>>
      /\ opened \in [Ips -> Nat]
  BY Types DEF Inv, Unlock, TypeOK
<1>2. /\ login' \in [Handlers -> Login] /\ login'[h].at = "idle"
      /\ \A g \in Handlers \ {h} : login'[g] = login[g]
  BY <1>1, GoMoves DEF Steps
<1>3. \A ip \in Ips : opened'[ip] = IF lock # 0 /\ count[ip] >= Failures THEN opened[ip] + 1 ELSE opened[ip]
  BY <1>1 DEF Unlock
<1>4. TypeOK'
  <2>1. opened' \in [Ips -> Nat]
    BY <1>1 DEF Unlock
  <2>2. lock' \in 0 .. Duration
    BY <1>1, Types DEF Inv
  <2> QED
    BY <1>1, <1>2, <2>1, <2>2 DEF Inv, TypeOK, Login
<1>5. CountsRunOut'
  BY <1>1, <1>2, Quiet
<1>6. Outlasts'
  BY <1>1 DEF Outlasts
<1>7. Counted'
  <2> SUFFICES ASSUME NEW ip \in Ips, ip \notin orphan, NEW n \in 0 .. stops, Room(ip, n)
               PROVE  Room(ip, n)'
    BY <1>1 DEF Inv, Counted
  <2>1. /\ Num(login', ip, {"fail"}) = Num(login, ip, {"fail"}) /\ Num(login', ip, Passed) = Num(login, ip, Passed)
        /\ Num(login', ip, Locking) = Num(login, ip, Locking)
    <3>1. "unlock" \notin Passed /\ "unlock" \notin Locking /\ "idle" \notin Passed /\ "idle" \notin Locking
      BY DEF Passed, Locking
    <3> QED
      BY <1>1, <3>1, GoCounts, Numbers DEF Steps
  <2>2. CASE lock # 0 /\ count[ip] >= Failures
    <3>1. opened'[ip] = opened[ip] + 1 /\ opened[ip] + 1 \in Nat
      BY <1>1, <1>3, <2>2
    <3>2. Bound(opened[ip] + 1 + 1) = Bound(opened[ip] + 1) + Cardinality(Handlers)
      BY <3>1, BoundGrows
    <3> QED
      BY <1>1, <2>1, <3>1, <3>2, Numbers DEF Room
  <2>3. CASE ~(lock # 0 /\ count[ip] >= Failures)
    <3>1. opened'[ip] = opened[ip]
      BY <1>3, <2>3
    <3>2. lock = 0 \/ count[ip] <= Failures - 1
      BY <2>3, Numbers
    <3> QED
      BY <1>1, <2>1, <3>1, <3>2, Numbers DEF Room
  <2> QED
    BY <2>2, <2>3
<1> QED
  BY <1>4, <1>5, <1>6, <1>7 DEF Inv

\* Who stops before the count adds a try, who stops after it an orphan.
LEMMA StopInv ==
  ASSUME RateLimitsAssumption, Inv, NEW h \in Handlers, Stop(h)
  PROVE  Inv'
<1> PICK at, c : at = login[h].at /\ c = login[h].ip
  OBVIOUS
<1>1. /\ login \in [Handlers -> Login] /\ at # "idle" /\ c \in Ips /\ Go(h, "idle")
      /\ UNCHANGED <<count, ttl, lock, wrong, opened>> /\ stops' = stops + 1
      /\ orphan' = IF at \in {"expire", "lock"} THEN orphan \cup {c} ELSE orphan
  BY Types DEF Inv, Stop, Login
<1>2. /\ login' \in [Handlers -> Login] /\ login'[h].at = "idle"
      /\ \A g \in Handlers \ {h} : login'[g] = login[g]
  BY <1>1, GoMoves DEF Steps
<1>3. TypeOK'
  <2>1. stops' \in 0 .. MaxStops
    BY <1>1 DEF Stop, Inv, TypeOK, RateLimitsAssumption
  <2>2. orphan' \subseteq Ips
    BY <1>1 DEF Inv, TypeOK
  <2> QED
    BY <1>1, <1>2, <2>1, <2>2 DEF Inv, TypeOK, Login
<1>4. CountsRunOut'
  <2> SUFFICES ASSUME NEW ip \in Ips, count[ip] > 0, ttl[ip] = 0, ip \notin orphan'
               PROVE  \E g \in Handlers : login'[g].at = "expire" /\ login'[g].ip = ip
    BY <1>1 DEF CountsRunOut
  <2>1. PICK g \in Handlers : login[g].at = "expire" /\ login[g].ip = ip
    BY <1>1 DEF Inv, CountsRunOut
  <2> QED
    BY <1>1, <1>2, <2>1
<1>5. Outlasts'
  <2> SUFFICES ASSUME lock > 0, NEW ip \in Ips, ip \notin orphan', count[ip] >= Failures
               PROVE  \/ \E g \in Handlers : login'[g].ip = ip /\ login'[g].at \in Locking
                      \/ /\ ttl[ip] <= lock
                         /\ (\E g \in Handlers : login'[g].ip = ip /\ login'[g].at = "expire") => lock = Duration
    BY <1>1 DEF Outlasts
  <2>1. ASSUME NEW g \in Handlers, login[g].ip = ip, login[g].at \in Locking PROVE login'[g] = login[g]
    BY <1>1, <1>2, <2>1 DEF Locking
  <2>2. \A g \in Handlers : login'[g].at = "expire" => login'[g] = login[g]
    BY <1>2
  <2>3. ip \notin orphan
    BY <1>1
  <2>4. CASE \E g \in Handlers : login[g].ip = ip /\ login[g].at \in Locking
    BY <2>1, <2>4
  <2>5. CASE ~\E g \in Handlers : login[g].ip = ip /\ login[g].at \in Locking
    BY <2>2, <2>3, <2>5 DEF Inv, Outlasts
  <2> QED
    BY <2>4, <2>5
<1>6. Counted'
  <2> SUFFICES ASSUME NEW ip \in Ips, ip \notin orphan', NEW n \in 0 .. stops, Room(ip, n)
               PROVE  n \in 0 .. stops' /\ Room(ip, n)'
    BY <1>1 DEF Inv, Counted
  <2>1. Num(login', ip, {"fail"}) >= Num(login, ip, {"fail"}) - 1
    BY <1>1, GoCounts, Numbers DEF Steps
  <2>2. Num(login', ip, Passed) <= Num(login, ip, Passed)
    <3>1. "idle" \notin Passed
      BY DEF Passed
    <3> QED
      BY <1>1, <3>1, GoCounts, Numbers DEF Steps
  <2>3. Num(login', ip, Locking) = Num(login, ip, Locking)
    <3>1. "idle" \notin Locking /\ (at \in Locking => c # ip)
      BY <1>1 DEF Locking
    <3> QED
      BY <1>1, <3>1, GoCounts, Numbers DEF Steps
  <2> QED
    BY <1>1, <2>1, <2>2, <2>3, Numbers DEF Room
<1> QED
  BY <1>3, <1>4, <1>5, <1>6 DEF Inv

\* When the lock runs out every count has, or has no time to live.
LEMMA TickInv ==
  ASSUME RateLimitsAssumption, Inv, Tick
  PROVE  Inv'
<1>1. /\ UNCHANGED <<login, stops>> /\ lock' = IF lock > 0 THEN lock - 1 ELSE 0
      /\ \A h \in Handlers : login[h].at = "idle"
  BY IdleTyped DEF Tick
<1>2. \A ip \in Ips : ttl[ip] = 1 =>
        count'[ip] = 0 /\ wrong'[ip] = 0 /\ opened'[ip] = 0 /\ ip \notin orphan'
  BY DEF Tick
<1>3. \A ip \in Ips : ttl[ip] # 1 =>
        /\ count'[ip] = count[ip] /\ wrong'[ip] = wrong[ip] /\ opened'[ip] = opened[ip]
        /\ (ip \in orphan' <=> ip \in orphan)
  BY DEF Tick
<1>4. \A ip \in Ips : /\ ttl'[ip] = IF ttl[ip] > 0 THEN ttl[ip] - 1 ELSE 0
                      /\ ttl[ip] \in 0 .. Window /\ ttl[ip] \in Nat
  BY Types DEF Tick, Inv, TypeOK
<1>5. \A ip \in Ips : ttl[ip] = 0 /\ ip \notin orphan => count[ip] = 0
  BY <1>1, Types DEF Inv, CountsRunOut
<1>6. lock \in Nat /\ Duration \in Nat /\ lock <= Duration /\ lock' \in Nat
  BY <1>1, Types DEF Inv
<1>7. TypeOK'
  <2>1. \A ip \in Ips : /\ count'[ip] \in Nat /\ wrong'[ip] \in Nat /\ opened'[ip] \in Nat
                        /\ ttl'[ip] \in 0 .. Window
    BY <1>2, <1>3, <1>4, Types DEF Inv
  <2>2. /\ count' = [ip \in Ips |-> count'[ip]] /\ wrong' = [ip \in Ips |-> wrong'[ip]]
        /\ opened' = [ip \in Ips |-> opened'[ip]] /\ ttl' = [ip \in Ips |-> ttl'[ip]]
    BY DEF Tick
  <2>3. /\ count' \in [Ips -> Nat] /\ wrong' \in [Ips -> Nat] /\ opened' \in [Ips -> Nat]
        /\ ttl' \in [Ips -> 0 .. Window]
    BY <2>1, <2>2
  <2>4. lock' \in 0 .. Duration /\ orphan' \subseteq Ips
    BY <1>1, <1>6 DEF Tick, Inv, TypeOK
  <2> QED
    BY <1>1, <2>3, <2>4 DEF Inv, TypeOK
<1>8. CountsRunOut'
  <2> SUFFICES ASSUME NEW ip \in Ips, count'[ip] > 0, ttl'[ip] = 0, ip \notin orphan'
               PROVE  FALSE
    BY DEF CountsRunOut
  <2>1. ttl[ip] # 1
    BY <1>2
  <2> QED
    BY <1>3, <1>4, <1>5, <2>1
<1>9. Outlasts'
  <2> SUFFICES ASSUME lock' > 0, NEW ip \in Ips, ip \notin orphan', count'[ip] >= Failures
               PROVE  ttl'[ip] <= lock'
    BY <1>1 DEF Outlasts
  <2>1. ttl[ip] # 1 /\ lock > 0
    BY <1>1, <1>2, <1>6, Numbers
  <2>2. ip \notin orphan /\ count[ip] >= Failures
    BY <1>3, <2>1
  <2>3. ttl[ip] <= lock
    BY <1>1, <2>1, <2>2 DEF Inv, Outlasts, Locking
  <2> QED
    BY <1>1, <1>4, <1>6, <2>1, <2>3
<1>10. Counted'
  <2> SUFFICES ASSUME NEW ip \in Ips, ip \notin orphan'
               PROVE  \E n \in 0 .. stops : Room(ip, n)'
    BY <1>1 DEF Counted
  <2>1. CASE ttl[ip] = 1
    <3>1. Bound(0) \in Nat /\ Bound(0 + 1) = Bound(0) + Cardinality(Handlers) /\ 0 \in 0 .. stops
      BY BoundGrows, Numbers
    <3>2. Num(login, ip, Passed) <= Cardinality(Handlers)
      BY NumType
    <3>3. Room(ip, 0)'
      BY <1>1, <1>2, <2>1, <3>1, <3>2, Numbers DEF Room
    <3> QED
      BY <3>1, <3>3
  <2>2. CASE ttl[ip] # 1
    <3>1. ip \notin orphan
      BY <1>3, <2>2
    <3>2. PICK n \in 0 .. stops : Room(ip, n)
      BY <3>1 DEF Inv, Counted
    <3>3. lock' = 0 => lock = 0 \/ count[ip] <= Failures - 1
      <4> SUFFICES ASSUME lock = 1, count[ip] >= Failures PROVE FALSE
        BY <1>1, <1>6, Numbers
      <4>1. ttl[ip] <= lock
        BY <1>1, <3>1 DEF Inv, Outlasts, Locking
      <4>2. count[ip] = 0
        BY <1>4, <1>5, <2>2, <3>1, <4>1
      <4> QED
        BY <4>2, Numbers
    <3>4. Room(ip, n)'
      BY <1>1, <1>3, <2>2, <3>2, <3>3, Numbers DEF Room
    <3> QED
      BY <3>4
  <2> QED
    BY <2>1, <2>2
<1> QED
  BY <1>7, <1>8, <1>9, <1>10 DEF Inv

-----------------------------------------------------------------------------

\* The invariant holds in every state.
LEMMA Invariance == ASSUME RateLimitsAssumption PROVE Spec => []Inv
<1>1. Init => Inv
  <2> SUFFICES ASSUME Init PROVE Inv
    OBVIOUS
  <2>1. login \in [Handlers -> Login] /\ \A h \in Handlers : login[h].at = "idle"
    BY IdleTyped DEF Init
  <2>2. TypeOK
    BY <2>1 DEF Init, TypeOK, Login, RateLimitsAssumption
  <2>3. CountsRunOut /\ Outlasts
    BY <2>1 DEF Init, CountsRunOut, Outlasts
  <2>4. Counted
    <3> SUFFICES ASSUME NEW ip \in Ips PROVE 0 \in 0 .. stops /\ Room(ip, 0)
      BY DEF Counted
    <3>1. Bound(0) \in Nat /\ Bound(0 + 1) = Bound(0) + Cardinality(Handlers) /\ Cardinality(Handlers) \in Nat
      BY BoundGrows
    <3>2. /\ Num(login, ip, {"fail"}) \in Nat /\ Num(login, ip, Locking) \in Nat
          /\ Num(login, ip, Passed) \in Nat /\ Num(login, ip, Passed) <= Cardinality(Handlers)
      BY NumType
    <3> QED
      BY <3>1, <3>2 DEF Init, Room
  <2> QED
    BY <2>2, <2>3, <2>4 DEF Inv
<1>2. RateLimitsAssumption /\ Inv /\ [Next]_vars => Inv'
  <2> SUFFICES ASSUME RateLimitsAssumption, Inv, [Next]_vars PROVE Inv'
    OBVIOUS
  <2>1. CASE Next
    <3>1. CASE Tick
      BY <3>1, TickInv
    <3>2. CASE \E h \in Handlers : \E ip \in Ips : Begin(h, ip)
      BY <3>2, BeginInv
    <3>3. CASE \E h \in Handlers : \E right \in BOOLEAN : Verify(h, right)
      BY <3>3, VerifyInv
    <3>4. CASE \E h \in Handlers : Check(h) \/ CheckFails(h) \/ Fail(h) \/ Expire(h) \/ Lock(h)
      BY <3>4, CheckInv, CheckFailsInv, FailInv, ExpireInv, LockInv
    <3>5. CASE \E h \in Handlers : Clear(h) \/ Unlock(h) \/ Stop(h)
      BY <3>5, ClearInv, UnlockInv, StopInv
    <3> QED
      BY <2>1, <3>1, <3>2, <3>3, <3>4, <3>5 DEF Next
  <2>2. CASE UNCHANGED vars
    BY <2>2 DEF vars, Inv, TypeOK, CountsRunOut, Outlasts, Counted, Room, Bound
  <2> QED
    BY <2>1, <2>2
<1> QED
  BY <1>1, <1>2, PTL DEF Spec

\* The counts, the lock and the requests are well typed.
THEOREM TypeCorrect == ASSUME RateLimitsAssumption PROVE Spec => []TypeOK
<1>1. Inv => TypeOK
  BY DEF Inv
<1> QED
  BY <1>1, Invariance, PTL

\* Whoever guesses from one address has a bounded number of tries while its
\* count lasts, whatever the number of requests and their order
\* (is_locked_out_any_ip, register_login_failure, clear_login_failures).
THEOREM FewGuesses == ASSUME RateLimitsAssumption PROVE Spec => []GuessesBounded
<1>1. RateLimitsAssumption /\ Inv => GuessesBounded
  <2> SUFFICES ASSUME RateLimitsAssumption, Inv, NEW ip \in Ips, ip \notin orphan
               PROVE  wrong[ip] <= Bound(opened[ip] + 1) + stops
    BY DEF GuessesBounded, Bound
  <2>1. Num(login, ip, {"fail"}) <= Num(login, ip, Passed)
    <3>1. At(login, ip, {"fail"}) \subseteq At(login, ip, Passed)
      BY DEF At, Passed
    <3> QED
      BY <3>1, NumType, FS_Subset DEF Num
  <2>2. PICK n \in 0 .. stops : Room(ip, n)
    BY DEF Inv, Counted
  <2> QED
    BY <2>1, <2>2, Numbers DEF Room
<1> QED
  BY <1>1, Invariance, PTL

\* A count runs out, and a lock that has run out leaves no full count, unless
\* a request stopped between two commands (_incr, _apply_lockout).
THEOREM WaitingIsEnough == ASSUME RateLimitsAssumption PROVE Spec => []WaitingHelps
<1>1. RateLimitsAssumption /\ Inv => FreshStart
  <2> SUFFICES ASSUME RateLimitsAssumption, Inv, NEW ip \in Ips,
                      count[ip] >= Failures, lock = 0, ip \notin orphan, ~(opened[ip] > 0)
               PROVE  \E h \in Handlers : login[h].ip = ip /\ login[h].at \in {"expire", "lock"}
    BY DEF FreshStart
  <2>1. opened[ip] = 0 /\ Bound(0) = Failures - 1
    <3>1. opened[ip] = 0 /\ Cardinality(Handlers) \in Nat /\ Failures \in Nat
      BY Numbers
    <3>2. Cardinality(Handlers) * 0 = 0
      BY <3>1
    <3> QED
      BY <3>1, <3>2 DEF Bound
  <2>2. Num(login, ip, Locking) # 0
    <3>1. PICK n \in 0 .. stops : Room(ip, n)
      BY DEF Inv, Counted
    <3> QED
      BY <2>1, <3>1, Numbers DEF Room
  <2>3. At(login, ip, Locking) # {}
    BY <2>2, FS_EmptySet DEF Num
  <2> QED
    BY <2>3 DEF At, Locking
<1>2. Inv => CountsRunOut
  BY DEF Inv
<1> QED
  BY <1>1, <1>2, Invariance, PTL DEF WaitingHelps
=============================================================================
