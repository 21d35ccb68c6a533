---------------------------- MODULE SignIn_proofs ----------------------------
(***************************************************************************)
(* Proofs about signing in, for every value of the constants: the account  *)
(* (Accounts, which Platform extends), the list of its sessions, and the   *)
(* tokens in the browser.                                                  *)
(***************************************************************************)
EXTENDS Platform, FiniteSetTheorems, TLAPS

-----------------------------------------------------------------------------
(* One account, for any number of requests, pairs and changes.             *)
(*                                                                         *)
(* Typed adds to the types that a request in refresh_tokens names a pair.  *)
(* Fresh is why no old password is accepted: whatever carries a version    *)
(* carries one the row has had, and with the version the row has now goes  *)
(* the password it has now.  It rests on credential changes that do not    *)
(* overlap.  Rotations counts, for each refresh token, the pairs it gave   *)
(* together with the requests that may still give one.                     *)

Refreshing(h) == req[h].at \in {"load", "rotate"}

Typed == TypeOK /\ \A h \in Handlers : Refreshing(h) => req[h].tok \in DOMAIN pairs

\* What carries version ver and stands for password pw.
Current(ver, pw) == ver <= row.ver /\ (ver = row.ver => pw = row.pw)

FreshPairs == \A j \in DOMAIN pairs : Current(pairs[j].ver, pairs[j].pw)

FreshRequests ==
  \A h \in Handlers :
    /\ req[h].at = "rotate" => req[h].ver = pairs[req[h].tok].ver
    /\ req[h].at = "reissue" => Current(req[h].ver, req[h].pw)
    /\ Changing(h) => req[h].ver = row.ver /\ \A g \in Handlers : Changing(g) => g = h

Fresh == FreshPairs /\ FreshRequests

Children(j) == {k \in DOMAIN pairs : pairs[k].parent = j}
Holders(j) == {h \in Handlers : Refreshing(h) /\ req[h].tok = j}

Rotations ==
  \A j \in Nat \ {0} :
    /\ Cardinality(Children(j)) + Cardinality(Holders(j)) <= Cardinality(Handlers)
    /\ j \notin revoked => Children(j) = {}

-----------------------------------------------------------------------------
(* Types.                                                                  *)

\* A request that does nothing.
LEMMA IdleTyped == Idle \in Request /\ Idle.at = "idle"
BY DEF Idle, Request, Changes

\* What issuing a pair leaves and adds.
LEMMA IssueAdds ==
  ASSUME pairs \in Seq(Pair), NEW ver \in Nat, NEW pw \in Nat, NEW parent \in Nat,
         Issue(ver, pw, parent)
  PROVE  LET k == Len(pairs) + 1 IN
         /\ pairs' \in Seq(Pair)
         /\ k \notin DOMAIN pairs /\ DOMAIN pairs' = DOMAIN pairs \cup {k}
         /\ pairs'[k].ver = ver /\ pairs'[k].pw = pw /\ pairs'[k].parent = parent
         /\ \A j \in DOMAIN pairs : pairs'[j] = pairs[j]
<1> DEFINE p == [ver |-> ver, pw |-> pw, parent |-> parent]
<1>1. p \in Pair
  BY DEF Pair
<1>2. pairs' = Append(pairs, p)
  BY DEF Issue
<1> HIDE DEF p
<1>3. /\ pairs' \in Seq(Pair)
      /\ Len(pairs) + 1 \notin DOMAIN pairs /\ DOMAIN pairs' = DOMAIN pairs \cup {Len(pairs) + 1}
      /\ pairs'[Len(pairs) + 1] = p
      /\ \A j \in DOMAIN pairs : pairs'[j] = pairs[j]
  BY <1>1, <1>2
<1> QED
  BY <1>3 DEF p

\* Requests that read or start something.
LEMMA TypedReads ==
  ASSUME AccountsAssumption, Typed, NEW h \in Handlers,
         \/ RefreshLoad(h) \/ Reload(h) \/ Reset(h) \/ Commit(h)
         \/ \E j \in DOMAIN pairs : RefreshCheck(h, j) \/ \E what \in Changes : Change(h, j, what)
  PROVE  Typed'
<1>1. row \in Row /\ req \in [Handlers -> Request] /\ pairs \in Seq(Pair)
  BY DEF Typed, TypeOK
<1>2. CASE RefreshLoad(h)
  BY <1>1, <1>2, IdleTyped DEF RefreshLoad, Typed, TypeOK, Refreshing, Request, Row
<1>3. CASE Reload(h)
  <2>1. row.ver \in Nat /\ row.pw \in Nat
    BY <1>1 DEF Row
  <2>2. req' \in [Handlers -> Request] /\ \A g \in Handlers : Refreshing(g)' => Refreshing(g) /\ req'[g] = req[g]
    <3> DEFINE holds == [req[h] EXCEPT !.at = "reissue", !.ver = row.ver, !.pw = row.pw]
    <3>1. holds \in Request /\ holds.at = "reissue"
      BY <1>1, <2>1 DEF Request
    <3>2. req' = [req EXCEPT ![h] = holds]
      BY <1>1, <1>3 DEF Reload, Request
    <3> HIDE DEF holds
    <3> QED
      BY <1>1, <3>1, <3>2 DEF Refreshing
  <2> QED
    BY <1>3, <2>2 DEF Reload, Typed, TypeOK
<1>4. ASSUME NEW what \in Changes, StartChange(h, what) PROVE Typed'
  <2> DEFINE begun == [Idle EXCEPT !.at = "commit", !.op = what, !.ver = row.ver]
  <2>1. row.ver \in Nat
    BY <1>1 DEF Row
  <2>2. begun \in Request /\ begun.at = "commit"
    BY <2>1 DEF Idle, Request
  <2>3. req' = [req EXCEPT ![h] = begun]
    BY <1>4 DEF StartChange
  <2> HIDE DEF begun
  <2>4. req' \in [Handlers -> Request] /\ \A g \in Handlers : Refreshing(g)' => Refreshing(g) /\ req'[g] = req[g]
    BY <1>1, <2>2, <2>3 DEF Refreshing
  <2> QED
    BY <1>4, <2>4 DEF StartChange, Typed, TypeOK
<1>5. CASE Commit(h)
  <2>1. row' \in Row
    <3>1. NewVersion(h) \in Nat
      BY <1>1 DEF NewVersion, Request
    <3>2. row.pw \in Nat /\ row.pw + 1 \in Nat
      BY <1>1 DEF Row
    <3>3. \E pw \in Nat : row' = [row EXCEPT !.ver = NewVersion(h), !.pw = pw]
      BY <1>5, <3>2 DEF Commit
    <3> QED
      BY <1>1, <3>1, <3>3 DEF Row
  <2>2. req' \in [Handlers -> Request] /\ \A g \in Handlers : Refreshing(g)' => Refreshing(g) /\ req'[g].tok = req[g].tok
    BY <1>1, <1>5, IdleTyped DEF Commit, Refreshing, Request
  <2> QED
    BY <1>5, <2>1, <2>2 DEF Commit, Typed, TypeOK
<1>6. ASSUME NEW j \in DOMAIN pairs, RefreshCheck(h, j) PROVE Typed'
  <2> DEFINE begun == [Idle EXCEPT !.at = "load", !.tok = j]
  <2>1. begun \in Request /\ begun.tok = j
    <3>1. j \in Nat
      BY <1>1
    <3> QED
      BY <3>1 DEF Idle, Request, Changes
  <2>2. req' = [req EXCEPT ![h] = begun]
    BY <1>6 DEF RefreshCheck
  <2> HIDE DEF begun
  <2>3. req' \in [Handlers -> Request]
        /\ \A g \in Handlers : req'[g].tok = j \/ req'[g] = req[g]
    BY <1>1, <2>1, <2>2
  <2> QED
    BY <1>6, <2>3 DEF RefreshCheck, Typed, TypeOK, Refreshing
<1> QED
  BY <1>2, <1>3, <1>4, <1>5, <1>6 DEF Reset, Change, Changes

\* Requests that issue a pair.
LEMMA TypedIssues ==
  ASSUME AccountsAssumption, Typed, Login \/ \E h \in Handlers : Rotate(h) \/ Reissue(h)
  PROVE  Typed'
<1>1. row \in Row /\ req \in [Handlers -> Request] /\ pairs \in Seq(Pair) /\ revoked \subseteq DOMAIN pairs
  BY DEF Typed, TypeOK
<1>2. CASE Login
  <2>1. row.ver \in Nat /\ row.pw \in Nat
    BY <1>1 DEF Row
  <2>2. pairs' \in Seq(Pair) /\ DOMAIN pairs \subseteq DOMAIN pairs'
    BY <1>1, <1>2, <2>1, IssueAdds DEF Login
  <2> QED
    BY <1>2, <2>2 DEF Login, Typed, TypeOK, Refreshing
<1>3. ASSUME NEW h \in Handlers, Rotate(h) PROVE Typed'
  <2>1. req[h].ver \in Nat /\ req[h].tok \in Nat /\ req[h].tok \in DOMAIN pairs
    BY <1>1, <1>3 DEF Rotate, Typed, Refreshing, Request
  <2>2. pairs[req[h].tok].pw \in Nat
    <3>1. pairs[req[h].tok] \in Pair
      BY <1>1, <2>1
    <3> QED
      BY <3>1 DEF Pair
  <2>3. pairs' \in Seq(Pair) /\ DOMAIN pairs \subseteq DOMAIN pairs'
    BY <1>1, <1>3, <2>1, <2>2, IssueAdds DEF Rotate
  <2>4. req' \in [Handlers -> Request] /\ \A g \in Handlers : Refreshing(g)' => Refreshing(g) /\ req'[g] = req[g]
    BY <1>1, <1>3, IdleTyped DEF Rotate, Done, Refreshing
  <2>5. revoked' \subseteq DOMAIN pairs'
    BY <1>1, <1>3, <2>1, <2>3 DEF Rotate
  <2> QED
    BY <1>1, <1>3, <2>3, <2>4, <2>5 DEF Rotate, Typed, TypeOK
<1>4. ASSUME NEW h \in Handlers, Reissue(h) PROVE Typed'
  <2>1. req[h].ver \in Nat /\ req[h].pw \in Nat
    BY <1>1 DEF Request
  <2>2. pairs' \in Seq(Pair) /\ DOMAIN pairs \subseteq DOMAIN pairs'
    BY <1>1, <1>4, <2>1, IssueAdds DEF Reissue
  <2>3. req' \in [Handlers -> Request] /\ \A g \in Handlers : Refreshing(g)' => Refreshing(g) /\ req'[g] = req[g]
    BY <1>1, <1>4, IdleTyped DEF Reissue, Done, Refreshing
  <2> QED
    BY <1>1, <1>4, <2>2, <2>3 DEF Reissue, Typed, TypeOK
<1> QED
  BY <1>2, <1>3, <1>4

\* What is done without a request of its own.
LEMMA TypedRest ==
  ASSUME Typed,
         \/ ForgotPassword \/ ResetRunsOut \/ \E b \in BOOLEAN : SetActive(b)
         \/ \E j \in DOMAIN pairs : Logout(j)
  PROVE  Typed'
<1>1. CASE ForgotPassword \/ ResetRunsOut
  BY <1>1 DEF ForgotPassword, ResetRunsOut, Typed, TypeOK, Refreshing
<1>2. CASE \E b \in BOOLEAN : SetActive(b)
  BY <1>2 DEF SetActive, Typed, TypeOK, Refreshing, Row
<1>3. CASE \E j \in DOMAIN pairs : Logout(j)
  BY <1>3 DEF Logout, Typed, TypeOK, Refreshing
<1> QED
  BY <1>1, <1>2, <1>3

\* Every step keeps the types.
LEMMA TypedNext == ASSUME AccountsAssumption, Typed, [Next]_vars PROVE Typed'
<1>1. CASE Next
  BY <1>1, TypedReads, TypedIssues, TypedRest DEF Next
<1>2. CASE UNCHANGED vars
  BY <1>2 DEF vars, Typed, TypeOK, Refreshing
<1> QED
  BY <1>1, <1>2

\* The types hold in every state.
LEMMA TypedInvariance == ASSUME AccountsAssumption PROVE Spec => []Typed
<1>1. Init => Typed
  <2> SUFFICES ASSUME Init PROVE Typed
    OBVIOUS
  <2>1. row \in Row
    BY DEF Init, Row
  <2>2. pairs \in Seq(Pair) /\ revoked \subseteq DOMAIN pairs
    BY DEF Init
  <2>3. req \in [Handlers -> Request] /\ \A h \in Handlers : ~Refreshing(h)
    BY IdleTyped DEF Init, Refreshing
  <2> QED
    BY <2>1, <2>2, <2>3 DEF Init, Typed, TypeOK
<1> QED
  BY <1>1, TypedNext, PTL DEF Spec

\* The row, the pairs and what each request holds are well typed.
THEOREM TypeCorrect == ASSUME AccountsAssumption PROVE Spec => []TypeOK
<1>1. Typed => TypeOK
  BY DEF Typed
<1> QED
  BY <1>1, TypedInvariance, PTL

-----------------------------------------------------------------------------
(* No old password.                                                        *)

\* An issued pair that is current leaves every pair current, and the pairs
\* that requests name as they were.
LEMMA IssueFresh ==
  ASSUME Typed, Fresh, NEW ver \in Nat, NEW pw \in Nat, NEW parent \in Nat,
         Issue(ver, pw, parent), Current(ver, pw), UNCHANGED row,
         \A h \in Handlers : req'[h] = req[h] \/ req'[h] = Idle
  PROVE  Fresh'
<1>1. /\ pairs \in Seq(Pair) /\ DOMAIN pairs' = DOMAIN pairs \cup {Len(pairs) + 1}
      /\ pairs'[Len(pairs) + 1].ver = ver /\ pairs'[Len(pairs) + 1].pw = pw
      /\ \A j \in DOMAIN pairs : pairs'[j] = pairs[j]
  <2>1. pairs \in Seq(Pair)
    BY DEF Typed, TypeOK
  <2> QED
    BY <2>1, IssueAdds
<1>2. FreshPairs'
  BY <1>1 DEF Fresh, FreshPairs, Current
<1>3. FreshRequests'
  <2> SUFFICES ASSUME NEW h \in Handlers
               PROVE  /\ req'[h].at = "rotate" => req'[h].ver = pairs'[req'[h].tok].ver
                      /\ req'[h].at = "reissue" => Current(req[h].ver, req[h].pw)'
                      /\ Changing(h)' => req'[h].ver = row'.ver /\ \A g \in Handlers : Changing(g)' => g = h
    BY DEF FreshRequests
  <2>1. CASE req'[h] = Idle
    BY <2>1, IdleTyped DEF Changing
  <2>2. CASE req'[h] = req[h]
    <3>1. \A g \in Handlers : Changing(g)' => Changing(g)
      BY IdleTyped DEF Changing
    <3>2. req[h].at = "rotate" => req[h].tok \in DOMAIN pairs
      BY DEF Typed, Refreshing
    <3> QED
      BY <1>1, <2>2, <3>1, <3>2 DEF Fresh, FreshRequests, Current, Changing
  <2> QED
    BY <2>1, <2>2
<1> QED
  BY <1>2, <1>3 DEF Fresh

\* The three actions that issue a pair issue a current one.
LEMMA FreshIssues ==
  ASSUME Typed, Fresh, Login \/ \E h \in Handlers : Rotate(h) \/ Reissue(h)
  PROVE  Fresh'
<1>1. row \in Row /\ req \in [Handlers -> Request] /\ pairs \in Seq(Pair)
  BY DEF Typed, TypeOK
<1>2. row.ver \in Nat /\ row.pw \in Nat
  BY <1>1 DEF Row
<1>3. CASE Login
  <2>1. Current(row.ver, row.pw)
    BY <1>2 DEF Current
  <2> QED
    BY <1>2, <1>3, <2>1, IssueFresh DEF Login
<1>4. ASSUME NEW h \in Handlers, Rotate(h) PROVE Fresh'
  <2> DEFINE j == req[h].tok
  <2>1. j \in DOMAIN pairs /\ req[h].ver = pairs[j].ver
    BY <1>4 DEF Rotate, Typed, Refreshing, Fresh, FreshRequests
  <2>2. pairs[j] \in Pair /\ j \in Nat
    BY <1>1, <2>1
  <2>3. Current(req[h].ver, pairs[j].pw)
    BY <2>1 DEF Fresh, FreshPairs
  <2>4. req[h].ver \in Nat /\ pairs[j].pw \in Nat
    BY <2>1, <2>2 DEF Pair
  <2>5. \A g \in Handlers : req'[g] = req[g] \/ req'[g] = Idle
    BY <1>1, <1>4 DEF Rotate, Done
  <2> QED
    BY <1>4, <2>2, <2>3, <2>4, <2>5, IssueFresh DEF Rotate
<1>5. ASSUME NEW h \in Handlers, Reissue(h) PROVE Fresh'
  <2>1. Current(req[h].ver, req[h].pw)
    BY <1>5 DEF Reissue, Fresh, FreshRequests
  <2>2. req[h].ver \in Nat /\ req[h].pw \in Nat
    BY <1>1 DEF Request
  <2>3. \A g \in Handlers : req'[g] = req[g] \/ req'[g] = Idle
    BY <1>1, <1>5 DEF Reissue, Done
  <2> QED
    BY <1>5, <2>1, <2>2, <2>3, IssueFresh DEF Reissue
<1> QED
  BY <1>3, <1>4, <1>5

\* A request that reads the row holds what the row has.
LEMMA FreshReads ==
  ASSUME Typed, Fresh, NEW h \in Handlers,
         RefreshLoad(h) \/ Reload(h) \/ \E j \in DOMAIN pairs : RefreshCheck(h, j)
  PROVE  Fresh'
<1>1. row \in Row /\ req \in [Handlers -> Request] /\ UNCHANGED <<row, pairs>>
  BY DEF Typed, TypeOK, RefreshLoad, Reload, RefreshCheck
<1>2. \A g \in Handlers \ {h} : req'[g] = req[g]
  BY <1>1 DEF RefreshLoad, Reload, RefreshCheck
<1>3. row.ver \in Nat /\ row.pw \in Nat
  BY <1>1 DEF Row
<1>4. /\ req'[h].at \in {"idle", "load", "rotate", "reissue"}
      /\ req'[h].at = "rotate" => req'[h].ver = pairs[req'[h].tok].ver
      /\ req'[h].at = "reissue" => Current(req'[h].ver, req'[h].pw)
  <2>1. CASE RefreshLoad(h)
    <3>1. req'[h] = IF Authenticated(req[h].tok) THEN [req[h] EXCEPT !.at = "rotate", !.ver = row.ver] ELSE Idle
      BY <1>1, <2>1 DEF RefreshLoad
    <3>2. CASE Authenticated(req[h].tok)
      <4>1. req[h] \in Request
        BY <1>1
      <4>2. req'[h].at = "rotate" /\ req'[h].ver = row.ver /\ req'[h].tok = req[h].tok
        BY <3>1, <3>2, <4>1 DEF Request
      <4> QED
        BY <3>2, <4>2 DEF Authenticated
    <3>3. CASE ~Authenticated(req[h].tok)
      BY <3>1, <3>3, IdleTyped
    <3> QED
      BY <3>2, <3>3
  <2>2. CASE Reload(h)
    <3>1. req'[h].at = "reissue" /\ req'[h].ver = row.ver /\ req'[h].pw = row.pw
      BY <1>1, <2>2 DEF Reload, Request
    <3> QED
      BY <1>3, <3>1 DEF Current
  <2>3. ASSUME NEW j \in DOMAIN pairs, RefreshCheck(h, j) PROVE req'[h].at = "load"
    BY <1>1, <2>3 DEF RefreshCheck, Idle
  <2> QED
    BY <2>1, <2>2, <2>3
<1>5. FreshPairs'
  BY <1>1 DEF Fresh, FreshPairs, Current
<1>6. FreshRequests'
  BY <1>1, <1>2, <1>4 DEF Fresh, FreshRequests, Current, Changing
<1> QED
  BY <1>5, <1>6 DEF Fresh

\* A change that starts alone has the version of the row ...
LEMMA FreshStarts ==
  ASSUME SerialChanges, Typed, Fresh, NEW h \in Handlers, NEW what \in Changes, StartChange(h, what)
  PROVE  Fresh'
<1>1. req \in [Handlers -> Request] /\ UNCHANGED <<row, pairs>>
  BY DEF Typed, TypeOK, StartChange
<1>2. req'[h].at = "commit" /\ req'[h].ver = row.ver /\ \A g \in Handlers \ {h} : req'[g] = req[g]
  BY <1>1 DEF StartChange, Idle
<1>3. \A g \in Handlers : ~Changing(g)
  BY DEF StartChange
<1>4. FreshPairs'
  BY <1>1 DEF Fresh, FreshPairs, Current
<1>5. FreshRequests'
  BY <1>1, <1>2, <1>3 DEF Fresh, FreshRequests, Current, Changing
<1> QED
  BY <1>4, <1>5 DEF Fresh

\* ... and when it is committed nothing carries the new version.
LEMMA FreshCommit ==
  ASSUME Typed, Fresh, NEW h \in Handlers, Commit(h)
  PROVE  Fresh'
<1>1. row \in Row /\ pairs \in Seq(Pair) /\ req \in [Handlers -> Request] /\ UNCHANGED pairs
  BY DEF Typed, TypeOK, Commit
<1>2. Changing(h) /\ req[h].ver = row.ver /\ row.ver \in Nat
  BY <1>1 DEF Commit, Changing, Fresh, FreshRequests, Row
<1>3. row'.ver = row.ver + 1
  BY <1>1, <1>2 DEF Commit, NewVersion, Row
<1>4. req'[h].at \in {"idle", "reload"} /\ \A g \in Handlers \ {h} : req'[g] = req[g] /\ ~Changing(g)
  BY <1>1, <1>2, IdleTyped DEF Commit, Fresh, FreshRequests, Request
<1>5. \A ver \in Nat : \A pw : Current(ver, pw) => ver <= row.ver /\ ver # row'.ver /\ ver <= row'.ver
  BY <1>2, <1>3 DEF Current
<1>6. FreshPairs'
  <2> SUFFICES ASSUME NEW j \in DOMAIN pairs PROVE Current(pairs[j].ver, pairs[j].pw)'
    BY <1>1 DEF FreshPairs
  <2>1. pairs[j] \in Pair
    BY <1>1
  <2>2. pairs[j].ver \in Nat /\ Current(pairs[j].ver, pairs[j].pw)
    BY <2>1 DEF Pair, Fresh, FreshPairs
  <2> QED
    BY <1>1, <1>5, <2>2 DEF Current
<1>7. FreshRequests'
  <2> SUFFICES ASSUME NEW g \in Handlers, g # h
               PROVE  /\ req'[g].at = "rotate" => req'[g].ver = pairs'[req'[g].tok].ver
                      /\ req'[g].at = "reissue" => Current(req[g].ver, req[g].pw)'
                      /\ ~Changing(g)'
    BY <1>4 DEF FreshRequests, Changing
  <2>1. req'[g] = req[g] /\ ~Changing(g)
    BY <1>4
  <2>2. req[g].ver \in Nat
    BY <1>1 DEF Request
  <2>3. req[g].at = "reissue" => Current(req[g].ver, req[g].pw)
    BY DEF Fresh, FreshRequests
  <2>4. req[g].at = "reissue" => Current(req[g].ver, req[g].pw)'
    BY <1>5, <2>1, <2>2, <2>3 DEF Current
  <2> QED
    BY <1>1, <2>1, <2>4 DEF Fresh, FreshRequests, Changing
<1> QED
  BY <1>6, <1>7 DEF Fresh

\* Every step keeps what is issued and held fresh.
LEMMA FreshNext ==
  ASSUME SerialChanges, Typed, Fresh, [Next]_vars PROVE Fresh'
<1>1. ASSUME UNCHANGED <<pairs, req>>, row'.ver = row.ver, row'.pw = row.pw PROVE Fresh'
  BY <1>1 DEF Fresh, FreshPairs, FreshRequests, Current, Changing
<1>2. CASE ForgotPassword \/ ResetRunsOut \/ \E j \in DOMAIN pairs : Logout(j)
  BY <1>1, <1>2 DEF ForgotPassword, ResetRunsOut, Logout
<1>3. CASE \E b \in BOOLEAN : SetActive(b)
  <2>1. row'.ver = row.ver /\ row'.pw = row.pw
    BY <1>3 DEF SetActive, Typed, TypeOK, Row
  <2> QED
    BY <1>1, <1>3, <2>1 DEF SetActive
<1>4. CASE UNCHANGED vars
  BY <1>1, <1>4 DEF vars
<1>5. \A h \in Handlers : Reset(h) \/ (\E j \in DOMAIN pairs : \E what \in Changes : Change(h, j, what)) => Fresh'
  BY FreshStarts DEF Reset, Change, Changes
<1> QED
  BY <1>2, <1>3, <1>4, <1>5, FreshIssues, FreshReads, FreshCommit DEF Next

\* When credential changes do not overlap, no pair that is accepted goes back
\* to an old password (get_current_user, change_password, reset_password,
\* refresh_tokens).
THEOREM OldPasswordsEnd ==
  ASSUME AccountsAssumption, SerialChanges PROVE Spec => []AcceptedIsCurrent
<1>1. Init => Fresh
  BY IdleTyped DEF Init, Fresh, FreshPairs, FreshRequests, Changing
<1>2. Fresh => AcceptedIsCurrent
  BY DEF Fresh, FreshPairs, Current, AcceptedIsCurrent
<1> QED
  BY <1>1, <1>2, FreshNext, TypedInvariance, PTL DEF Spec

-----------------------------------------------------------------------------
(* Rotation.                                                               *)

\* There are finitely many of both, at every moment.
LEMMA FewOfBoth ==
  ASSUME AccountsAssumption, Typed, NEW j
  PROVE  IsFiniteSet(Children(j)) /\ IsFiniteSet(Holders(j))
<1>1. DOMAIN pairs = 1 .. Len(pairs) /\ Len(pairs) \in Nat
  BY DEF Typed, TypeOK
<1>2. IsFiniteSet(DOMAIN pairs)
  BY <1>1, FS_Interval
<1>3. Children(j) \subseteq DOMAIN pairs /\ Holders(j) \subseteq Handlers
  BY DEF Children, Holders
<1> QED
  BY <1>2, <1>3, FS_Subset DEF AccountsAssumption

\* A step after which no token has more pairs, or requests that hold it.
LEMMA RotationsStay ==
  ASSUME AccountsAssumption, Typed, Rotations, revoked \subseteq revoked',
         \A j \in Nat \ {0} : Children(j)' = Children(j),
         \A g \in Handlers : Refreshing(g)' => Refreshing(g) /\ req'[g].tok = req[g].tok
  PROVE  Rotations'
<1> SUFFICES ASSUME NEW j \in Nat \ {0}
             PROVE  /\ Cardinality(Children(j)') + Cardinality(Holders(j)') <= Cardinality(Handlers)
                    /\ j \notin revoked' => Children(j)' = {}
  BY DEF Rotations
<1>1. Holders(j)' \subseteq Holders(j)
  BY DEF Holders
<1>2. IsFiniteSet(Holders(j)) /\ IsFiniteSet(Children(j)) /\ IsFiniteSet(Handlers)
  BY FewOfBoth DEF AccountsAssumption
<1>3. IsFiniteSet(Holders(j)') /\ Cardinality(Holders(j)') <= Cardinality(Holders(j))
  BY <1>1, <1>2, FS_Subset
<1>4. /\ Cardinality(Holders(j)') \in Nat /\ Cardinality(Holders(j)) \in Nat
      /\ Cardinality(Children(j)) \in Nat /\ Cardinality(Handlers) \in Nat
  BY <1>2, <1>3, FS_CardinalityType
<1> QED
  BY <1>3, <1>4 DEF Rotations

\* A pair that is issued is a child of its parent only.
LEMMA IssueChildren ==
  ASSUME Typed, NEW ver \in Nat, NEW pw \in Nat, NEW parent \in Nat, Issue(ver, pw, parent)
  PROVE  /\ \A j \in Nat \ {parent} : Children(j)' = Children(j)
         /\ Children(parent)' = Children(parent) \cup {Len(pairs) + 1}
         /\ Len(pairs) + 1 \notin Children(parent)
<1>1. pairs \in Seq(Pair)
  BY DEF Typed, TypeOK
<1> QED
  BY <1>1, IssueAdds DEF Children

\* A token that may still be rotated has no pair yet: every request may hold it.
LEMMA RotationsCheck ==
  ASSUME AccountsAssumption, Typed, Rotations,
         NEW h \in Handlers, NEW t \in DOMAIN pairs, RefreshCheck(h, t)
  PROVE  Rotations'
<1>1. /\ req \in [Handlers -> Request] /\ req'[h].tok = t /\ t \in Nat \ {0}
      /\ \A g \in Handlers \ {h} : req'[g] = req[g]
  BY DEF Typed, TypeOK, RefreshCheck, Idle
<1>2. UNCHANGED <<pairs, revoked>> /\ t \notin revoked /\ ~Refreshing(h)
  BY IdleTyped DEF RefreshCheck, Refreshing
<1> SUFFICES ASSUME NEW j \in Nat \ {0}
             PROVE  Cardinality(Children(j)) + Cardinality(Holders(j)') <= Cardinality(Handlers)
  BY <1>2 DEF Rotations, Children
<1>3. CASE j = t
  <2>1. Children(j) = {}
    BY <1>2, <1>3 DEF Rotations
  <2>2. Holders(j)' \subseteq Handlers /\ IsFiniteSet(Handlers)
    BY DEF Holders, AccountsAssumption
  <2>3. Cardinality(Holders(j)') <= Cardinality(Handlers) /\ Cardinality(Holders(j)') \in Nat
    BY <2>2, FS_Subset, FS_CardinalityType
  <2> QED
    BY <2>1, <2>3, FS_EmptySet
<1>4. CASE j # t
  <2>1. Holders(j)' = Holders(j)
    BY <1>1, <1>2, <1>4 DEF Holders, Refreshing
  <2> QED
    BY <2>1 DEF Rotations
<1> QED
  BY <1>3, <1>4

\* A pair more, and a request less.
LEMMA RotationsRotate ==
  ASSUME AccountsAssumption, Typed, Rotations, NEW h \in Handlers, Rotate(h)
  PROVE  Rotations'
<1> PICK t : t = req[h].tok
  OBVIOUS
<1> PICK k : k = Len(pairs) + 1
  OBVIOUS
<1>1. req \in [Handlers -> Request] /\ pairs \in Seq(Pair)
  BY DEF Typed, TypeOK
<1>2. t \in DOMAIN pairs /\ Refreshing(h)
  BY DEF Rotate, Typed, Refreshing
<1>3. pairs[t] \in Pair /\ t \in Nat \ {0} /\ req[h].ver \in Nat
  BY <1>1, <1>2 DEF Request
<1>4. /\ \A j \in Nat \ {t} : Children(j)' = Children(j)
      /\ Children(t)' = Children(t) \cup {k} /\ k \notin Children(t)
  <2>1. pairs[t].pw \in Nat
    BY <1>3 DEF Pair
  <2>2. Issue(req[h].ver, pairs[t].pw, t)
    BY DEF Rotate
  <2> QED
    BY <1>3, <2>1, <2>2, IssueChildren
<1>5. /\ \A g \in Handlers \ {h} : req'[g] = req[g]
      /\ ~Refreshing(h)'
  BY <1>1, IdleTyped DEF Rotate, Done, Refreshing
<1>6. revoked' = revoked \cup {t}
  BY DEF Rotate
<1> SUFFICES ASSUME NEW j \in Nat \ {0}
             PROVE  /\ Cardinality(Children(j)') + Cardinality(Holders(j)') <= Cardinality(Handlers)
                    /\ j \notin revoked' => Children(j)' = {}
  BY DEF Rotations
<1>7. CASE j = t
  <2>1. Holders(t)' = Holders(t) \ {h} /\ h \in Holders(t)
    BY <1>2, <1>5 DEF Holders, Refreshing
  <2>2. IsFiniteSet(Children(t)) /\ IsFiniteSet(Holders(t)) /\ IsFiniteSet(Handlers)
    BY FewOfBoth DEF AccountsAssumption
  <2>3. Cardinality(Holders(t)') = Cardinality(Holders(t)) - 1
    BY <2>1, <2>2, FS_RemoveElement
  <2>4. Cardinality(Children(t)') = Cardinality(Children(t)) + 1
    BY <1>4, <2>2, FS_AddElement
  <2>5. Cardinality(Children(t)) \in Nat /\ Cardinality(Holders(t)) \in Nat /\ Cardinality(Handlers) \in Nat
    BY <2>2, FS_CardinalityType
  <2>6. Cardinality(Children(t)) + Cardinality(Holders(t)) <= Cardinality(Handlers)
    BY <1>3 DEF Rotations
  <2> QED
    BY <1>6, <1>7, <2>3, <2>4, <2>5, <2>6
<1>8. CASE j # t
  <2>1. Holders(j)' = Holders(j) /\ Children(j)' = Children(j)
    BY <1>4, <1>5, <1>8, <1>2 DEF Holders, Refreshing
  <2> QED
    BY <1>6, <1>8, <2>1 DEF Rotations
<1> QED
  BY <1>7, <1>8

\* The steps that change nobody's refresh token.
LEMMA RotationsRest ==
  ASSUME AccountsAssumption, Typed, Rotations,
         \/ ForgotPassword \/ ResetRunsOut \/ (\E b \in BOOLEAN : SetActive(b))
         \/ \E j \in DOMAIN pairs : Logout(j)
         \/ UNCHANGED vars
  PROVE  Rotations'
<1>1. revoked \subseteq revoked' /\ UNCHANGED <<pairs, req>>
  BY DEF ForgotPassword, ResetRunsOut, SetActive, Logout, vars
<1>2. \A j \in Nat \ {0} : Children(j)' = Children(j)
  BY <1>1 DEF Children
<1> QED
  BY <1>1, <1>2, RotationsStay DEF Refreshing

\* The steps of a request that neither takes up nor rotates a token.
LEMMA RotationsRequest ==
  ASSUME AccountsAssumption, Typed, Rotations, NEW h \in Handlers,
         \/ RefreshLoad(h) \/ Reload(h) \/ Commit(h)
         \/ \E what \in Changes : StartChange(h, what)
  PROVE  Rotations'
<1>1. req \in [Handlers -> Request] /\ UNCHANGED <<pairs, revoked>>
  BY DEF Typed, TypeOK, RefreshLoad, Reload, Commit, StartChange
<1>2. \A g \in Handlers \ {h} : req'[g] = req[g]
  BY <1>1 DEF RefreshLoad, Reload, Commit, StartChange
<1>3. CASE RefreshLoad(h)
  <2>1. req[h] \in Request /\ Refreshing(h)
    BY <1>1, <1>3 DEF RefreshLoad, Refreshing
  <2>2. req'[h] = Idle \/ req'[h] = [req[h] EXCEPT !.at = "rotate", !.ver = row.ver]
    BY <1>1, <1>3 DEF RefreshLoad
  <2>3. Refreshing(h)' => req'[h].tok = req[h].tok
    BY <2>1, <2>2, IdleTyped DEF Refreshing, Request
  <2> QED
    BY <1>1, <1>2, <2>1, <2>3, RotationsStay DEF Children, Refreshing
<1>4. CASE Reload(h) \/ Commit(h) \/ \E what \in Changes : StartChange(h, what)
  <2>1. req'[h].at \in {"idle", "reload", "reissue", "commit"}
    <3>1. CASE Reload(h)
      BY <1>1, <3>1 DEF Reload, Request
    <3>2. CASE Commit(h)
      BY <1>1, <3>2, IdleTyped DEF Commit, Request
    <3>3. CASE \E what \in Changes : StartChange(h, what)
      BY <1>1, <3>3 DEF StartChange, Idle
    <3> QED
      BY <1>4, <3>1, <3>2, <3>3
  <2>2. ~Refreshing(h)'
    BY <2>1 DEF Refreshing
  <2> QED
    BY <1>1, <1>2, <2>2, RotationsStay DEF Children, Refreshing
<1> QED
  BY <1>3, <1>4

\* The steps that issue a pair that comes from no other.
LEMMA RotationsNew ==
  ASSUME AccountsAssumption, Typed, Rotations, Login \/ \E h \in Handlers : Reissue(h)
  PROVE  Rotations'
<1>1. req \in [Handlers -> Request] /\ row.ver \in Nat /\ row.pw \in Nat
  BY DEF Typed, TypeOK, Row
<1>2. CASE Login
  <2>1. \A j \in Nat \ {0} : Children(j)' = Children(j)
    BY <1>1, <1>2, IssueChildren DEF Login
  <2> QED
    BY <1>2, <2>1, RotationsStay DEF Login, Refreshing
<1>3. ASSUME NEW h \in Handlers, Reissue(h) PROVE Rotations'
  <2>1. req[h].ver \in Nat /\ req[h].pw \in Nat
    BY <1>1 DEF Request
  <2>2. \A j \in Nat \ {0} : Children(j)' = Children(j)
    BY <1>3, <2>1, IssueChildren DEF Reissue
  <2>3. \A g \in Handlers : Refreshing(g)' => Refreshing(g) /\ req'[g] = req[g]
    BY <1>1, <1>3, IdleTyped DEF Reissue, Done, Refreshing
  <2> QED
    BY <1>3, <2>2, <2>3, RotationsStay DEF Reissue
<1> QED
  BY <1>2, <1>3

\* A refresh token yields at most as many pairs as there are requests at work
\* (refresh_tokens: is_refresh_revoked, then revoke_refresh and _pair).
THEOREM FewPairsPerToken ==
  ASSUME AccountsAssumption PROVE Spec => []RotationBounded
<1>1. Init => Rotations
  <2> SUFFICES ASSUME Init PROVE Rotations
    OBVIOUS
  <2>1. \A j : Children(j) = {} /\ Holders(j) = {}
    BY IdleTyped DEF Init, Children, Holders, Refreshing
  <2>2. Cardinality({}) = 0 /\ Cardinality(Handlers) \in Nat
    BY FS_EmptySet, FS_CardinalityType DEF AccountsAssumption
  <2> QED
    BY <2>1, <2>2 DEF Rotations
<1>2. Typed /\ Rotations /\ [Next]_vars => Rotations'
  <2>1. \A h \in Handlers :
          Reset(h) \/ (\E j \in DOMAIN pairs : \E what \in Changes : Change(h, j, what))
            => \E what \in Changes : StartChange(h, what)
    BY DEF Reset, Change, Changes
  <2> QED
    BY <2>1, RotationsRest, RotationsNew, RotationsRequest, RotationsCheck, RotationsRotate DEF Next
<1>3. Typed /\ Rotations => RotationBounded
  <2> SUFFICES ASSUME Typed, Rotations, NEW j \in DOMAIN pairs
               PROVE  Cardinality(Children(j)) <= Cardinality(Handlers)
    BY DEF RotationBounded, Children
  <2>1. j \in Nat \ {0}
    BY DEF Typed, TypeOK
  <2>2. /\ Cardinality(Children(j)) \in Nat /\ Cardinality(Holders(j)) \in Nat
        /\ Cardinality(Handlers) \in Nat
    BY FewOfBoth, FS_CardinalityType DEF AccountsAssumption
  <2> QED
    BY <2>1, <2>2 DEF Rotations
<1> QED
  BY <1>1, <1>2, <1>3, TypedInvariance, PTL DEF Spec

-----------------------------------------------------------------------------
(* Sessions: how many a user has, and that none is hidden.                 *)

\* The library's facts hold of the cardinality and finiteness of Sessions.
LEMMA SessionsCount ==
  /\ \A S : Sessions!Cardinality(S) = Cardinality(S)
  /\ \A S : Sessions!IsFiniteSet(S) <=> IsFiniteSet(S)
<1>1. \A S : Sessions!Cardinality(S) = Cardinality(S)
  BY DEF Sessions!Cardinality, Cardinality
<1>2. \A S : Sessions!IsFiniteSet(S) <=> IsFiniteSet(S)
  BY DEF Sessions!IsFiniteSet, IsFiniteSet
<1> QED
  BY <1>1, <1>2

\* Requests and ids are finitely many.
LEMMA SessionsAssumed ==
  IsFiniteSet(Requests) /\ IsFiniteSet(Ids) /\ MaxSessions \in Nat
BY PlatformAssumption, SessionsCount DEF PlatformAssumption, Sessions!SessionsAssumption

\* What one request is to do does not touch what another one is to add, and
\* nothing that a revocation will drop is, or will be, a session to keep.
SessionsApart ==
  /\ \A h \in Requests :
       /\ sessionCall[h].at = "create" =>
            \E s \in Ids : sessionCall[h].add = {s} /\ s \notin index \cup live
       /\ sessionCall[h].at # "create" => sessionCall[h].add = {}
       /\ sessionCall[h].at = "revoke" => sessionCall[h].remove \cap live = {}
       /\ sessionCall[h].at = "revoke_all" => live \ late \subseteq sessionCall[h].remove
  /\ \A h, g \in Requests :
       /\ sessionCall[h].add \cap sessionCall[g].remove = {}
       /\ h # g => sessionCall[h].add \cap sessionCall[g].add = {}

\* Who has written the index since a request read it: as many sessions can be
\* there beyond the maximum once that request's evictions are made.
OvertakenBy(D) ==
  \A c \in Requests : sessionCall[c].at = "create" =>
    /\ c \notin D[c]
    /\ Cardinality(index \ sessionCall[c].remove) <= MaxSessions + Cardinality(D[c])
    /\ \A g \in D[c] : sessionCall[g].at = "create" => D[g] \subseteq D[c]

SessionsInv ==
  /\ Sessions!TypeOK /\ SessionsApart
  /\ live \ late \subseteq index
  /\ Cardinality(index) <= MaxSessions + Cardinality(Requests)
  /\ \E D \in [Requests -> SUBSET Requests] : OvertakenBy(D)

\* Sets of ids and of requests have cardinalities, monotone ones.
LEMMA SessionsCards ==
  /\ \A S \in (SUBSET Ids) \cup (SUBSET Requests) : IsFiniteSet(S) /\ Cardinality(S) \in Nat
  /\ \A S \in (SUBSET Ids) \cup (SUBSET Requests) : \A T \in SUBSET S : Cardinality(T) <= Cardinality(S)
  /\ \A S \in (SUBSET Ids) \cup (SUBSET Requests) : \A x :
       /\ Cardinality(S \cup {x}) <= Cardinality(S) + 1
       /\ x \notin S => Cardinality(S \cup {x}) = Cardinality(S) + 1
<1>1. \A S \in (SUBSET Ids) \cup (SUBSET Requests) : IsFiniteSet(S) /\ Cardinality(S) \in Nat
  BY SessionsAssumed, FS_Subset, FS_CardinalityType
<1>2. \A S \in (SUBSET Ids) \cup (SUBSET Requests) : \A T \in SUBSET S : Cardinality(T) <= Cardinality(S)
  BY <1>1, FS_Subset
<1>3. ASSUME NEW S \in (SUBSET Ids) \cup (SUBSET Requests), NEW x
      PROVE  /\ Cardinality(S \cup {x}) <= Cardinality(S) + 1
             /\ x \notin S => Cardinality(S \cup {x}) = Cardinality(S) + 1
  <2>1. x \in S => Cardinality(S \cup {x}) = Cardinality(S)
    BY <1>1, FS_AddElement
  <2>2. x \notin S => Cardinality(S \cup {x}) = Cardinality(S) + 1
    BY <1>1, FS_AddElement
  <2> QED
    BY <1>1, <2>1, <2>2
<1> QED
  BY <1>1, <1>2, <1>3

\* A request that only drops entries, or begins to, overtakes nobody.
LEMMA OvertakenShrinks ==
  ASSUME SessionsInv, Sessions!TypeOK', index' \subseteq index,
         \A c \in Requests : sessionCall'[c].at = "create" => sessionCall'[c] = sessionCall[c]
  PROVE  /\ Cardinality(index') <= MaxSessions + Cardinality(Requests)
         /\ \E D \in [Requests -> SUBSET Requests] : OvertakenBy(D)'
<1>1. PICK D \in [Requests -> SUBSET Requests] : OvertakenBy(D)
  BY DEF SessionsInv
<1>2. index \in SUBSET Ids /\ index' \in SUBSET Ids
  BY DEF SessionsInv, Sessions!TypeOK
<1>3. Cardinality(index') <= MaxSessions + Cardinality(Requests)
  <2>1. Cardinality(index') <= Cardinality(index)
    BY <1>2, SessionsCards
  <2>2. Cardinality(index') \in Nat /\ Cardinality(index) \in Nat /\ Cardinality(Requests) \in Nat
    BY <1>2, SessionsCards
  <2>3. Cardinality(index) <= MaxSessions + Cardinality(Requests)
    BY DEF SessionsInv
  <2> QED
    BY <2>1, <2>2, <2>3, SessionsAssumed
<1>4. ASSUME NEW c \in Requests, sessionCall'[c].at = "create"
      PROVE  /\ c \notin D[c]
             /\ Cardinality(index' \ sessionCall'[c].remove) <= MaxSessions + Cardinality(D[c])
             /\ \A g \in D[c] : sessionCall'[g].at = "create" => D[g] \subseteq D[c]
  <2>1. sessionCall'[c] = sessionCall[c]
    BY <1>4
  <2>2. /\ c \notin D[c]
        /\ Cardinality(index \ sessionCall[c].remove) <= MaxSessions + Cardinality(D[c])
        /\ \A g \in D[c] : sessionCall[g].at = "create" => D[g] \subseteq D[c]
    BY <1>1, <1>4, <2>1 DEF OvertakenBy
  <2>3. index' \ sessionCall[c].remove \in SUBSET (index \ sessionCall[c].remove)
    OBVIOUS
  <2>4. index \ sessionCall[c].remove \in SUBSET Ids
    BY <1>2
  <2>5. /\ Cardinality(index' \ sessionCall[c].remove) <= Cardinality(index \ sessionCall[c].remove)
        /\ Cardinality(index' \ sessionCall[c].remove) \in Nat
        /\ Cardinality(index \ sessionCall[c].remove) \in Nat
    BY <2>3, <2>4, SessionsCards
  <2>6. Cardinality(D[c]) \in Nat
    <3>1. D[c] \in SUBSET Requests
      OBVIOUS
    <3> QED
      BY <3>1, SessionsCards
  <2>7. \A g \in D[c] : sessionCall'[g].at = "create" => D[g] \subseteq D[c]
    BY <2>2
  <2> QED
    BY <2>1, <2>2, <2>5, <2>6, <2>7, SessionsAssumed
<1>5. OvertakenBy(D)'
  BY <1>4 DEF OvertakenBy
<1> QED
  BY <1>3, <1>5

\* A new id is none that is in use or about to be.
LEMMA NewIdIsNew ==
  ASSUME Sessions!Fresh # {}
  PROVE  /\ Sessions!NewId \in Ids /\ Sessions!NewId \notin index \cup live
         /\ \A h \in Requests : Sessions!NewId \notin sessionCall[h].add \cup sessionCall[h].remove
<1>1. Sessions!NewId \in Sessions!Fresh
  BY DEF Sessions!NewId
<1> QED
  BY <1>1 DEF Sessions!Fresh

\* The types, which each step keeps.
LEMMA SessionsTyped == ASSUME Sessions!TypeOK, Sessions!Next PROVE Sessions!TypeOK'
<1> USE DEF Sessions!TypeOK, Sessions!Call, Sessions!Idle, Sessions!Done, Sessions!Begin
<1>1. CASE \E h \in Requests : Sessions!CreateReads(h)
  BY <1>1, NewIdIsNew DEF Sessions!CreateReads, Sessions!Excess
<1>2. CASE \E h \in Requests : Sessions!CreateWrites(h)
  <2>1. PICK h \in Requests : Sessions!CreateWrites(h)
    BY <1>2
  <2>2. sessionCall[h].add \subseteq Ids
    OBVIOUS
  <2> QED
    BY <2>1, <2>2 DEF Sessions!CreateWrites
<1>3. CASE \E h \in Requests : Sessions!RevokeEntry(h)
  BY <1>3 DEF Sessions!RevokeEntry
<1>4. CASE \E h \in Requests : Sessions!RevokeAllReads(h)
  BY <1>4 DEF Sessions!RevokeAllReads
<1>5. CASE \E h \in Requests : Sessions!RevokeAllWrites(h)
  BY <1>5 DEF Sessions!RevokeAllWrites
<1>6. CASE \E h \in Requests, s \in index : Sessions!RevokeKey(h, s)
  BY <1>6 DEF Sessions!RevokeKey
<1>7. CASE \E s \in live : Sessions!RunsOut(s)
  BY <1>7 DEF Sessions!RunsOut
<1> QED
  BY <1>1, <1>2, <1>3, <1>4, <1>5, <1>6, <1>7 DEF Sessions!Next

\* A sign-in that reads: its new id is nobody's, and what it will drop leaves
\* no more than the maximum.
LEMMA CreateReadsInv ==
  ASSUME SessionsInv, Sessions!TypeOK', NEW h \in Requests, Sessions!CreateReads(h)
  PROVE  SessionsInv'
<1> USE DEF Sessions!CreateReads, Sessions!Begin
<1>1. PICK r \in Sessions!Excess :
        sessionCall' = [sessionCall EXCEPT ![h] = [at |-> "create", add |-> {Sessions!NewId}, remove |-> r]]
  OBVIOUS
<1>2. sessionCall \in [Requests -> Sessions!Call] /\ index \in SUBSET Ids /\ sessionCall[h] = Sessions!Idle
  BY DEF SessionsInv, Sessions!TypeOK
<1>3. /\ sessionCall'[h] = [at |-> "create", add |-> {Sessions!NewId}, remove |-> r]
      /\ \A g \in Requests \ {h} : sessionCall'[g] = sessionCall[g]
  BY <1>1, <1>2
<1>4. r \subseteq index
  BY DEF Sessions!Excess
<1>5. SessionsApart'
  BY <1>2, <1>3, <1>4, NewIdIsNew DEF SessionsInv, SessionsApart, Sessions!Idle
<1>6. PICK D \in [Requests -> SUBSET Requests] : OvertakenBy(D)
  BY DEF SessionsInv
<1>7. Cardinality(index \ r) <= MaxSessions
  <2>1. Cardinality(index \ r) = Cardinality(index) - Cardinality(index \cap r)
    BY <1>2, SessionsCards, FS_Difference
  <2>2. index \cap r = r
    BY <1>4
  <2>3. Cardinality(r) = IF Cardinality(index) > MaxSessions THEN Cardinality(index) - MaxSessions ELSE 0
    BY SessionsCount DEF Sessions!Excess
  <2>4. Cardinality(index) \in Nat
    BY <1>2, SessionsCards
  <2>5. Cardinality(index \ r) = Cardinality(index) - Cardinality(r)
    BY <2>1, <2>2
  <2> HIDE DEF Sessions!CreateReads
  <2> QED
    BY <2>3, <2>4, <2>5, SessionsAssumed
<1>8. OvertakenBy([D EXCEPT ![h] = {}])'
  <2> DEFINE E == [D EXCEPT ![h] = {}]
  <2>1. E \in [Requests -> SUBSET Requests] /\ E[h] = {} /\ \A g \in Requests \ {h} : E[g] = D[g]
    OBVIOUS
  <2> HIDE DEF E
  <2>2. ASSUME NEW c \in Requests, sessionCall'[c].at = "create"
        PROVE  /\ c \notin E[c]
               /\ Cardinality(index \ sessionCall'[c].remove) <= MaxSessions + Cardinality(E[c])
               /\ \A g \in E[c] : sessionCall'[g].at = "create" => E[g] \subseteq E[c]
    <3>1. CASE c = h
      <4>1. E[c] = {} /\ Cardinality({}) = 0 /\ sessionCall'[c].remove = r
        BY <3>1, <2>1, <1>3, FS_EmptySet
      <4>2. Cardinality(E[c]) = 0 /\ Cardinality(index \ sessionCall'[c].remove) <= MaxSessions
        BY <4>1, <1>7
      <4>3. MaxSessions + 0 = MaxSessions
        BY SessionsAssumed
      <4> QED
        BY <4>1, <4>2, <4>3
    <3>2. CASE c # h
      <4>1. E[c] = D[c] /\ sessionCall'[c] = sessionCall[c] /\ D[c] \subseteq Requests
        BY <3>2, <2>1, <1>3
      <4>2. /\ c \notin D[c]
            /\ Cardinality(index \ sessionCall[c].remove) <= MaxSessions + Cardinality(D[c])
            /\ \A g \in D[c] : sessionCall[g].at = "create" => D[g] \subseteq D[c]
        BY <4>1, <2>2, <1>6 DEF OvertakenBy
      <4>3. \A g \in E[c] : sessionCall'[g].at = "create" => E[g] \subseteq E[c]
        BY <4>1, <4>2, <2>1, <1>3
      <4> QED
        BY <4>1, <4>2, <4>3
    <3> QED
      BY <3>1, <3>2
  <2>3. OvertakenBy(E)'
    BY <2>2 DEF OvertakenBy
  <2> QED
    BY <2>3 DEF E
<1>9. [D EXCEPT ![h] = {}] \in [Requests -> SUBSET Requests]
  OBVIOUS
<1> QED
  BY <1>5, <1>8, <1>9 DEF SessionsInv

\* A sign-in that writes: every other one that has read is overtaken by it.
LEMMA CreateWritesInv ==
  ASSUME SessionsInv, Sessions!TypeOK', NEW h \in Requests, Sessions!CreateWrites(h)
  PROVE  SessionsInv'
<1> USE DEF Sessions!CreateWrites, Sessions!Done
<1>1. PICK s \in Ids : sessionCall[h].add = {s} /\ s \notin index \cup live
  BY DEF SessionsInv, SessionsApart
<1>2. /\ sessionCall \in [Requests -> Sessions!Call] /\ index \in SUBSET Ids /\ index' \in SUBSET Ids
      /\ sessionCall[h].at = "create" /\ s \notin sessionCall[h].remove
  BY <1>1 DEF SessionsInv, Sessions!TypeOK, SessionsApart
<1>3. /\ sessionCall'[h] = Sessions!Idle
      /\ \A g \in Requests \ {h} : sessionCall'[g] = sessionCall[g]
  BY <1>2
<1>4. index' = (index \ sessionCall[h].remove) \cup {s} /\ live' = (live \ sessionCall[h].remove) \cup {s}
  BY <1>1, <1>2
<1>5. live' \ late' \subseteq index'
  BY <1>1, <1>4 DEF SessionsInv
<1>6. SessionsApart'
  <2>1. ASSUME NEW g \in Requests
        PROVE  /\ sessionCall'[g].at = "create" =>
                    \E t \in Ids : sessionCall'[g].add = {t} /\ t \notin index' \cup live'
               /\ sessionCall'[g].at # "create" => sessionCall'[g].add = {}
               /\ sessionCall'[g].at = "revoke" => sessionCall'[g].remove \cap live' = {}
               /\ sessionCall'[g].at = "revoke_all" => live' \ late' \subseteq sessionCall'[g].remove
    <3>1. CASE g = h
      BY <3>1, <1>3 DEF Sessions!Idle
    <3>2. CASE g # h
      <4>1. sessionCall'[g] = sessionCall[g]
        BY <3>2, <1>3
      <4>2. s \notin sessionCall[g].remove /\ s \notin sessionCall[g].add
        BY <3>2, <1>1 DEF SessionsInv, SessionsApart
      <4>3. sessionCall[g].at = "create" => \E t \in Ids : sessionCall[g].add = {t} /\ t \notin index' \cup live'
        BY <4>2, <1>4 DEF SessionsInv, SessionsApart
      <4>4. sessionCall[g].at = "revoke" => sessionCall[g].remove \cap live' = {}
        BY <4>2, <1>4 DEF SessionsInv, SessionsApart
      <4>5. sessionCall[g].at = "revoke_all" => live' \ late' \subseteq sessionCall[g].remove
        BY <1>1, <1>4 DEF SessionsInv, SessionsApart
      <4> QED
        BY <4>1, <4>3, <4>4, <4>5 DEF SessionsInv, SessionsApart
    <3> QED
      BY <3>1, <3>2
  <2>2. \A c, g \in Requests :
          /\ sessionCall'[c].add \cap sessionCall'[g].remove = {}
          /\ c # g => sessionCall'[c].add \cap sessionCall'[g].add = {}
    BY <1>3 DEF SessionsInv, SessionsApart, Sessions!Idle
  <2> QED
    BY <2>1, <2>2 DEF SessionsApart
<1>7. PICK D \in [Requests -> SUBSET Requests] : OvertakenBy(D)
  BY DEF SessionsInv
<1>8. /\ h \notin D[h] /\ D[h] \subseteq Requests
      /\ Cardinality(index \ sessionCall[h].remove) <= MaxSessions + Cardinality(D[h])
  BY <1>2, <1>7 DEF OvertakenBy
\* What the index has now is at most one more than what this request left.
<1>9. ASSUME NEW T \in SUBSET Ids, T \subseteq index' PROVE Cardinality(T) <= MaxSessions + Cardinality(D[h]) + 1
  <2>1. Cardinality(T) <= Cardinality((index \ sessionCall[h].remove) \cup {s})
    BY <1>1, <1>2, <1>4, <1>9, SessionsCards
  <2>2. Cardinality((index \ sessionCall[h].remove) \cup {s}) <= Cardinality(index \ sessionCall[h].remove) + 1
    BY <1>2, SessionsCards
  <2>3. /\ Cardinality(T) \in Nat /\ Cardinality((index \ sessionCall[h].remove) \cup {s}) \in Nat
        /\ Cardinality(index \ sessionCall[h].remove) \in Nat /\ Cardinality(D[h]) \in Nat
    BY <1>1, <1>2, <1>8, SessionsCards
  <2> HIDE DEF Sessions!CreateWrites
  <2> QED
    BY <2>1, <2>2, <2>3, <1>8, SessionsAssumed
<1>10. \A S \in SUBSET Requests : h \in S /\ D[h] \subseteq S => Cardinality(D[h]) + 1 <= Cardinality(S)
  <2>1. ASSUME NEW S \in SUBSET Requests, h \in S, D[h] \subseteq S PROVE Cardinality(D[h]) + 1 <= Cardinality(S)
    <3>1. Cardinality(D[h] \cup {h}) = Cardinality(D[h]) + 1
      BY <1>8, SessionsCards
    <3>2. Cardinality(D[h] \cup {h}) <= Cardinality(S)
      BY <2>1, SessionsCards
    <3> QED
      BY <3>1, <3>2
  <2> QED
    BY <2>1
<1>11. Cardinality(index') <= MaxSessions + Cardinality(Requests)
  <2>1. Cardinality(index') <= MaxSessions + Cardinality(D[h]) + 1
    BY <1>2, <1>9
  <2>2. Cardinality(D[h]) + 1 <= Cardinality(Requests)
    BY <1>8, <1>10
  <2>3. Cardinality(index') \in Nat /\ Cardinality(D[h]) \in Nat /\ Cardinality(Requests) \in Nat
    BY <1>2, <1>8, SessionsCards
  <2> HIDE DEF Sessions!CreateWrites
  <2> QED
    BY <2>1, <2>2, <2>3, SessionsAssumed
<1>12. \E E \in [Requests -> SUBSET Requests] : OvertakenBy(E)'
  <2> DEFINE E == [c \in Requests |-> D[c] \cup {h}]
  <2>1. E \in [Requests -> SUBSET Requests] /\ \A c \in Requests : E[c] = D[c] \cup {h} /\ D[c] \in SUBSET Requests
    OBVIOUS
  <2> HIDE DEF E
  <2>2. ASSUME NEW c \in Requests, sessionCall'[c].at = "create"
        PROVE  /\ c \notin E[c]
               /\ Cardinality(index' \ sessionCall'[c].remove) <= MaxSessions + Cardinality(E[c])
               /\ \A g \in E[c] : sessionCall'[g].at = "create" => E[g] \subseteq E[c]
    <3>1. c # h /\ sessionCall'[c] = sessionCall[c]
      BY <2>2, <1>3 DEF Sessions!Idle
    <3>2. /\ c \notin D[c]
          /\ Cardinality(index \ sessionCall[c].remove) <= MaxSessions + Cardinality(D[c])
          /\ \A g \in D[c] : sessionCall[g].at = "create" => D[g] \subseteq D[c]
      BY <3>1, <2>2, <1>7 DEF OvertakenBy
    <3>3. \A g \in E[c] : sessionCall'[g].at = "create" => E[g] \subseteq E[c]
      BY <3>2, <2>1, <1>3 DEF Sessions!Idle
    <3>4. Cardinality(index' \ sessionCall[c].remove) <= MaxSessions + Cardinality(E[c])
      <4>1. /\ Cardinality(index' \ sessionCall[c].remove) \in Nat /\ Cardinality(D[c]) \in Nat
            /\ Cardinality(E[c]) \in Nat /\ Cardinality(D[h]) \in Nat
            /\ Cardinality(index \ sessionCall[c].remove) \in Nat
        BY <1>2, <1>8, <2>1, SessionsCards
      <4>2. CASE h \in D[c]
        <5>1. D[h] \subseteq D[c]
          BY <4>2, <3>2, <1>2
        <5>2. Cardinality(D[h]) + 1 <= Cardinality(D[c])
          BY <4>2, <5>1, <2>1, <1>10
        <5>3. Cardinality(index' \ sessionCall[c].remove) <= MaxSessions + Cardinality(D[h]) + 1
          BY <1>2, <1>9
        <5>4. E[c] = D[c]
          BY <4>2, <2>1
        <5> HIDE DEF Sessions!CreateWrites
        <5> QED
          BY <5>2, <5>3, <5>4, <4>1, SessionsAssumed
      <4>3. CASE h \notin D[c]
        <5>1. Cardinality(E[c]) = Cardinality(D[c]) + 1
          BY <4>3, <2>1, SessionsCards
        <5>2. index' \ sessionCall[c].remove \subseteq (index \ sessionCall[c].remove) \cup {s}
          BY <1>4
        <5>3. Cardinality(index' \ sessionCall[c].remove) <= Cardinality((index \ sessionCall[c].remove) \cup {s})
          BY <5>2, <1>1, <1>2, SessionsCards
        <5>4. /\ Cardinality((index \ sessionCall[c].remove) \cup {s}) <= Cardinality(index \ sessionCall[c].remove) + 1
              /\ Cardinality((index \ sessionCall[c].remove) \cup {s}) \in Nat
          BY <1>1, <1>2, SessionsCards
        <5> HIDE DEF Sessions!CreateWrites
        <5> QED
          BY <5>1, <5>3, <5>4, <4>1, <3>2, SessionsAssumed
      <4> QED
        BY <4>2, <4>3
    <3> QED
      BY <3>1, <3>2, <3>3, <3>4, <2>1
  <2>3. OvertakenBy(E)'
    BY <2>2 DEF OvertakenBy
  <2> QED
    BY <2>1, <2>3
<1> QED
  BY <1>5, <1>6, <1>11, <1>12 DEF SessionsInv

\* Revocations and keys that run out.
LEMMA SessionsDropInv ==
  ASSUME SessionsInv, Sessions!TypeOK', NEW h \in Requests,
         \/ Sessions!RevokeEntry(h) \/ Sessions!RevokeAllReads(h) \/ Sessions!RevokeAllWrites(h)
         \/ \E s \in index : Sessions!RevokeKey(h, s)
  PROVE  SessionsInv'
<1> USE DEF Sessions!RevokeEntry, Sessions!RevokeAllReads, Sessions!RevokeAllWrites,
            Sessions!RevokeKey, Sessions!Begin, Sessions!Done
<1>1. sessionCall \in [Requests -> Sessions!Call]
  BY DEF SessionsInv, Sessions!TypeOK
<1>2. \A g \in Requests \ {h} : sessionCall'[g] = sessionCall[g]
  BY <1>1
<1>3. sessionCall'[h].at # "create" /\ sessionCall'[h].add = {}
  BY <1>1 DEF Sessions!Idle
<1>4. index' \subseteq index /\ live' \subseteq live /\ late' = late
  OBVIOUS
<1>5. /\ Cardinality(index') <= MaxSessions + Cardinality(Requests)
      /\ \E D \in [Requests -> SUBSET Requests] : OvertakenBy(D)'
  <2>1. \A c \in Requests : sessionCall'[c].at = "create" => sessionCall'[c] = sessionCall[c]
    BY <1>2, <1>3
  <2> QED
    BY <2>1, <1>4, OvertakenShrinks
<1>6. live' \ late' \subseteq index'
  BY DEF SessionsInv, SessionsApart
<1>7. SessionsApart'
  <2>1. /\ sessionCall'[h].at = "revoke" => sessionCall'[h].remove \cap live' = {}
        /\ sessionCall'[h].at = "revoke_all" => live' \ late' \subseteq sessionCall'[h].remove
        /\ sessionCall'[h].remove \subseteq index
    BY <1>1 DEF SessionsInv, Sessions!Idle
  <2>2. \A g \in Requests : sessionCall[g].add \cap index = {}
    BY DEF SessionsInv, SessionsApart
  <2>3. ASSUME NEW g \in Requests
        PROVE  /\ sessionCall'[g].at = "create" =>
                    \E t \in Ids : sessionCall'[g].add = {t} /\ t \notin index' \cup live'
               /\ sessionCall'[g].at # "create" => sessionCall'[g].add = {}
               /\ sessionCall'[g].at = "revoke" => sessionCall'[g].remove \cap live' = {}
               /\ sessionCall'[g].at = "revoke_all" => live' \ late' \subseteq sessionCall'[g].remove
    <3> HIDE DEF Sessions!RevokeEntry, Sessions!RevokeAllReads, Sessions!RevokeAllWrites, Sessions!RevokeKey
    <3> QED
      BY <1>2, <1>3, <1>4, <2>1 DEF SessionsInv, SessionsApart
  <2>4. \A c, g \in Requests :
          /\ sessionCall'[c].add \cap sessionCall'[g].remove = {}
          /\ c # g => sessionCall'[c].add \cap sessionCall'[g].add = {}
    <3> HIDE DEF Sessions!RevokeEntry, Sessions!RevokeAllReads, Sessions!RevokeAllWrites, Sessions!RevokeKey
    <3> QED
      BY <1>2, <1>3, <2>1, <2>2 DEF SessionsInv, SessionsApart
  <2> QED
    BY <2>3, <2>4 DEF SessionsApart
<1> QED
  BY <1>5, <1>6, <1>7 DEF SessionsInv

\* A key that runs out hides nothing.
LEMMA SessionsRunsOutInv ==
  ASSUME SessionsInv, Sessions!TypeOK', NEW s \in live, Sessions!RunsOut(s)
  PROVE  SessionsInv'
<1> USE DEF Sessions!RunsOut
<1>1. /\ Cardinality(index') <= MaxSessions + Cardinality(Requests)
      /\ \E D \in [Requests -> SUBSET Requests] : OvertakenBy(D)'
  BY OvertakenShrinks
<1>2. SessionsApart' /\ live' \ late' \subseteq index'
  BY DEF SessionsInv, SessionsApart
<1> QED
  BY <1>1, <1>2 DEF SessionsInv

\* Every step keeps the invariant.
LEMMA SessionsNextInv == ASSUME SessionsInv, Sessions!Next PROVE SessionsInv'
<1>1. Sessions!TypeOK'
  BY SessionsTyped DEF SessionsInv
<1> QED
  BY <1>1, CreateReadsInv, CreateWritesInv, SessionsDropInv, SessionsRunsOutInv DEF Sessions!Next

\* The invariant holds throughout.
LEMMA SessionsInvariance == PlatformSpec => [](part = "sessions" => SessionsInv)
<1>1. PlatformInit => (part = "sessions" => SessionsInv)
  <2> SUFFICES ASSUME PlatformInit, part = "sessions" PROVE SessionsInv
    OBVIOUS
  <2>1. Sessions!Init
    BY DEF PlatformInit
  <2>2. \A h \in Requests : sessionCall[h] = Sessions!Idle
    BY <2>1 DEF Sessions!Init
  <2>3. Sessions!TypeOK
    BY <2>1 DEF Sessions!Init, Sessions!TypeOK, Sessions!Call, Sessions!Idle
  <2>4. SessionsApart /\ live \ late \subseteq index
    BY <2>1, <2>2 DEF Sessions!Init, SessionsApart, Sessions!Idle
  <2>5. Cardinality(index) <= MaxSessions + Cardinality(Requests)
    <3>1. Cardinality(index) = 0
      BY <2>1, FS_EmptySet DEF Sessions!Init
    <3> QED
      BY <3>1, SessionsCards, SessionsAssumed
  <2>6. OvertakenBy([h \in Requests |-> {}])
    BY <2>2 DEF OvertakenBy, Sessions!Idle
  <2>7. [h \in Requests |-> {}] \in [Requests -> SUBSET Requests]
    OBVIOUS
  <2> QED
    BY <2>3, <2>4, <2>5, <2>6, <2>7 DEF SessionsInv
<1>2. (part = "sessions" => SessionsInv) /\ [PlatformNext]_allVars => (part = "sessions" => SessionsInv)'
  <2>1. ASSUME SessionsInv, UNCHANGED <<index, live, sessionCall, late>> PROVE SessionsInv'
    BY <2>1 DEF SessionsInv, SessionsApart, OvertakenBy, Sessions!TypeOK
  <2>2. [PlatformNext]_allVars =>
          /\ part' = part
          /\ part = "sessions" => Sessions!Next \/ UNCHANGED <<index, live, sessionCall, late>>
    BY DEF PlatformNext, Only, allVars
  <2> QED
    BY <2>1, <2>2, SessionsNextInv
<1> QED
  BY <1>1, <1>2, PTL DEF PlatformSpec

\* A user's sessions are few and none that exists is hidden, through sign-ins
\* and revocations that overlap (create_session, revoke_session,
\* revoke_all_sessions).
THEOREM SessionsStayControlled == PlatformSpec => []SessionsControlled
<1>1. (part = "sessions" => SessionsInv) => SessionsControlled
  BY SessionsCount DEF SessionsInv, SessionsControlled, Sessions!SessionsControlled,
     Sessions!SessionsBounded, Sessions!NoHiddenSession, Sessions!Listed
<1> QED
  BY <1>1, SessionsInvariance, PTL
-----------------------------------------------------------------------------
(* The browser's tokens: kept until they are given up or a mishap.         *)

\* The calls, without bounds on the pairs' numbers; no pair is numbered
\* higher than the last one issued, and only an answer brings one.
CallRow == [at : ApiClient!Steps, opening : BOOLEAN, used : Nat, tok : Nat, got : Nat]
ClientTyped ==
  /\ issued \in Nat /\ stored \in 0 .. issued
  /\ usable \subseteq 1 .. issued /\ revoking \subseteq 1 .. issued
  /\ apiCall \in [Requests -> CallRow]
  /\ \A c \in Requests : /\ apiCall[c].got \in 0 .. issued
                         /\ apiCall[c].got # 0 => apiCall[c].at = "answered"

Refreshes(c) == apiCall[c].at \in ApiClient!Refreshing

\* Whoever logged out, or closed a tab, holds nothing and waits for nothing,
\* but for the refreshes that were under way.
LeftInv == out /\ ~flying => stored = 0 /\ \A c \in Requests : ~Refreshes(c)

\* The calls of a quiet session: one refreshes at most.  While the session
\* lasts its token is one that the server takes, and is answered with another
\* one; what an answer brings is nowhere else.
CallInv(c) ==
  /\ apiCall[c].at # "stale"
  /\ Refreshes(c) => \A d \in Requests : Refreshes(d) => d = c
  /\ apiCall[c].got # 0 => apiCall[c].got \in usable \ revoking /\ apiCall[c].got # stored
  /\ ~out => /\ apiCall[c].at # "clear"
             /\ Refreshes(c) => apiCall[c].tok \notin revoking
             /\ apiCall[c].at = "asked" => apiCall[c].tok \in usable
             /\ apiCall[c].at = "answered" => apiCall[c].got # 0

\* What is stored can be refreshed, or is being replaced.
StoredInv ==
  /\ stored = 0 => out
  /\ stored # 0 =>
       \/ stored \in usable
       \/ \E c \in Requests : apiCall[c].at = "answered" /\ apiCall[c].tok = stored /\ apiCall[c].got # 0
  /\ stored \notin revoking
  /\ ~out => leaving = {}

ClientInv == ClientTyped /\ LeftInv /\ (~hit => StoredInv /\ \A c \in Requests : CallInv(c))

\* A call that has ended brings nothing.
LEMMA IdleCall == ApiClient!Idle \in CallRow /\ ApiClient!Idle.at = "idle" /\ ApiClient!Idle.got = 0
BY DEF ApiClient!Idle, CallRow, ApiClient!Steps

\* A call at its next step: while it refreshes it keeps its tokens, and then
\* none of them.
LEMMA AtRow ==
  ASSUME ClientTyped, NEW c \in Requests, NEW at \in ApiClient!Steps
  PROVE  /\ ApiClient!At(c, at) \in CallRow /\ ApiClient!At(c, at).at = at
         /\ at \in {"idle", "clear", "retry"} => ApiClient!At(c, at).got = 0
         /\ at \notin {"idle", "clear", "retry"} =>
              /\ ApiClient!At(c, at).tok = apiCall[c].tok
              /\ ApiClient!At(c, at).got = apiCall[c].got
<1>1. apiCall[c] \in CallRow
  BY DEF ClientTyped
<1> DEFINE kept == [apiCall[c] EXCEPT !.at = at]
           ended == [ApiClient!Idle EXCEPT !.at = at]
           anew == [ApiClient!Idle EXCEPT !.at = at, !.opening = apiCall[c].opening]
<1>2. kept \in CallRow /\ kept.at = at /\ kept.tok = apiCall[c].tok /\ kept.got = apiCall[c].got
  BY <1>1 DEF CallRow
<1>3. ended \in CallRow /\ ended.at = at /\ ended.got = 0
  BY DEF ApiClient!Idle, CallRow
<1>4. anew \in CallRow /\ anew.at = at /\ anew.got = 0
  BY <1>1 DEF ApiClient!Idle, CallRow
<1>5. ApiClient!At(c, at) = IF at \in {"idle", "clear"} THEN ended ELSE IF at = "retry" THEN anew ELSE kept
  BY DEF ApiClient!At
<1> HIDE DEF kept, ended, anew
<1> QED
  BY <1>2, <1>3, <1>4, <1>5

\* A call is replaced by another entry.
LEMMA CallReplaced ==
  ASSUME ClientTyped, NEW c \in Requests, NEW e \in CallRow, apiCall' = [apiCall EXCEPT ![c] = e]
  PROVE  /\ apiCall' \in [Requests -> CallRow] /\ apiCall'[c] = e
         /\ \A d \in Requests \ {c} : apiCall'[d] = apiCall[d]
BY DEF ClientTyped

\* A step of a call in which nothing is stored or issued and no refresh
\* begins or succeeds.
LEMMA CallMoves ==
  ASSUME ClientInv, NEW c \in Requests, NEW e \in CallRow, apiCall' = [apiCall EXCEPT ![c] = e],
         UNCHANGED <<stored, issued, usable, revoking, leaving, out, flying>>,
         hit => hit',
         e.got = 0,
         e.at \in ApiClient!Refreshing => Refreshes(c) /\ e.tok = apiCall[c].tok,
         ~hit' => /\ e.at \notin {"stale", "asked"} /\ apiCall[c].at # "answered"
                  /\ ~out => e.at \notin {"clear", "answered"}
  PROVE  ClientInv'
<1>1. /\ apiCall' \in [Requests -> CallRow] /\ apiCall'[c] = e
      /\ \A d \in Requests \ {c} : apiCall'[d] = apiCall[d]
  BY CallReplaced DEF ClientInv
<1>2. ClientTyped'
  BY <1>1 DEF ClientInv, ClientTyped
<1>3. \A d \in Requests : Refreshes(d)' => Refreshes(d) /\ apiCall'[d].tok = apiCall[d].tok
  BY <1>1 DEF Refreshes, ApiClient!Refreshing
<1>4. LeftInv'
  BY <1>3 DEF ClientInv, LeftInv
<1>5. ASSUME ~hit' PROVE StoredInv'
  BY <1>1, <1>5 DEF ClientInv, StoredInv
<1>6. ASSUME ~hit', NEW d \in Requests PROVE CallInv(d)'
  <2>1. CallInv(d)
    BY <1>6 DEF ClientInv
  <2>2. Refreshes(d)' => \A f \in Requests : Refreshes(f)' => f = d
    BY <1>3, <2>1 DEF CallInv
  <2>3. CASE d = c
    BY <1>1, <1>3, <1>6, <2>1, <2>2, <2>3 DEF CallInv
  <2>4. CASE d # c
    BY <1>1, <1>3, <2>1, <2>2, <2>4 DEF CallInv
  <2> QED
    BY <2>3, <2>4
<1> QED
  BY <1>2, <1>4, <1>5, <1>6 DEF ClientInv

\* A call begins, is answered or checked, fails, or is repeated.
LEMMA CallSteps ==
  ASSUME ClientInv, NEW c \in Requests,
         \/ \E opening \in BOOLEAN : ApiClient!Begin(c, opening)
         \/ ApiClient!Answered(c) \/ ApiClient!HydrateFails(c)
         \/ ApiClient!ServerChecks(c) \/ ApiClient!AnswerLost(c) \/ ApiClient!Retry(c)
  PROVE  ClientInv'
<1> USE DEF ApiClient!Mishap
<1>1. UNCHANGED <<stored, issued, usable, revoking, leaving, out, flying>>
  BY DEF ApiClient!Begin, ApiClient!Answered, ApiClient!HydrateFails, ApiClient!ServerChecks,
         ApiClient!AnswerLost, ApiClient!Retry
<1>2. ClientTyped /\ stored \in Nat
  BY DEF ClientInv, ClientTyped
<1>3. ASSUME NEW opening \in BOOLEAN, ApiClient!Begin(c, opening) PROVE ClientInv'
  <2> DEFINE e == [ApiClient!Idle EXCEPT !.at = "sent", !.opening = opening, !.used = stored]
  <2>1. apiCall' = [apiCall EXCEPT ![c] = e] /\ apiCall[c] = ApiClient!Idle /\ (hit => hit')
    BY <1>3 DEF ApiClient!Begin
  <2>2. apiCall[c].at = "idle"
    BY <2>1, IdleCall
  <2>3. e \in CallRow /\ e.at = "sent" /\ e.got = 0
    BY <1>2 DEF ApiClient!Idle, CallRow, ApiClient!Steps
  <2> HIDE DEF e
  <2> QED
    BY <1>1, <2>1, <2>2, <2>3, CallMoves DEF ApiClient!Refreshing
<1>4. ASSUME NEW at \in {"idle", "refused", "clear", "rotating", "answered"}, ApiClient!Go(c, at), hit => hit',
             at = "refused" => apiCall[c].at = "sent",
             at \in {"rotating", "answered"} => apiCall[c].at = "asked",
             ~hit' => apiCall[c].at # "answered" /\ (~out => at \notin {"clear", "answered"})
      PROVE  ClientInv'
  <2> DEFINE e == ApiClient!At(c, at)
  <2>1. apiCall' = [apiCall EXCEPT ![c] = e]
    BY <1>4 DEF ApiClient!Go
  <2>2. at \in ApiClient!Steps
    BY DEF ApiClient!Steps
  <2>3. /\ e \in CallRow /\ e.at = at
        /\ at \in {"idle", "clear"} => e.got = 0
        /\ at \notin {"idle", "clear"} => e.tok = apiCall[c].tok /\ e.got = apiCall[c].got
    BY <1>2, <2>2, AtRow
  <2> HIDE DEF e
  <2>4. e.got = 0
    BY <1>2, <1>4, <2>3 DEF ClientTyped
  <2>5. e.at \in ApiClient!Refreshing => Refreshes(c) /\ e.tok = apiCall[c].tok
    BY <1>4, <2>3 DEF Refreshes, ApiClient!Refreshing
  <2>6. e.at \notin {"stale", "asked"}
    BY <2>3
  <2> QED
    BY <1>1, <1>4, <2>1, <2>3, <2>4, <2>5, <2>6, CallMoves
<1>5. CASE ApiClient!Answered(c)
  <2>1. PICK at \in {"idle", "refused"} : ApiClient!Go(c, at) /\ apiCall[c].at = "sent" /\ (hit => hit')
    BY <1>5 DEF ApiClient!Answered
  <2> QED
    BY <1>4, <2>1
<1>6. CASE ApiClient!HydrateFails(c)
  <2>1. ApiClient!Go(c, "clear") /\ hit'
    BY <1>6 DEF ApiClient!HydrateFails
  <2> QED
    BY <1>4, <2>1
<1>7. CASE ApiClient!ServerChecks(c)
  <2>1. PICK at \in {"rotating", "answered"} :
          /\ ApiClient!Go(c, at) /\ apiCall[c].at = "asked" /\ (hit' <=> hit)
          /\ apiCall[c].tok \in usable => at = "rotating"
    BY <1>7 DEF ApiClient!ServerChecks
  <2>2. ~hit' /\ ~out => at = "rotating"
    BY <2>1 DEF ClientInv, CallInv
  <2> QED
    BY <1>4, <2>1, <2>2
<1>8. CASE ApiClient!AnswerLost(c)
  <2>1. ApiClient!Go(c, "clear") /\ hit'
    BY <1>8 DEF ApiClient!AnswerLost
  <2> QED
    BY <1>4, <2>1
<1>9. CASE ApiClient!Retry(c)
  <2>1. PICK at \in {"clear", "idle"} :
          /\ ApiClient!Go(c, at) /\ apiCall[c].at = "retry" /\ (hit' <=> hit)
          /\ stored # 0 => at = "idle"
    BY <1>9 DEF ApiClient!Retry
  <2>2. ~hit' /\ ~out => at = "idle"
    BY <2>1 DEF ClientInv, StoredInv
  <2> QED
    BY <1>4, <2>1, <2>2
<1> QED
  BY <1>3, <1>5, <1>6, <1>7, <1>8, <1>9

\* A call asks for a refresh: alone, unless that is a mishap.
LEMMA AskInv == ASSUME ClientInv, NEW c \in Requests, ApiClient!AskRefresh(c) PROVE ClientInv'
<1> DEFINE asks == [ApiClient!At(c, "asked") EXCEPT !.used = 0, !.tok = stored]
           e == IF stored = 0 THEN ApiClient!At(c, "clear") ELSE asks
<1>1. /\ UNCHANGED <<stored, issued, usable, revoking, leaving, out, flying>>
      /\ apiCall[c].at = "refused"
      /\ hit' = (hit \/ \E d \in Requests : Refreshes(d))
      /\ apiCall' = [apiCall EXCEPT ![c] = e]
  BY DEF ApiClient!AskRefresh, ApiClient!TokenFor, ApiClient!Mishap, ApiClient!InFlight, Refreshes
<1>2. ClientTyped /\ stored \in Nat /\ apiCall[c].got = 0
  BY <1>1 DEF ClientInv, ClientTyped
<1>3. /\ ApiClient!At(c, "asked") \in CallRow /\ ApiClient!At(c, "asked").at = "asked" /\ ApiClient!At(c, "asked").got = 0
      /\ ApiClient!At(c, "clear") \in CallRow /\ ApiClient!At(c, "clear").at = "clear" /\ ApiClient!At(c, "clear").got = 0
  BY <1>2, AtRow DEF ApiClient!Steps
<1>4. asks \in CallRow /\ asks.at = "asked" /\ asks.tok = stored /\ asks.got = 0
  BY <1>2, <1>3 DEF CallRow
<1> HIDE DEF asks
<1>5. /\ e \in CallRow /\ e.got = 0
      /\ stored = 0 => e.at = "clear"
      /\ stored # 0 => e.at = "asked" /\ e.tok = stored
  BY <1>3, <1>4
<1> HIDE DEF e
<1>6. /\ apiCall' \in [Requests -> CallRow] /\ apiCall'[c] = e
      /\ \A d \in Requests \ {c} : apiCall'[d] = apiCall[d]
  BY <1>1, <1>2, <1>5, CallReplaced
<1>7. ClientTyped'
  BY <1>1, <1>5, <1>6 DEF ClientInv, ClientTyped
<1>8. Refreshes(c)' => stored # 0
  BY <1>5, <1>6 DEF Refreshes, ApiClient!Refreshing
<1>9. \A d \in Requests \ {c} : Refreshes(d)' <=> Refreshes(d)
  BY <1>6 DEF Refreshes
<1>10. LeftInv'
  BY <1>1, <1>8, <1>9 DEF ClientInv, LeftInv
<1>11. ASSUME ~hit' PROVE StoredInv' /\ \A d \in Requests : CallInv(d)'
  <2>1. ~hit /\ \A d \in Requests : ~Refreshes(d)
    BY <1>1, <1>11
  <2>2. (stored # 0 => stored \in usable) /\ stored \notin revoking /\ (stored = 0 => out)
    BY <2>1 DEF ClientInv, StoredInv, Refreshes, ApiClient!Refreshing
  <2>3. StoredInv'
    BY <1>1, <2>1, <2>2 DEF ClientInv, StoredInv
  <2>4. CallInv(c)'
    BY <1>1, <1>5, <1>6, <1>9, <2>1, <2>2 DEF CallInv
  <2>5. ASSUME NEW d \in Requests \ {c} PROVE CallInv(d)'
    <3>1. CallInv(d) /\ ~Refreshes(d) /\ ~Refreshes(d)'
      BY <1>9, <2>1 DEF ClientInv
    <3> QED
      BY <1>1, <1>6, <3>1 DEF CallInv
  <2> QED
    BY <2>3, <2>4, <2>5
<1> QED
  BY <1>7, <1>10, <1>11 DEF ClientInv

\* The server replaces the pair by one that nothing else names yet.
LEMMA RotateInv == ASSUME ClientInv, NEW c \in Requests, ApiClient!ServerRotates(c) PROVE ClientInv'
<1> DEFINE e == [apiCall[c] EXCEPT !.at = "answered", !.got = issued + 1]
<1>1. /\ UNCHANGED <<stored, revoking, leaving, out, flying>> /\ (hit' <=> hit)
      /\ apiCall[c].at \in {"rotating", "stale"}
      /\ issued' = issued + 1
      /\ usable' = (usable \ {apiCall[c].tok}) \cup (IF apiCall[c].at = "rotating" THEN {issued + 1} ELSE {})
      /\ apiCall' = [apiCall EXCEPT ![c] = e]
  BY DEF ApiClient!ServerRotates, ApiClient!Mishap
<1>2. /\ issued \in Nat /\ issued + 1 \in Nat /\ issued + 1 # 0 /\ issued + 1 # stored
      /\ issued + 1 \notin revoking /\ apiCall[c] \in CallRow
  BY DEF ClientInv, ClientTyped
<1>3. e \in CallRow /\ e.at = "answered" /\ e.got = issued + 1 /\ e.tok = apiCall[c].tok
  BY <1>2 DEF CallRow, ApiClient!Steps
<1> HIDE DEF e
<1>4. /\ apiCall' \in [Requests -> CallRow] /\ apiCall'[c] = e
      /\ \A d \in Requests \ {c} : apiCall'[d] = apiCall[d]
  BY <1>1, <1>3, CallReplaced DEF ClientInv
<1>5. ClientTyped'
  <2>1. /\ 0 .. issued \subseteq 0 .. issued' /\ 1 .. issued \subseteq 1 .. issued'
        /\ issued + 1 \in 0 .. issued' /\ issued + 1 \in 1 .. issued' /\ issued' \in Nat
    BY <1>1, <1>2
  <2>2. usable' \subseteq 1 .. issued'
    BY <1>1, <2>1 DEF ClientInv, ClientTyped
  <2> QED
    BY <1>1, <1>3, <1>4, <2>1, <2>2 DEF ClientInv, ClientTyped
<1>6. Refreshes(c) /\ \A d \in Requests : Refreshes(d)' <=> Refreshes(d)
  BY <1>1, <1>3, <1>4 DEF Refreshes, ApiClient!Refreshing
<1>7. LeftInv'
  BY <1>1, <1>6 DEF ClientInv, LeftInv
<1>8. ASSUME ~hit PROVE StoredInv' /\ \A d \in Requests : CallInv(d)'
  <2>1. \A d \in Requests : Refreshes(d) => d = c
    BY <1>6, <1>8 DEF ClientInv, CallInv
  <2>2. apiCall[c].at = "rotating" /\ issued + 1 \in usable'
    BY <1>1, <1>8 DEF ClientInv, CallInv
  <2>3. StoredInv'
    <3>1. stored # 0 => stored \in usable
      BY <1>1, <1>8, <2>1 DEF ClientInv, StoredInv, Refreshes, ApiClient!Refreshing
    <3>2. stored # 0 => stored \in usable' \/ apiCall'[c].tok = stored
      BY <1>1, <1>3, <1>4, <3>1
    <3>3. apiCall'[c].at = "answered" /\ apiCall'[c].got # 0
      BY <1>2, <1>3, <1>4
    <3> QED
      BY <1>1, <1>8, <3>2, <3>3 DEF ClientInv, StoredInv
  <2>4. CallInv(c)'
    <3>1. CallInv(c)
      BY <1>8 DEF ClientInv
    <3>2. ~out => apiCall'[c].tok \notin revoking
      BY <1>3, <1>4, <1>6, <3>1 DEF CallInv
    <3>3. apiCall'[c].at = "answered" /\ apiCall'[c].got = issued + 1
      BY <1>3, <1>4
    <3> QED
      BY <1>1, <1>2, <1>6, <2>1, <2>2, <3>2, <3>3 DEF CallInv
  <2>5. ASSUME NEW d \in Requests \ {c} PROVE CallInv(d)'
    <3>1. CallInv(d) /\ ~Refreshes(d) /\ ~Refreshes(d)' /\ apiCall'[d] = apiCall[d]
      BY <1>4, <1>6, <1>8, <2>1 DEF ClientInv
    <3>2. apiCall[d].got = 0
      BY <3>1 DEF ClientInv, ClientTyped, Refreshes, ApiClient!Refreshing
    <3> QED
      BY <1>1, <3>1, <3>2 DEF CallInv, Refreshes, ApiClient!Refreshing
  <2> QED
    BY <2>3, <2>4, <2>5
<1> QED
  BY <1>1, <1>5, <1>7, <1>8 DEF ClientInv

\* The answer is stored, or the call gives up; no other call refreshes in a
\* quiet session.
LEMMA TakeInv == ASSUME ClientInv, NEW c \in Requests, ApiClient!TakeAnswer(c) PROVE ClientInv'
<1>1. PICK at \in {"retry", "clear"} :
        /\ UNCHANGED <<issued, usable, revoking, leaving, out, flying>> /\ (hit' <=> hit)
        /\ apiCall[c].at = "answered" /\ ApiClient!Go(c, at)
        /\ stored' = IF apiCall[c].got # 0 THEN apiCall[c].got ELSE stored
        /\ apiCall[c].got # 0 => at = "retry"
  BY DEF ApiClient!TakeAnswer, ApiClient!Stored, ApiClient!Mishap
<1> DEFINE e == ApiClient!At(c, at)
<1>2. e \in CallRow /\ e.at = at /\ e.got = 0
  BY AtRow DEF ClientInv, ApiClient!Steps
<1>3. apiCall' = [apiCall EXCEPT ![c] = e]
  BY <1>1 DEF ApiClient!Go
<1> HIDE DEF e
<1>4. /\ apiCall' \in [Requests -> CallRow] /\ apiCall'[c] = e
      /\ \A d \in Requests \ {c} : apiCall'[d] = apiCall[d]
  BY <1>2, <1>3, CallReplaced DEF ClientInv
<1>5. ClientTyped'
  BY <1>1, <1>2, <1>4 DEF ClientInv, ClientTyped
<1>6. Refreshes(c) /\ \A d \in Requests : Refreshes(d)' => Refreshes(d) /\ d # c
  BY <1>1, <1>2, <1>4 DEF Refreshes, ApiClient!Refreshing
<1>7. LeftInv'
  BY <1>1, <1>6 DEF ClientInv, LeftInv
<1>8. ASSUME ~hit PROVE StoredInv' /\ \A d \in Requests : CallInv(d)'
  <2>1. CallInv(c) /\ StoredInv
    BY <1>8 DEF ClientInv
  <2>2. \A d \in Requests : Refreshes(d) => d = c
    BY <1>6, <2>1 DEF CallInv
  <2>3. CASE apiCall[c].got # 0
    <3>1. stored' \in usable \ revoking /\ stored' # 0 /\ at = "retry"
      BY <1>1, <2>1, <2>3 DEF CallInv
    <3>2. StoredInv'
      BY <1>1, <2>1, <3>1 DEF StoredInv
    <3>3. CallInv(c)'
      BY <1>1, <1>2, <1>4, <1>6, <3>1 DEF CallInv
    <3>4. ASSUME NEW d \in Requests \ {c} PROVE CallInv(d)'
      <4>1. CallInv(d) /\ ~Refreshes(d) /\ ~Refreshes(d)' /\ apiCall'[d] = apiCall[d]
        BY <1>4, <1>6, <1>8, <2>2 DEF ClientInv
      <4>2. apiCall[d].got = 0
        BY <4>1 DEF ClientInv, ClientTyped, Refreshes, ApiClient!Refreshing
      <4> QED
        BY <1>1, <4>1, <4>2 DEF CallInv, Refreshes, ApiClient!Refreshing
    <3> QED
      BY <3>2, <3>3, <3>4
  <2>4. CASE apiCall[c].got = 0
    <3>1. out /\ stored' = stored
      BY <1>1, <2>1, <2>4 DEF CallInv
    <3>2. stored # 0 => stored \in usable
      <4>1. \A d \in Requests : apiCall[d].at = "answered" => d = c
        BY <2>2 DEF Refreshes, ApiClient!Refreshing
      <4> QED
        BY <2>1, <2>4, <4>1 DEF StoredInv
    <3>3. StoredInv'
      BY <1>1, <2>1, <3>1, <3>2 DEF StoredInv
    <3>4. CallInv(c)'
      BY <1>1, <1>2, <1>4, <1>6, <3>1 DEF CallInv
    <3>5. ASSUME NEW d \in Requests \ {c} PROVE CallInv(d)'
      <4>1. CallInv(d) /\ ~Refreshes(d)' /\ apiCall'[d] = apiCall[d]
        BY <1>4, <1>6, <1>8, <2>2 DEF ClientInv
      <4> QED
        BY <1>1, <3>1, <4>1 DEF CallInv
    <3> QED
      BY <3>3, <3>4, <3>5
  <2> QED
    BY <2>3, <2>4
<1> QED
  BY <1>1, <1>5, <1>7, <1>8 DEF ClientInv

\* A call clears the tokens: in a quiet session, only when they were given up.
LEMMA ClearInv == ASSUME ClientInv, NEW c \in Requests, ApiClient!Clear(c) PROVE ClientInv'
<1>1. /\ UNCHANGED <<issued, usable, revoking, leaving, out, flying>> /\ (hit' <=> hit)
      /\ apiCall[c].at = "clear" /\ stored' = 0 /\ ApiClient!Go(c, "idle")
  BY DEF ApiClient!Clear, ApiClient!Mishap
<1> DEFINE e == ApiClient!At(c, "idle")
<1>2. e \in CallRow /\ e.at = "idle" /\ e.got = 0
  BY AtRow DEF ClientInv, ApiClient!Steps
<1>3. apiCall' = [apiCall EXCEPT ![c] = e]
  BY <1>1 DEF ApiClient!Go
<1> HIDE DEF e
<1>4. /\ apiCall' \in [Requests -> CallRow] /\ apiCall'[c] = e
      /\ \A d \in Requests \ {c} : apiCall'[d] = apiCall[d]
  BY <1>2, <1>3, CallReplaced DEF ClientInv
<1>5. ClientTyped'
  BY <1>1, <1>2, <1>4 DEF ClientInv, ClientTyped
<1>6. \A d \in Requests : Refreshes(d)' => Refreshes(d) /\ d # c
  BY <1>2, <1>4 DEF Refreshes, ApiClient!Refreshing
<1>7. LeftInv'
  BY <1>1, <1>6 DEF ClientInv, LeftInv
<1>8. ASSUME ~hit PROVE StoredInv' /\ \A d \in Requests : CallInv(d)'
  <2>1. CallInv(c) /\ out
    BY <1>1, <1>8 DEF ClientInv, CallInv
  <2>2. StoredInv'
    BY <1>1, <1>5, <2>1 DEF StoredInv, ClientTyped
  <2>3. ASSUME NEW d \in Requests PROVE CallInv(d)'
    <3>1. CallInv(d) /\ (apiCall'[d] = e \/ apiCall'[d] = apiCall[d])
      BY <1>4, <1>8 DEF ClientInv
    <3>2. (Refreshes(d)' => \A f \in Requests : Refreshes(f)' => f = d)
      BY <1>6, <3>1 DEF CallInv
    <3>3. apiCall'[d].got # 0 => apiCall'[d].got \in usable \ revoking /\ apiCall'[d].at # "stale"
      BY <1>2, <3>1 DEF CallInv
    <3>4. apiCall'[d].at # "stale"
      BY <1>2, <3>1 DEF CallInv
    <3> QED
      BY <1>1, <2>1, <3>2, <3>3, <3>4 DEF CallInv
  <2> QED
    BY <2>2, <2>3
<1> QED
  BY <1>1, <1>5, <1>7, <1>8 DEF ClientInv

\* The user logs out, or a tab is closed: what still refreshes is noted.
LEMMA LeaveInv ==
  ASSUME ClientInv, ApiClient!Logout \/ \E cs \in SUBSET Requests : ApiClient!Unload(cs)
  PROVE  ClientInv'
<1>1. apiCall \in [Requests -> CallRow]
  BY DEF ClientInv, ClientTyped
<1>2. /\ UNCHANGED <<issued, usable, hit>> /\ stored' = 0 /\ out'
      /\ revoking' \subseteq revoking \cup {stored} /\ 0 \notin revoking'
      /\ apiCall' \in [Requests -> CallRow]
      /\ \A c \in Requests : apiCall'[c] = ApiClient!Idle \/ apiCall'[c] = apiCall[c]
      /\ ~flying' => \A c \in Requests : ~Refreshes(c)'
  <2>1. CASE ApiClient!Logout
    <3>1. /\ UNCHANGED <<issued, usable, hit, apiCall>> /\ stored' = 0 /\ stored # 0 /\ out'
          /\ revoking' = revoking \cup {stored}
      BY <2>1 DEF ApiClient!Logout
    <3>2. ~flying' => \A c \in Requests : ~Refreshes(c)
      <4>1. flying' = \E c \in Requests : Refreshes(c)
        BY <2>1 DEF ApiClient!Logout, ApiClient!InFlight, Refreshes
      <4> QED
        BY <4>1
    <3>3. 0 \notin revoking
      BY DEF ClientInv, ClientTyped
    <3> QED
      BY <1>1, <3>1, <3>2, <3>3 DEF Refreshes
  <2>2. CASE \E cs \in SUBSET Requests : ApiClient!Unload(cs)
    <3>1. PICK cs \in SUBSET Requests : ApiClient!Unload(cs)
      BY <2>2
    <3>2. /\ UNCHANGED <<issued, usable, revoking, hit>> /\ stored' = 0 /\ out'
          /\ apiCall' = [c \in Requests |-> IF c \in cs THEN ApiClient!Idle ELSE apiCall[c]]
      BY <3>1 DEF ApiClient!Unload
    <3>3. ~flying' => \A c \in Requests \ cs : ~Refreshes(c)
      <4>1. flying' = \E c \in Requests \ cs : Refreshes(c)
        BY <3>1 DEF ApiClient!Unload, ApiClient!InFlight, Refreshes
      <4> QED
        BY <4>1
    <3>4. 0 \notin revoking
      BY DEF ClientInv, ClientTyped
    <3>5. \A c \in Requests : /\ c \in cs => apiCall'[c] = ApiClient!Idle
                              /\ c \notin cs => apiCall'[c] = apiCall[c]
      BY <3>2
    <3>6. apiCall' \in [Requests -> CallRow]
      BY <1>1, <3>2, IdleCall
    <3>7. ASSUME ~flying', NEW c \in Requests PROVE ~Refreshes(c)'
      BY <3>3, <3>5, <3>7, IdleCall DEF Refreshes, ApiClient!Refreshing
    <3> QED
      BY <3>2, <3>4, <3>5, <3>6, <3>7
  <2> QED
    BY <2>1, <2>2
<1> HIDE DEF ApiClient!Idle
<1>3. ClientTyped'
  <2>1. \A c \in Requests : /\ apiCall'[c].got \in 0 .. issued
                            /\ apiCall'[c].got # 0 => apiCall'[c].at = "answered"
    BY <1>2, IdleCall DEF ClientInv, ClientTyped
  <2>2. revoking' \subseteq 1 .. issued
    BY <1>2 DEF ClientInv, ClientTyped
  <2> QED
    BY <1>2, <2>1, <2>2 DEF ClientInv, ClientTyped
<1>4. LeftInv'
  BY <1>2 DEF LeftInv
<1>5. ASSUME ~hit PROVE StoredInv' /\ \A c \in Requests : CallInv(c)'
  <2>1. 0 \notin revoking'
    BY <1>3 DEF ClientTyped
  <2>2. StoredInv'
    BY <1>2, <2>1 DEF StoredInv
  <2>3. ASSUME NEW c \in Requests PROVE CallInv(c)'
    <3>1. CallInv(c)
      BY <1>5 DEF ClientInv
    <3>2. \A d \in Requests : Refreshes(d)' => Refreshes(d)
      BY <1>2, IdleCall DEF Refreshes, ApiClient!Refreshing
    <3>3. apiCall'[c].at # "stale"
      BY <1>2, <3>1, IdleCall DEF CallInv
    <3>4. apiCall'[c].got # 0 => apiCall'[c].got \in usable \ revoking' /\ apiCall'[c].got # 0
      BY <1>2, <3>1, IdleCall DEF CallInv
    <3> QED
      BY <1>2, <3>1, <3>2, <3>3, <3>4 DEF CallInv
  <2> QED
    BY <2>2, <2>3
<1> QED
  BY <1>2, <1>3, <1>4, <1>5 DEF ClientInv

\* A user logs in: with nothing under way, to a quiet session.
LEMMA LoginInv == ASSUME ClientInv, ApiClient!Login PROVE ClientInv'
<1>1. /\ UNCHANGED <<apiCall, revoking, leaving, flying>>
      /\ issued' = issued + 1 /\ stored' = issued + 1 /\ usable' = usable \cup {issued + 1}
      /\ out' = FALSE /\ hit' = (leaving # {} \/ \E c \in Requests : apiCall[c] # ApiClient!Idle)
  BY DEF ApiClient!Login
<1>2. ClientTyped'
  <2>1. /\ 0 .. issued \subseteq 0 .. issued' /\ 1 .. issued \subseteq 1 .. issued'
        /\ issued + 1 \in 0 .. issued' /\ issued + 1 \in 1 .. issued' /\ issued' \in Nat
    BY <1>1 DEF ClientInv, ClientTyped
  <2> QED
    BY <1>1, <2>1 DEF ClientInv, ClientTyped
<1>3. LeftInv'
  BY <1>1 DEF LeftInv
<1>4. issued + 1 # 0 /\ issued + 1 \notin revoking
  BY DEF ClientInv, ClientTyped
<1>5. ASSUME ~hit' PROVE StoredInv' /\ \A c \in Requests : CallInv(c)'
  <2>1. leaving = {} /\ \A c \in Requests : apiCall[c] = ApiClient!Idle
    BY <1>1, <1>5
  <2>2. \A c \in Requests : apiCall[c].at = "idle" /\ apiCall[c].got = 0
    BY <2>1, IdleCall
  <2>3. StoredInv'
    BY <1>1, <1>4, <2>1 DEF StoredInv
  <2>4. \A c \in Requests : CallInv(c)'
    BY <1>1, <2>2 DEF CallInv, Refreshes, ApiClient!Refreshing
  <2> QED
    BY <2>3, <2>4
<1> QED
  BY <1>2, <1>3, <1>5 DEF ClientInv

\* A revocation arrives, a logout ends, tokens run out or the version is
\* raised.
LEMMA OutsideInv ==
  ASSUME ClientInv,
         \/ ApiClient!AccessRunsOut \/ ApiClient!RefreshRunsOut \/ ApiClient!VersionRaised
         \/ \E n \in revoking : ApiClient!RevokeArrives(n)
         \/ \E n \in leaving : ApiClient!LogoutEnds(n)
  PROVE  ClientInv'
<1> USE DEF ApiClient!Mishap
<1>1. CASE ApiClient!AccessRunsOut
  <2>1. UNCHANGED <<stored, issued, usable, apiCall, revoking, leaving, out, flying>> /\ (hit' <=> hit)
    BY <1>1 DEF ApiClient!AccessRunsOut
  <2> QED
    BY <2>1 DEF ClientInv, ClientTyped, LeftInv, StoredInv, CallInv, Refreshes
<1>2. CASE ApiClient!RefreshRunsOut
  <2>1. UNCHANGED <<stored, issued, apiCall, revoking, out, flying>> /\ usable' \subseteq usable /\ hit'
    BY <1>2 DEF ApiClient!RefreshRunsOut
  <2>2. ClientTyped' /\ LeftInv'
    BY <2>1 DEF ClientInv, ClientTyped, LeftInv, Refreshes
  <2> QED
    BY <2>1, <2>2 DEF ClientInv
<1>3. CASE ApiClient!VersionRaised
  <2> DEFINE e(c) == [apiCall[c] EXCEPT !.at = "stale"]
  <2>1. /\ UNCHANGED <<stored, issued, revoking, out, flying>> /\ usable' = {} /\ hit'
        /\ apiCall' = [c \in Requests |-> IF apiCall[c].at = "rotating" THEN e(c) ELSE apiCall[c]]
    BY <1>3 DEF ApiClient!VersionRaised
  <2>2. ASSUME NEW c \in Requests PROVE e(c) \in CallRow /\ e(c).at = "stale" /\ e(c).got = apiCall[c].got
    BY DEF ClientInv, ClientTyped, CallRow, ApiClient!Steps
  <2> HIDE DEF e
  <2>3. apiCall' \in [Requests -> CallRow]
    BY <2>1, <2>2 DEF ClientInv, ClientTyped
  <2>4. ASSUME NEW c \in Requests
        PROVE  /\ apiCall'[c].got \in 0 .. issued /\ (apiCall'[c].got # 0 => apiCall'[c].at = "answered")
               /\ Refreshes(c)' => Refreshes(c)
    <3>1. /\ apiCall[c].at = "rotating" => apiCall'[c] = e(c)
          /\ apiCall[c].at # "rotating" => apiCall'[c] = apiCall[c]
      BY <2>1
    <3> QED
      BY <2>2, <3>1 DEF ClientInv, ClientTyped, Refreshes, ApiClient!Refreshing
  <2>5. ClientTyped' /\ LeftInv'
    BY <2>1, <2>3, <2>4 DEF ClientInv, ClientTyped, LeftInv
  <2> QED
    BY <2>1, <2>5 DEF ClientInv
<1>4. ASSUME NEW n \in revoking, ApiClient!RevokeArrives(n) PROVE ClientInv'
  <2>1. /\ UNCHANGED <<stored, issued, apiCall, leaving, out, flying>> /\ (hit' <=> hit)
        /\ revoking' = revoking \ {n} /\ usable' = usable \ {n}
    BY <1>4 DEF ApiClient!RevokeArrives
  <2>2. ClientTyped' /\ LeftInv'
    BY <2>1 DEF ClientInv, ClientTyped, LeftInv, Refreshes
  <2>3. ASSUME ~hit PROVE StoredInv'
    BY <2>1, <2>3 DEF ClientInv, StoredInv
  <2>4. ASSUME ~hit, NEW c \in Requests PROVE CallInv(c)'
    <3>1. ~out /\ Refreshes(c) => apiCall[c].tok # n
      BY <2>4 DEF ClientInv, CallInv
    <3>2. apiCall[c].at = "asked" => Refreshes(c)
      BY DEF Refreshes, ApiClient!Refreshing
    <3> QED
      BY <2>1, <2>4, <3>1, <3>2 DEF ClientInv, CallInv, Refreshes
  <2> QED
    BY <2>1, <2>2, <2>3, <2>4 DEF ClientInv
<1>5. ASSUME NEW n \in leaving, ApiClient!LogoutEnds(n) PROVE ClientInv'
  <2>1. /\ UNCHANGED <<issued, usable, apiCall, revoking, out, flying>> /\ (hit' <=> hit)
        /\ stored' = 0 /\ leaving' = leaving \ {n}
    BY <1>5 DEF ApiClient!LogoutEnds
  <2>2. ClientTyped' /\ LeftInv'
    BY <2>1 DEF ClientInv, ClientTyped, LeftInv, Refreshes
  <2>3. ASSUME ~hit PROVE StoredInv'
    <3>1. out /\ 0 \notin revoking
      BY <2>3 DEF ClientInv, StoredInv, ClientTyped
    <3> QED
      BY <2>1, <3>1 DEF StoredInv
  <2>4. ASSUME ~hit, NEW c \in Requests PROVE CallInv(c)'
    <3>1. CallInv(c)
      BY <2>4 DEF ClientInv
    <3> QED
      BY <2>1, <3>1 DEF CallInv, Refreshes
  <2> QED
    BY <2>1, <2>2, <2>3, <2>4 DEF ClientInv
<1> QED
  BY <1>1, <1>2, <1>3, <1>4, <1>5

\* The invariant holds throughout.
LEMMA ClientInvariance == PlatformSpec => [](part = "client" => ClientInv)
<1>1. PlatformInit => (part = "client" => ClientInv)
  <2> SUFFICES ASSUME PlatformInit, part = "client" PROVE ClientInv
    OBVIOUS
  <2>1. ApiClient!Init
    BY DEF PlatformInit
  <2>2. apiCall \in [Requests -> CallRow] /\ \A c \in Requests : apiCall[c].at = "idle" /\ apiCall[c].got = 0
    BY <2>1, IdleCall DEF ApiClient!Init
  <2>3. stored = 1 /\ issued = 1 /\ usable = {1} /\ revoking = {} /\ leaving = {} /\ out = FALSE
    BY <2>1 DEF ApiClient!Init
  <2>4. ClientTyped
    BY <2>2, <2>3 DEF ClientTyped
  <2>5. LeftInv /\ StoredInv
    BY <2>3 DEF LeftInv, StoredInv
  <2>6. \A c \in Requests : CallInv(c)
    BY <2>2 DEF CallInv, Refreshes, ApiClient!Refreshing
  <2> QED
    BY <2>4, <2>5, <2>6 DEF ClientInv
<1>2. (part = "client" => ClientInv) /\ [PlatformNext]_allVars => (part = "client" => ClientInv)'
  <2>1. ASSUME ClientInv,
               UNCHANGED <<stored, issued, usable, valid, apiCall, revoking, leaving, out, flying, hit>>
        PROVE  ClientInv'
    BY <2>1 DEF ClientInv, ClientTyped, LeftInv, StoredInv, CallInv, Refreshes
  <2>2. [PlatformNext]_allVars =>
          /\ part' = part
          /\ part = "client" =>
               \/ ApiClient!Next
               \/ UNCHANGED <<stored, issued, usable, valid, apiCall, revoking, leaving, out, flying, hit>>
    BY DEF PlatformNext, Only, allVars
  <2>3. ClientInv /\ ApiClient!Next => ClientInv'
    BY CallSteps, AskInv, RotateInv, TakeInv, ClearInv, LeaveInv, LoginInv, OutsideInv DEF ApiClient!Next
  <2> QED
    BY <2>1, <2>2, <2>3
<1> QED
  BY <1>1, <1>2, PTL DEF PlatformSpec

\* The browser keeps tokens until they are given up or a mishap takes them,
\* keeps none after that, and what it keeps still works (apiFetch, tryRefresh
\* and logoutApi in web/src/lib/api.ts, hydrate and logout in auth-store.ts).
THEOREM TokensAreKept == PlatformSpec => []TokensKept
<1>1. ClientInv => ApiClient!TokensKept
  <2> SUFFICES ASSUME ClientInv PROVE ApiClient!TokensKept
    OBVIOUS
  <2>1. ApiClient!SignedOutForCause
    BY DEF ClientInv, StoredInv, ApiClient!SignedOutForCause
  <2>2. ApiClient!StaysLoggedOut
    BY DEF ClientInv, LeftInv, ApiClient!StaysLoggedOut
  <2>3. ApiClient!StoredIsUsable
    BY DEF ClientInv, StoredInv, ApiClient!StoredIsUsable
  <2> QED
    BY <2>1, <2>2, <2>3 DEF ApiClient!TokensKept
<1>2. (part = "client" => ClientInv) => TokensKept
  BY <1>1 DEF TokensKept
<1> QED
  BY <1>2, ClientInvariance, PTL
=============================================================================
