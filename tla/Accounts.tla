------------------------------ MODULE Accounts ------------------------------
(***************************************************************************)
(* Signing in and staying signed in: the users row of one account, the     *)
(* token pairs issued for it and the list of revoked refresh tokens        *)
(* (api/app/routers/auth.py, services/auth.py, core/security.py,           *)
(* core/deps.py, services/password_reset.py, and the account switches of   *)
(* the two admin routers).  Every key and every query of this code names   *)
(* one user, so one account is enough.  The list of sessions is in         *)
(* Sessions: no token is checked against it.                               *)
(*                                                                         *)
(* A handler reads the row, awaits, and writes what it computed from what  *)
(* it read.  A pair is the access and the refresh token made together:     *)
(* both carry the version the row had when it was read.  Time is left to   *)
(* choice: a token that has run out is one that nobody presents any more.  *)
(***************************************************************************)
EXTENDS Integers, Sequences, FiniteSets

CONSTANTS
  Handlers,       \* requests the server works on at the same time
  MaxPairs,       \* bound: token pairs issued
  MaxVersion,     \* bound: credential changes
  SerialChanges   \* TRUE: a credential change starts when no other is under way

AccountsAssumption ==
  /\ IsFiniteSet(Handlers)
  /\ MaxPairs \in Nat /\ MaxVersion \in Nat
  /\ SerialChanges \in BOOLEAN

VARIABLES
  row,      \* the users row: is it active, token_version, password
  pairs,    \* the pairs issued: version, password behind it, pair refreshed
  revoked,  \* revoked_refresh:<jti>
  reset,    \* a reset token is stored and has not run out
  req       \* what each request is at, and what it holds of what it read

vars == <<row, pairs, revoked, reset, req>>

Row == [active : BOOLEAN, ver : Nat, pw : Nat]
Pair == [ver : Nat, pw : Nat, parent : Nat]
\* change_password, reset_password, and the two that raise the version of
\* this row and change nothing else of it: change_school_code and
\* revoke_all_sessions_endpoint.
Changes == {"password", "reset", "version"}
Request ==
  [at : {"idle", "load", "rotate", "commit", "reload", "reissue"},
   op : Changes \cup {"none"}, ver : Nat, pw : Nat, tok : Nat]

Idle == [at |-> "idle", op |-> "none", ver |-> 0, pw |-> 0, tok |-> 0]

\* signup: the account exists and its owner knows the password.
Init ==
  /\ row = [active |-> TRUE, ver |-> 0, pw |-> 0]
  /\ pairs = <<>> /\ revoked = {} /\ reset = FALSE
  /\ req = [h \in Handlers |-> Idle]

\* get_current_user: the access token of pair j opens the account.
Authenticated(j) == row.active /\ pairs[j].ver = row.ver

\* _pair: both tokens carry the version that the handler read.
Issue(ver, pw, parent) ==
  /\ Len(pairs) < MaxPairs
  /\ pairs' = Append(pairs, [ver |-> ver, pw |-> pw, parent |-> parent])

Done(h) == req' = [req EXCEPT ![h] = Idle]

-----------------------------------------------------------------------------
\* login with the right password: what follows the issuing touches neither
\* the row's version nor the lists, and a pair issued later than the row was
\* read is the pair issued here.  A wrong password is in RateLimits.
Login ==
  /\ row.active
  /\ Issue(row.ver, row.pw, 0)
  /\ UNCHANGED <<row, revoked, reset, req>>

\* refresh_tokens: is the token on the list?
RefreshCheck(h, j) ==
  /\ req[h] = Idle /\ j \notin revoked
  /\ req' = [req EXCEPT ![h] = [Idle EXCEPT !.at = "load", !.tok = j]]
  /\ UNCHANGED <<row, pairs, revoked, reset>>

\* The user is loaded; the version must be that of the token.
RefreshLoad(h) ==
  /\ req[h].at = "load"
  /\ req' = [req EXCEPT ![h] = IF Authenticated(req[h].tok)
               THEN [@ EXCEPT !.at = "rotate", !.ver = row.ver] ELSE Idle]
  /\ UNCHANGED <<row, pairs, revoked, reset>>

\* Variant: the old refresh token stays good.
Rotate_keepsOld(h) ==
  /\ req[h].at = "rotate"
  /\ Issue(req[h].ver, pairs[req[h].tok].pw, req[h].tok)
  /\ Done(h)
  /\ UNCHANGED <<row, revoked, reset>>

\* The token goes on the list and a new pair is issued from the user as it
\* was loaded.
Rotate(h) ==
  /\ req[h].at = "rotate"
  /\ revoked' = revoked \cup {req[h].tok}
  /\ Issue(req[h].ver, pairs[req[h].tok].pw, req[h].tok)
  /\ Done(h)
  /\ UNCHANGED <<row, reset>>

\* logout: the refresh token it is given goes on the list.
Logout(j) ==
  /\ revoked' = revoked \cup {j}
  /\ UNCHANGED <<row, pairs, reset, req>>

-----------------------------------------------------------------------------
(* What changes the version.                                               *)

Changing(h) == req[h].at = "commit"

StartChange(h, what) ==
  /\ req[h] = Idle /\ row.ver < MaxVersion
  /\ SerialChanges => \A g \in Handlers : ~Changing(g)
  /\ req' = [req EXCEPT ![h] = [Idle EXCEPT !.at = "commit", !.op = what, !.ver = row.ver]]
  /\ UNCHANGED <<row, pairs, revoked, reset>>

\* With an access token and, but for revoke_all_sessions_endpoint, the
\* current password.
Change(h, j, what) == what # "reset" /\ Authenticated(j) /\ StartChange(h, what)

\* With a reset token: it is looked up and left where it is.
Reset(h) == reset /\ row.active /\ StartChange(h, "reset")

\* Variant: a reset does not raise the version.
NewVersion_notReset(h) == IF req[h].op = "reset" THEN row.ver ELSE req[h].ver + 1

\* user.token_version += 1, on the row as it was read.
NewVersion(h) == req[h].ver + 1

\* The commit writes the columns that the handler assigned.
Commit(h) ==
  /\ req[h].at = "commit"
  /\ row' = [row EXCEPT !.ver = NewVersion(h),
                        !.pw = IF req[h].op \in {"password", "reset"} THEN @ + 1 ELSE @]
  /\ req' = [req EXCEPT ![h] = IF @.op = "password" THEN [@ EXCEPT !.at = "reload"] ELSE Idle]
  /\ UNCHANGED <<pairs, revoked, reset>>

\* change_password reads the row again ...
Reload(h) ==
  /\ req[h].at = "reload"
  /\ req' = [req EXCEPT ![h].at = "reissue", ![h].ver = row.ver, ![h].pw = row.pw]
  /\ UNCHANGED <<row, pairs, revoked, reset>>

\* ... and issues a pair from it: this device stays signed in.
Reissue(h) ==
  /\ req[h].at = "reissue"
  /\ Issue(req[h].ver, req[h].pw, 0)
  /\ Done(h)
  /\ UNCHANGED <<row, revoked, reset>>

-----------------------------------------------------------------------------
ForgotPassword ==
  /\ row.active /\ ~reset
  /\ reset' = TRUE
  /\ UNCHANGED <<row, pairs, revoked, req>>

ResetRunsOut ==
  /\ reset /\ reset' = FALSE
  /\ UNCHANGED <<row, pairs, revoked, req>>

\* deactivate_teacher, deactivate_user, or an update that sets is_active:
\* one column is written, the version stays.
SetActive(b) ==
  /\ row.active # b
  /\ row' = [row EXCEPT !.active = b]
  /\ UNCHANGED <<pairs, revoked, reset, req>>

Next ==
  \/ Login \/ ForgotPassword \/ ResetRunsOut
  \/ \E b \in BOOLEAN : SetActive(b)
  \/ \E j \in DOMAIN pairs : Logout(j)
  \/ \E h \in Handlers :
       \/ RefreshLoad(h) \/ Rotate(h)
       \/ Reset(h) \/ Commit(h) \/ Reload(h) \/ Reissue(h)
       \/ \E j \in DOMAIN pairs :
            RefreshCheck(h, j) \/ \E what \in Changes : Change(h, j, what)

Spec == Init /\ [][Next]_vars

-----------------------------------------------------------------------------
TypeOK ==
  /\ row \in Row /\ pairs \in Seq(Pair) /\ reset \in BOOLEAN
  /\ revoked \subseteq DOMAIN pairs
  /\ req \in [Handlers -> Request]

\* A pair that is still accepted was obtained with the password the account
\* has now: a change or a reset ends every pair that goes back to the old
\* password, those issued by logins and refreshes that overlap it included.
AcceptedIsCurrent ==
  \A j \in DOMAIN pairs : pairs[j].ver = row.ver => pairs[j].pw = row.pw

\* Rotation: a refresh token, however often it is presented, yields at most
\* one pair per request that was at work when the first of them revoked it.
RotationBounded ==
  \A j \in DOMAIN pairs :
    Cardinality({k \in DOMAIN pairs : pairs[k].parent = j}) <= Cardinality(Handlers)
=============================================================================
