----------------------------- MODULE TenantPool -----------------------------
(***************************************************************************)
(* The tenant settings of pooled database connections (api/app/core/db.py  *)
(* and core/tenant.py).  A request's session sets the school on the        *)
(* connection of its first transaction; the setting is of the connection,  *)
(* and like any write it stays only when its transaction commits.  After a *)
(* commit the session gives the connection back, and the next statement    *)
(* takes any free one.  That a transaction ends without a commit, the end  *)
(* of every session included, is a rollback.                               *)
(***************************************************************************)
EXTENDS Integers, FiniteSets

CONSTANTS
  Requests,   \* requests at work at the same time
  Conns,      \* connections of the pool
  Schools,
  Nobody,     \* the setting of a request without a token, and of a reset
  None        \* no connection

TenantPoolAssumption == None \notin Conns

VARIABLES
  set,        \* each connection: the school set and committed
  now,        \* each connection: the school that its statements see
  session     \* each request: where it is, its school, its connection

vars == <<set, now, session>>

Idle == [at |-> "idle", school |-> Nobody, conn |-> None]

Init ==
  /\ set = [c \in Conns |-> Nobody] /\ now = set
  /\ session = [r \in Requests |-> Idle]

Free == Conns \ {session[r].conn : r \in Requests}

\* Variant: a request without a token sets nothing.
Applied_tokenOnly(school, c) == IF school = Nobody THEN now[c] ELSE school

\* _apply_rls_gucs: one without a token clears the setting.
Applied(school, c) == school

\* TenantContextMiddleware and get_db: a session and its first transaction.
Open(r, school, c) ==
  /\ session[r] = Idle /\ c \in Free
  /\ session' = [session EXCEPT ![r] = [at |-> "first", school |-> school, conn |-> c]]
  /\ now' = [now EXCEPT ![c] = Applied(school, c)]
  /\ UNCHANGED set

\* The handler commits; its connection is free.
Commit(r) ==
  LET c == session[r].conn IN
  /\ c # None
  /\ set' = [set EXCEPT ![c] = now[c]]
  /\ session' = [session EXCEPT ![r].at = "later", ![r].conn = None]
  /\ UNCHANGED now

\* The next statement, on any free connection.
Continue(r, c) ==
  /\ session[r].at = "later" /\ session[r].conn = None /\ c \in Free
  /\ session' = [session EXCEPT ![r].conn = c]
  /\ UNCHANGED <<set, now>>

\* _reset_rls_gucs on the connection the session has, or on a free one: seen
\* only by the transaction that the closing session rolls back.
Close(r) ==
  LET c == session[r].conn IN
  /\ session[r] # Idle /\ (c = None => Free # {})
  /\ now' = IF c = None THEN now ELSE [now EXCEPT ![c] = set[c]]
  /\ session' = [session EXCEPT ![r] = Idle]
  /\ UNCHANGED set

Next ==
  \E r \in Requests :
    \/ Commit(r) \/ Close(r)
    \/ \E c \in Conns : Continue(r, c) \/ \E s \in Schools \cup {Nobody} : Open(r, s, c)

Spec == Init /\ [][Next]_vars

-----------------------------------------------------------------------------
TypeOK ==
  /\ set \in [Conns -> Schools \cup {Nobody}] /\ now \in [Conns -> Schools \cup {Nobody}]
  /\ session \in [Requests -> [at : {"idle", "first", "later"}, school : Schools \cup {Nobody},
                               conn : Conns \cup {None}]]

\* Until its first commit a request runs under its own school, whatever
\* earlier requests left on the connection: the reset at the end of a session
\* is rolled back with it, so it is the setting at the start that counts, that
\* of a request without a school included.
OwnUntilCommit ==
  \A r \in Requests : session[r].at = "first" => now[session[r].conn] = session[r].school
=============================================================================
