----------------------------- MODULE ApiClient ------------------------------
(***************************************************************************)
(* The browser's side of a session: the pair of tokens in local storage    *)
(* and the calls that share it (web/src/lib/api.ts, auth-store.ts),        *)
(* against a server that takes each refresh token once (the two steps of   *)
(* refresh_tokens in Accounts).  Several calls run at once, and each       *)
(* refreshes by itself when it is answered 401.  Pairs are numbered as     *)
(* they are issued.                                                        *)
(***************************************************************************)
EXTENDS Integers

CONSTANTS
  Calls,      \* calls that are under way at the same time
  MaxPairs    \* bound: pairs issued

ApiClientAssumption == MaxPairs \in Nat \ {0}

VARIABLES
  stored,     \* mk_auth: the pair in local storage, 0 without one
  issued,     \* pairs issued
  usable,     \* pairs whose refresh token the server takes
  valid,      \* pairs whose access token the server takes
  call,       \* each call: where it is, whether hydrate made it, the refresh
              \* token it sent, the pair it was sent with and was answered
  revoking,   \* logout requests on their way
  leaving,    \* logouts whose user waits for the answer
  out,        \* history: logged out or a tab closed, and not logged in since
  flying,     \* history: a call was refreshing at that time
  hit         \* history: one of the mishaps below, since the last login

vars == <<stored, issued, usable, valid, call, revoking, leaving, out, flying, hit>>

Steps == {"idle", "sent", "refused", "asked", "rotating", "stale", "answered", "retry", "clear"}
Idle == [at |-> "idle", opening |-> FALSE, used |-> 0, tok |-> 0, got |-> 0]
Refreshing == {"asked", "rotating", "stale", "answered"}
InFlight(cs) == \E c \in cs : call[c].at \in Refreshing

Init ==
  /\ stored = 1 /\ issued = 1 /\ usable = {1} /\ valid = {1}
  /\ call = [c \in Calls |-> Idle] /\ revoking = {} /\ leaving = {}
  /\ out = FALSE /\ flying = FALSE /\ hit = FALSE

\* A call keeps only what its later steps look at.
At(c, at) ==
  IF at \in {"idle", "clear"} THEN [Idle EXCEPT !.at = at]
  ELSE IF at = "retry" THEN [Idle EXCEPT !.at = at, !.opening = call[c].opening]
  ELSE [call[c] EXCEPT !.at = at]
Go(c, at) == call' = [call EXCEPT ![c] = At(c, at)]
Mishap(is) == hit' = (hit \/ is) /\ UNCHANGED <<out, flying>>

\* apiFetch sends what is stored.  A tab that opens makes such a call by
\* itself, in hydrate.
Begin(c, opening) ==
  /\ call[c] = Idle /\ stored # 0
  /\ call' = [call EXCEPT ![c] = [Idle EXCEPT !.at = "sent", !.opening = opening, !.used = stored]]
  /\ UNCHANGED <<stored, issued, usable, valid, revoking, leaving>> /\ Mishap(FALSE)

Answered(c) ==
  /\ call[c].at = "sent"
  /\ Go(c, IF call[c].used \in valid THEN "idle" ELSE "refused")
  /\ UNCHANGED <<stored, issued, usable, valid, revoking, leaving>> /\ Mishap(FALSE)

\* hydrate gives up on any error: no network, a failure of the server, a
\* repeated call that is refused.
HydrateFails(c) ==
  /\ call[c].opening /\ call[c].at \in {"sent", "retry"}
  /\ Go(c, "clear")
  /\ UNCHANGED <<stored, issued, usable, valid, revoking, leaving>> /\ Mishap(TRUE)

\* Variant: the refresh token that belongs to the access token it sent.
TokenFor_used(c) == call[c].used

\* tryRefresh reads the storage again.
TokenFor(c) == stored

\* Two calls that refresh at once are a mishap: one of them is refused.
AskRefresh(c) ==
  /\ call[c].at = "refused"
  /\ call' = [call EXCEPT ![c] = IF TokenFor(c) = 0 THEN At(c, "clear")
                                ELSE [At(c, "asked") EXCEPT !.used = 0, !.tok = TokenFor(c)]]
  /\ UNCHANGED <<stored, issued, usable, valid, revoking, leaving>> /\ Mishap(InFlight(Calls))

\* The server looks the token up ...
ServerChecks(c) ==
  /\ call[c].at = "asked"
  /\ Go(c, IF call[c].tok \in usable THEN "rotating" ELSE "answered")
  /\ UNCHANGED <<stored, issued, usable, valid, revoking, leaving>> /\ Mishap(FALSE)

\* ... and revokes it and issues a pair, of the version it has read.
ServerRotates(c) ==
  /\ call[c].at \in {"rotating", "stale"} /\ issued < MaxPairs
  /\ issued' = issued + 1
  /\ LET taken == IF call[c].at = "rotating" THEN {issued'} ELSE {} IN
     usable' = (usable \ {call[c].tok}) \cup taken /\ valid' = valid \cup taken
  /\ call' = [call EXCEPT ![c].at = "answered", ![c].got = issued']
  /\ UNCHANGED <<stored, revoking, leaving>> /\ Mishap(FALSE)

\* The request fails, or its answer does not arrive.
AnswerLost(c) ==
  /\ call[c].at \in Refreshing /\ Go(c, "clear")
  /\ UNCHANGED <<stored, issued, usable, valid, revoking, leaving>> /\ Mishap(TRUE)

\* saveTokens, when there is something to save.
Stored(c) == IF call[c].got # 0 THEN call[c].got ELSE stored

TakeAnswer(c) ==
  /\ call[c].at = "answered"
  /\ stored' = Stored(c)
  /\ Go(c, IF call[c].got # 0 THEN "retry" ELSE "clear")
  /\ UNCHANGED <<issued, usable, valid, revoking, leaving>> /\ Mishap(FALSE)

\* The call is repeated with what is stored by then; its failure ends it, or
\* is hydrate's to handle.
Retry(c) ==
  /\ call[c].at = "retry"
  /\ call[c].opening => stored \in valid \cup {0}
  /\ Go(c, IF stored = 0 THEN "clear" ELSE "idle")
  /\ UNCHANGED <<stored, issued, usable, valid, revoking, leaving>> /\ Mishap(FALSE)

\* clearTokens: by apiFetch on its way to the login page, or by hydrate.
Clear(c) ==
  /\ call[c].at = "clear"
  /\ stored' = 0 /\ Go(c, "idle")
  /\ UNCHANGED <<issued, usable, valid, revoking, leaving>> /\ Mishap(FALSE)

\* logoutApi clears first and then tells the server ...
Logout ==
  /\ stored # 0
  /\ revoking' = revoking \cup {stored} /\ leaving' = leaving \cup {stored} /\ stored' = 0
  /\ out' = TRUE /\ flying' = InFlight(Calls)
  /\ UNCHANGED <<issued, usable, valid, call, hit>>

RevokeArrives(n) ==
  /\ n \in revoking /\ revoking' = revoking \ {n}
  /\ usable' = usable \ {n}
  /\ UNCHANGED <<stored, issued, valid, call, leaving>> /\ Mishap(FALSE)

\* ... and logout clears again when that has been answered or has failed.
LogoutEnds(n) ==
  /\ n \in leaving /\ leaving' = leaving \ {n}
  /\ stored' = 0
  /\ UNCHANGED <<issued, usable, valid, call, revoking>> /\ Mishap(FALSE)

\* From any tab.  What is under way from before it is a mishap of the new
\* session: a call that was refused or a logout that ends clears its tokens.
Login ==
  /\ issued < MaxPairs
  /\ issued' = issued + 1 /\ stored' = issued'
  /\ usable' = usable \cup {issued'} /\ valid' = valid \cup {issued'}
  /\ out' = FALSE /\ hit' = (leaving # {} \/ \E c \in Calls : call[c] # Idle)
  /\ UNCHANGED <<call, revoking, leaving, flying>>

\* beforeunload of one tab, which takes its calls with it: the tokens that all
\* tabs share are removed.
Unload(cs) ==
  /\ stored' = 0
  /\ call' = [c \in Calls |-> IF c \in cs THEN Idle ELSE call[c]]
  /\ leaving' \in SUBSET leaving
  /\ out' = TRUE /\ flying' = InFlight(Calls \ cs)
  /\ UNCHANGED <<issued, usable, valid, revoking, hit>>

AccessRunsOut ==
  /\ valid # {} /\ valid' = {}
  /\ UNCHANGED <<stored, issued, usable, call, revoking, leaving>> /\ Mishap(FALSE)

\* The refresh token runs out, thirty days after it was issued.
RefreshRunsOut ==
  /\ stored \in usable /\ usable' = usable \ {stored}
  /\ UNCHANGED <<stored, issued, valid, call, revoking, leaving>> /\ Mishap(TRUE)

\* A changed or reset password, another school code or a deactivation raises
\* token_version, and no pair issued before is taken any more.  The user who
\* did it is one of those signed out: no new pair is stored.
VersionRaised ==
  /\ usable' = {} /\ valid' = {}
  /\ call' = [c \in Calls |-> IF call[c].at = "rotating" THEN [call[c] EXCEPT !.at = "stale"] ELSE call[c]]
  /\ UNCHANGED <<stored, issued, revoking, leaving>> /\ Mishap(TRUE)

Next ==
  \/ Logout \/ Login \/ AccessRunsOut \/ RefreshRunsOut \/ VersionRaised
  \/ \E cs \in SUBSET Calls : Unload(cs)
  \/ \E n \in revoking : RevokeArrives(n)
  \/ \E n \in leaving : LogoutEnds(n)
  \/ \E c \in Calls :
       \/ \E opening \in BOOLEAN : Begin(c, opening)
       \/ Answered(c) \/ HydrateFails(c) \/ AskRefresh(c) \/ ServerChecks(c) \/ ServerRotates(c)
       \/ AnswerLost(c) \/ TakeAnswer(c) \/ Retry(c) \/ Clear(c)

Spec == Init /\ [][Next]_vars

-----------------------------------------------------------------------------
TypeOK ==
  /\ {stored, issued} \subseteq 0 .. MaxPairs
  /\ usable \cup valid \cup revoking \cup leaving \subseteq 1 .. issued
  /\ call \in [Calls -> [at : Steps, opening : BOOLEAN,
                         used : 0 .. MaxPairs, tok : 0 .. MaxPairs, got : 0 .. MaxPairs]]
  /\ {out, flying, hit} \subseteq BOOLEAN

\* A user who neither logged out nor closed or reloaded a tab is asked to log
\* in again only after a mishap since the last login: the refresh request
\* failed, hydrate's call failed in a tab that was opened, two calls refreshed
\* at the same time - the one that is refused clears the pair that the other
\* one has stored -, the refresh token ran out or was revoked with the token
\* version, or a call or a logout from before the login was still under way.
SignedOutForCause == stored = 0 => out \/ hit

\* After logging out the browser holds no tokens until the next login, except
\* those of a refresh that was under way: its answer is stored as ever.
StaysLoggedOut == out /\ stored # 0 => flying

\* What is stored can still be refreshed, unless its revocation is on its way
\* or one of the mishaps has happened.
StoredIsUsable == stored # 0 /\ ~hit =>
  stored \in usable \/ \E c \in Calls : call[c].at = "answered" /\ call[c].tok = stored

\* The browser keeps tokens until they are given up or a mishap that is named
\* takes them, keeps none after that, and what it keeps still works.
TokensKept == SignedOutForCause /\ StaysLoggedOut /\ StoredIsUsable
=============================================================================
