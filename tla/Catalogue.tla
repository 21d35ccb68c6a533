----------------------------- MODULE Catalogue ------------------------------
(***************************************************************************)
(* The curriculum: the seed that adds learning areas, strands and          *)
(* sub-strands (api/app/scripts/seed_curriculum.py), the endpoint that     *)
(* reads them with three selects and keeps its answer in Redis             *)
(* (api/app/routers/curriculum.py, api/app/core/cache.py), and the copies  *)
(* in the browser (web/src/lib/curriculum.ts, db.ts).                      *)
(*                                                                         *)
(* A seed of version n leaves the rows 1 .. n in each table: strand k is   *)
(* of area k, sub-strand k of strand k.  A catalogue is how many of each   *)
(* it has.                                                                 *)
(***************************************************************************)
EXTENDS Integers

CONSTANTS
  Readers,     \* requests for the catalogue, each of a page of its own
  Seeders,     \* runs of the seed script
  MaxVersion,  \* bound: versions of the catalogue
  Nothing      \* no catalogue

CatalogueAssumption ==
  MaxVersion \in Nat /\ Nothing \notin [areas : Nat, strands : Nat, subs : Nat]

VARIABLES
  version,   \* the version the tables have
  cache,     \* cache:catalogue:v1
  reader,    \* each request: where it is, what it has read
  seeder,    \* each seeder: where it is, the version it found
  local,     \* the catalogue in the browser's database
  page,      \* each page's own copy
  late,      \* history: the cache was set with what was read before a commit
  missed,    \* history: a seeder ended without clearing the cache
  between    \* history: a seed was committed between a request's selects

vars == <<version, cache, reader, seeder, local, page, late, missed, between>>

Count == 0 .. MaxVersion
Catalogues == [areas : Count, strands : Count, subs : Count]
Idle == [at |-> "idle", areas |-> 0, strands |-> 0, subs |-> 0]
Empty == [areas |-> 0, strands |-> 0, subs |-> 0]
Least(a, b) == IF a < b THEN a ELSE b

Init ==
  /\ version = 0 /\ cache = Nothing /\ local = Nothing
  /\ reader = [r \in Readers |-> Idle] /\ page = [r \in Readers |-> Nothing]
  /\ seeder = [s \in Seeders |-> [at |-> "ready", found |-> 0]]
  /\ late = FALSE /\ missed = FALSE /\ between = FALSE

-----------------------------------------------------------------------------
(* The seed: everything that is missing, in one transaction, and then the  *)
(* cache.                                                                  *)

FindExisting(s) ==
  /\ seeder[s].at = "ready"
  /\ seeder' = [seeder EXCEPT ![s] = [at |-> "adding", found |-> version]]
  /\ UNCHANGED <<version, cache, reader, local, page, late, missed, between>>

\* upsert_all of the catalogue of version n.  The codes are unique: who finds
\* rows missing that another one has added meanwhile ends with an error.
UpsertAll(s, n) ==
  LET added == seeder[s].found < n
      fails == added /\ seeder[s].found # version IN
  /\ seeder[s].at = "adding"
  /\ version' = IF added /\ ~fails THEN n ELSE version
  /\ between' = (between \/ (version' # version /\ \E r \in Readers : reader[r].at = "strands"))
  /\ seeder' = [seeder EXCEPT ![s].at = IF fails THEN "ready" ELSE "added"]
  /\ UNCHANGED <<cache, reader, local, page, late, missed>>

\* Variant: the cache is left to run out.
Cleared_not(c) == c

\* cache_delete_pattern
Cleared(c) == Nothing

InvalidateCatalogueCache(s) ==
  /\ seeder[s].at = "added"
  /\ seeder' = [seeder EXCEPT ![s].at = "ready"]
  /\ cache' = Cleared(cache) /\ late' = FALSE
  /\ UNCHANGED <<version, reader, local, page, missed, between>>

\* The script dies, or Redis does not answer: a warning.
SeederStops(s) ==
  /\ seeder[s].at = "added"
  /\ seeder' = [seeder EXCEPT ![s].at = "ready"]
  /\ missed' = TRUE
  /\ UNCHANGED <<version, cache, reader, local, page, late, between>>

-----------------------------------------------------------------------------
(* The endpoint, and the page that asked.                                  *)

\* The page's copy, and the one in the browser (syncCurriculum).  Without an
\* answer the page takes and keeps what the browser has, be it nothing.
Take(r, catalogue) == page' = [page EXCEPT ![r] = catalogue] /\ local' = catalogue
TakeLocal(r) ==
  /\ page' = [page EXCEPT ![r] = IF local = Nothing THEN Empty ELSE local]
  /\ UNCHANGED local

\* getCurriculum asks once; the cache has the answer ...
CacheHit(r) ==
  /\ reader[r] = Idle /\ page[r] = Nothing /\ cache # Nothing
  /\ Take(r, cache)
  /\ UNCHANGED <<version, cache, reader, seeder, late, missed, between>>

\* ... or it is read, from one table after the other.
ReadAreas(r) ==
  /\ reader[r] = Idle /\ page[r] = Nothing /\ cache = Nothing
  /\ reader' = [reader EXCEPT ![r] = [Idle EXCEPT !.at = "strands", !.areas = version]]
  /\ UNCHANGED <<version, cache, seeder, local, page, late, missed, between>>

ReadStrands(r) ==
  /\ reader[r].at = "strands"
  /\ reader' = [reader EXCEPT ![r].at = "subs", ![r].strands = version]
  /\ UNCHANGED <<version, cache, seeder, local, page, late, missed, between>>

ReadSubStrands(r) ==
  /\ reader[r].at = "subs"
  /\ reader' = [reader EXCEPT ![r].at = "set", ![r].subs = version]
  /\ UNCHANGED <<version, cache, seeder, local, page, late, missed, between>>

\* Strands of the areas that were read, sub-strands of the strands that were.
Answer(d) == [areas |-> d.areas, strands |-> Least(d.areas, d.strands), subs |-> Least(d.strands, d.subs)]

\* cache_set, unless Redis fails; the answer arrives or does not.
AnswerReader(r, kept, arrives) ==
  /\ reader[r].at = "set"
  /\ IF kept THEN cache' = Answer(reader[r]) /\ late' = (reader[r].areas < version)
             ELSE UNCHANGED <<cache, late>>
  /\ IF arrives THEN Take(r, Answer(reader[r])) ELSE TakeLocal(r)
  /\ reader' = [reader EXCEPT ![r] = Idle]
  /\ UNCHANGED <<version, seeder, missed, between>>

CacheRunsOut ==
  /\ cache # Nothing /\ cache' = Nothing /\ late' = FALSE
  /\ UNCHANGED <<version, reader, seeder, local, page, missed, between>>

Offline(r) ==
  /\ reader[r] = Idle /\ page[r] = Nothing
  /\ TakeLocal(r)
  /\ UNCHANGED <<version, cache, reader, seeder, late, missed, between>>

\* A page is loaded anew, by itself or at a logout, which empties the browser.
Reload(r, logout) ==
  /\ page[r] # Nothing /\ page' = [page EXCEPT ![r] = Nothing]
  /\ local' = IF logout THEN Nothing ELSE local
  /\ UNCHANGED <<version, cache, reader, seeder, late, missed, between>>

Next ==
  \/ CacheRunsOut
  \/ \E s \in Seeders :
       \/ FindExisting(s) \/ InvalidateCatalogueCache(s) \/ SeederStops(s)
       \/ \E n \in 1 .. MaxVersion : UpsertAll(s, n)
  \/ \E r \in Readers :
       \/ CacheHit(r) \/ ReadAreas(r) \/ ReadStrands(r) \/ ReadSubStrands(r)
       \/ Offline(r)
       \/ \E b \in BOOLEAN : Reload(r, b) \/ \E arrives \in BOOLEAN : AnswerReader(r, b, arrives)

Spec == Init /\ [][Next]_vars

-----------------------------------------------------------------------------
Copies == ({cache, local} \cup {page[r] : r \in Readers}) \ {Nothing}

TypeOK ==
  /\ version \in Count /\ Copies \subseteq Catalogues
  /\ reader \in [Readers -> [at : {"idle", "strands", "subs", "set"}, areas : Count, strands : Count, subs : Count]]
  /\ seeder \in [Seeders -> [at : {"ready", "adding", "added"}, found : Count]]
  /\ {late, missed, between} \subseteq BOOLEAN

\* A cached catalogue is the one in the tables, unless a seeder is about to
\* clear it, one ended without clearing it, or it was put there after the
\* clearing by a request that had read before the commit.
CacheIsFresh ==
  cache # Nothing /\ cache.areas < version =>
    late \/ missed \/ \E s \in Seeders : seeder[s].at = "added"

\* Wherever a catalogue is kept, its strands name areas it has and its
\* sub-strands name strands it has, although three selects read it while the
\* tables grow; only a seed committed between the first two of them leaves
\* sub-strands whose strand was left out.
NamesAreThere ==
  \A c \in Copies : c.strands <= c.areas /\ (c.subs <= c.strands \/ between)

\* The catalogue that is handed out is a whole one, and an old one only for
\* the reasons named.
CatalogueSound == CacheIsFresh /\ NamesAreThere
=============================================================================
