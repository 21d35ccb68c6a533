-------------------------- MODULE Catalogue_proofs --------------------------
(***************************************************************************)
(* The catalogue for any number of requests, pages, seeders and versions.  *)
(* What is kept anywhere is Sound, which rests on what a request has read  *)
(* so far: its areas are those of the tables until it reads the strands,   *)
(* and then its strands name them (ReadsFit).                              *)
(***************************************************************************)
EXTENDS Catalogue, TLAPS

\* The catalogues whose rows name rows that are there.
Sound == {c \in Catalogues : c.strands <= c.areas /\ (c.subs <= c.strands \/ between)}

Kept ==
  /\ {cache, local} \subseteq Sound \cup {Nothing}
  /\ page \in [Readers -> Sound \cup {Nothing}]

ReadsFit ==
  \A r \in Readers :
    /\ reader[r].at = "strands" => reader[r].areas = version \/ between
    /\ reader[r].at \in {"subs", "set"} => reader[r].strands <= reader[r].areas \/ between

Inv == TypeOK /\ Kept /\ ReadsFit /\ CacheIsFresh

\* What a request holds.
Reading == [at : {"idle", "strands", "subs", "set"}, areas : Count, strands : Count, subs : Count]

-----------------------------------------------------------------------------

\* A request that has read nothing.
LEMMA IdleTyped == ASSUME CatalogueAssumption PROVE Idle \in Reading /\ Idle.at = "idle"
BY DEF CatalogueAssumption, Idle, Reading, Count

\* Kept is what NamesAreThere says, and the types of the copies.
LEMMA KeptSuffices ==
  ASSUME Kept PROVE Copies \subseteq Catalogues /\ NamesAreThere
BY DEF Kept, Sound, Copies, NamesAreThere

\* A catalogue without rows is sound.
LEMMA EmptySound == ASSUME CatalogueAssumption PROVE Empty \in Sound
BY DEF CatalogueAssumption, Empty, Sound, Catalogues, Count

\* The filters of the endpoint make what it has read sound, but for a
\* sub-strand whose strand was filtered away.
LEMMA AnswerSound ==
  ASSUME CatalogueAssumption, NEW d, d.areas \in Count, d.strands \in Count, d.subs \in Count,
         d.strands <= d.areas \/ between
  PROVE  Answer(d) \in Sound /\ Answer(d).areas = d.areas
BY DEF CatalogueAssumption, Answer, Least, Sound, Catalogues, Count

\* A history variable that stays or becomes true keeps what is sound.
LEMMA SoundStays == ASSUME between => between' PROVE Sound \subseteq Sound'
BY DEF Sound, Catalogues

\* A page that gets no answer takes what is local.
LEMMA TakeLocalKept ==
  ASSUME CatalogueAssumption, Kept, NEW r \in Readers, TakeLocal(r)
  PROVE  local' \in Sound \cup {Nothing} /\ page' \in [Readers -> Sound \cup {Nothing}]
BY EmptySound DEF Kept, TakeLocal

\* At first there is nothing.
LEMMA InitInv == ASSUME CatalogueAssumption, Init PROVE Inv
<1>1. Kept
  BY DEF Init, Kept
<1>2. TypeOK
  <2>1. reader \in [Readers -> Reading]
    BY IdleTyped DEF Init
  <2>2. version \in Count /\ seeder \in [Seeders -> [at : {"ready", "adding", "added"}, found : Count]]
    BY DEF Init, Count, CatalogueAssumption
  <2> QED
    BY <1>1, <2>1, <2>2, KeptSuffices DEF Init, TypeOK, Reading
<1>3. ReadsFit /\ CacheIsFresh
  BY DEF Init, ReadsFit, CacheIsFresh, Idle
<1> QED
  BY <1>1, <1>2, <1>3 DEF Inv

-----------------------------------------------------------------------------
(* The seed.                                                               *)

\* Finding out what is there changes no catalogue.
LEMMA FindExistingInv ==
  ASSUME CatalogueAssumption, Inv, NEW s \in Seeders, FindExisting(s)
  PROVE  Inv'
<1>1. Kept'
  BY SoundStays DEF Inv, Kept, FindExisting
<1>2. TypeOK'
  BY <1>1, KeptSuffices DEF Inv, TypeOK, FindExisting, Kept, Copies, NamesAreThere, Sound, Catalogues, Count
<1>3. ReadsFit'
  BY DEF Inv, ReadsFit, FindExisting
<1>4. CacheIsFresh'
  BY DEF Inv, CacheIsFresh, FindExisting, TypeOK
<1> QED
  BY <1>1, <1>2, <1>3, <1>4 DEF Inv

\* A commit is noticed by whoever is between the first two selects, and its
\* seeder is about to clear the cache.
LEMMA UpsertAllInv ==
  ASSUME CatalogueAssumption, Inv, NEW s \in Seeders, NEW n \in 1 .. MaxVersion, UpsertAll(s, n)
  PROVE  Inv'
<1>1. (between => between') /\ between' \in BOOLEAN
  BY DEF UpsertAll, Inv, TypeOK
<1>2. Kept'
  BY <1>1, SoundStays DEF Inv, Kept, UpsertAll
<1>3. version' \in Count /\ seeder' \in [Seeders -> [at : {"ready", "adding", "added"}, found : Count]]
  BY DEF UpsertAll, Inv, TypeOK, Count, CatalogueAssumption
<1>4. TypeOK'
  BY <1>1, <1>2, <1>3 DEF Inv, TypeOK, UpsertAll, Kept, Copies, Sound, Catalogues
<1>5. ReadsFit'
  <2>1. version' # version /\ (\E r \in Readers : reader[r].at = "strands") => between'
    BY DEF UpsertAll
  <2> QED
    BY <1>1, <2>1 DEF Inv, ReadsFit, UpsertAll
<1>6. CacheIsFresh'
  <2>1. CASE version' # version
    <3>1. seeder'[s].at = "added"
      BY <2>1 DEF UpsertAll, Inv, TypeOK
    <3> QED
      BY <3>1 DEF CacheIsFresh
  <2>2. CASE version' = version
    <3>1. \A q \in Seeders : seeder[q].at = "added" => seeder'[q].at = "added"
      BY DEF UpsertAll, Inv, TypeOK
    <3> QED
      BY <2>2, <3>1 DEF CacheIsFresh, Inv, UpsertAll
  <2> QED
    BY <2>1, <2>2
<1> QED
  BY <1>2, <1>4, <1>5, <1>6 DEF Inv

\* The cache is empty, or the seeder is noted as one that left it.
LEMMA SeederEndsInv ==
  ASSUME CatalogueAssumption, Inv, NEW s \in Seeders,
         InvalidateCatalogueCache(s) \/ SeederStops(s)
  PROVE  Inv'
<1>1. Kept'
  BY SoundStays DEF Inv, Kept, InvalidateCatalogueCache, SeederStops, Cleared
<1>2. seeder' \in [Seeders -> [at : {"ready", "adding", "added"}, found : Count]]
      /\ {late', missed', between'} \subseteq BOOLEAN
  BY DEF InvalidateCatalogueCache, SeederStops, Inv, TypeOK
<1>3. TypeOK'
  BY <1>1, <1>2 DEF Inv, TypeOK, InvalidateCatalogueCache, SeederStops, Kept, Copies, Sound, Catalogues
<1>4. ReadsFit'
  BY DEF Inv, ReadsFit, InvalidateCatalogueCache, SeederStops
<1>5. CacheIsFresh'
  BY DEF CacheIsFresh, InvalidateCatalogueCache, SeederStops, Cleared
<1> QED
  BY <1>1, <1>3, <1>4, <1>5 DEF Inv

-----------------------------------------------------------------------------
(* The endpoint.                                                           *)

\* What a request reads fits what it has read, unless a seed came between.
LEMMA ReadInv ==
  ASSUME CatalogueAssumption, Inv, NEW r \in Readers,
         ReadAreas(r) \/ ReadStrands(r) \/ ReadSubStrands(r)
  PROVE  Inv'
<1>1. Kept'
  BY SoundStays DEF Inv, Kept, ReadAreas, ReadStrands, ReadSubStrands
<1>2. reader' \in [Readers -> Reading] /\ (\A q \in Readers \ {r} : reader'[q] = reader[q])
  <2>1. reader \in [Readers -> Reading] /\ version \in Count
    BY DEF Inv, TypeOK, Reading
  <2>2. CASE ReadAreas(r)
    BY <2>1, <2>2, IdleTyped DEF ReadAreas, Reading
  <2>3. CASE ReadStrands(r)
    BY <2>1, <2>3 DEF ReadStrands, Reading
  <2>4. CASE ReadSubStrands(r)
    BY <2>1, <2>4 DEF ReadSubStrands, Reading
  <2> QED
    BY <2>2, <2>3, <2>4
<1>3. TypeOK'
  BY <1>1, <1>2 DEF Inv, TypeOK, ReadAreas, ReadStrands, ReadSubStrands, Kept, Copies, Sound, Catalogues, Reading
<1>4. ReadsFit'
  <2>1. reader \in [Readers -> Reading] /\ version \in Int
    BY DEF Inv, TypeOK, Reading, Count
  <2>2. UNCHANGED <<version, between>>
    BY DEF ReadAreas, ReadStrands, ReadSubStrands
  <2>3. /\ reader'[r].at = "strands" => reader'[r].areas = version \/ between
        /\ reader'[r].at \in {"subs", "set"} => reader'[r].strands <= reader'[r].areas \/ between
    <3>1. CASE ReadAreas(r)
      BY <2>1, <3>1, IdleTyped DEF ReadAreas, Reading, Idle
    <3>2. CASE ReadStrands(r)
      BY <2>1, <3>2 DEF ReadStrands, Reading, Inv, ReadsFit
    <3>3. CASE ReadSubStrands(r)
      BY <2>1, <3>3 DEF ReadSubStrands, Reading, Inv, ReadsFit
    <3> QED
      BY <3>1, <3>2, <3>3
  <2> QED
    BY <1>2, <2>2, <2>3 DEF Inv, ReadsFit
<1>5. CacheIsFresh'
  BY DEF Inv, CacheIsFresh, ReadAreas, ReadStrands, ReadSubStrands
<1> QED
  BY <1>1, <1>3, <1>4, <1>5 DEF Inv

\* The answer is sound wherever it is put, and late is what the cache is
\* when it is old.
LEMMA AnswerReaderInv ==
  ASSUME CatalogueAssumption, Inv, NEW r \in Readers, NEW kept \in BOOLEAN, NEW arrives \in BOOLEAN,
         AnswerReader(r, kept, arrives)
  PROVE  Inv'
<1>1. Answer(reader[r]) \in Sound /\ Answer(reader[r]).areas = reader[r].areas
  <2>1. reader[r].areas \in Count /\ reader[r].strands \in Count /\ reader[r].subs \in Count
    BY DEF Inv, TypeOK
  <2>2. reader[r].strands <= reader[r].areas \/ between
    BY DEF Inv, ReadsFit, AnswerReader
  <2> QED
    BY <2>1, <2>2, AnswerSound
<1>2. Sound' = Sound
  BY DEF Sound, AnswerReader
<1>3. cache' \in Sound \cup {Nothing}
  BY <1>1 DEF AnswerReader, Inv, Kept
<1>4. local' \in Sound \cup {Nothing} /\ page' \in [Readers -> Sound \cup {Nothing}]
  BY <1>1, TakeLocalKept DEF AnswerReader, Take, Inv, Kept
<1>5. Kept'
  BY <1>2, <1>3, <1>4 DEF Kept
<1>6. reader' \in [Readers -> Reading] /\ late' \in BOOLEAN
  <2>1. reader \in [Readers -> Reading] /\ late \in BOOLEAN
    BY DEF Inv, TypeOK, Reading
  <2>2. reader' \in [Readers -> Reading]
    BY <2>1, IdleTyped DEF AnswerReader
  <2>3. late' \in BOOLEAN
    <3>1. late' = (reader[r].areas < version) \/ late' = late
      BY ZenonT(30) DEF AnswerReader
    <3>2. (reader[r].areas < version) \in BOOLEAN
      OBVIOUS
    <3> QED
      BY <2>1, <3>1, <3>2
  <2> QED
    BY <2>2, <2>3
<1>7. TypeOK'
  BY <1>5, <1>6 DEF Inv, TypeOK, AnswerReader, Kept, Copies, Sound, Catalogues, Reading
<1>8. ReadsFit'
  BY DEF Inv, ReadsFit, AnswerReader, Idle, TypeOK
<1>9. CacheIsFresh'
  <2>1. CASE kept
    BY <1>1, <2>1 DEF CacheIsFresh, AnswerReader
  <2>2. CASE ~kept
    BY <2>2 DEF Inv, CacheIsFresh, AnswerReader
  <2> QED
    BY <2>1, <2>2
<1> QED
  BY <1>5, <1>7, <1>8, <1>9 DEF Inv

\* A page takes what is cached or local, or forgets what it has.
LEMMA PageInv ==
  ASSUME CatalogueAssumption, Inv, NEW r \in Readers,
         CacheHit(r) \/ Offline(r) \/ \E b \in BOOLEAN : Reload(r, b)
  PROVE  Inv'
<1>1. Sound' = Sound
  BY DEF Sound, CacheHit, Offline, Reload
<1>2. local' \in Sound \cup {Nothing} /\ page' \in [Readers -> Sound \cup {Nothing}]
  BY TakeLocalKept DEF CacheHit, Offline, Reload, Take, Inv, Kept
<1>3. Kept'
  BY <1>1, <1>2 DEF Kept, CacheHit, Offline, Reload, Inv
<1>4. TypeOK'
  BY <1>3 DEF Inv, TypeOK, CacheHit, Offline, Reload, Kept, Copies, Sound, Catalogues
<1>5. ReadsFit'
  BY DEF Inv, ReadsFit, CacheHit, Offline, Reload
<1>6. CacheIsFresh'
  BY DEF Inv, CacheIsFresh, CacheHit, Offline, Reload
<1> QED
  BY <1>3, <1>4, <1>5, <1>6 DEF Inv

\* A cache that has run out is not old.
LEMMA CacheRunsOutInv ==
  ASSUME CatalogueAssumption, Inv, CacheRunsOut PROVE Inv'
<1>1. Kept'
  BY SoundStays DEF Inv, Kept, CacheRunsOut
<1>2. TypeOK'
  BY <1>1 DEF Inv, TypeOK, CacheRunsOut, Kept, Copies, Sound, Catalogues
<1>3. ReadsFit' /\ CacheIsFresh'
  BY DEF Inv, ReadsFit, CacheIsFresh, CacheRunsOut
<1> QED
  BY <1>1, <1>2, <1>3 DEF Inv

-----------------------------------------------------------------------------

\* The invariant holds in every state.
LEMMA Invariance == ASSUME CatalogueAssumption PROVE Spec => []Inv
<1>1. Init => Inv
  BY InitInv
<1>2. Inv /\ [Next]_vars => Inv'
  <2> SUFFICES ASSUME Inv, [Next]_vars PROVE Inv'
    OBVIOUS
  <2>1. CASE Next
    <3>1. CASE \E s \in Seeders : FindExisting(s)
      BY <3>1, FindExistingInv
    <3>2. CASE \E s \in Seeders : InvalidateCatalogueCache(s) \/ SeederStops(s)
      BY <3>2, SeederEndsInv
    <3>3. CASE \E s \in Seeders : \E n \in 1 .. MaxVersion : UpsertAll(s, n)
      BY <3>3, UpsertAllInv
    <3>4. CASE \E r \in Readers : ReadAreas(r) \/ ReadStrands(r) \/ ReadSubStrands(r)
      BY <3>4, ReadInv
    <3>5. CASE \E r \in Readers : CacheHit(r) \/ Offline(r) \/ \E b \in BOOLEAN : Reload(r, b)
      BY <3>5, PageInv
    <3>6. CASE \E r \in Readers : \E b \in BOOLEAN : \E arrives \in BOOLEAN : AnswerReader(r, b, arrives)
      BY <3>6, AnswerReaderInv
    <3> QED
      BY <2>1, <3>1, <3>2, <3>3, <3>4, <3>5, <3>6, CacheRunsOutInv DEF Next
  <2>2. CASE UNCHANGED vars
    BY <2>2 DEF vars, Inv, TypeOK, Kept, Copies, Sound, ReadsFit, CacheIsFresh
  <2> QED
    BY <2>1, <2>2
<1> QED
  BY <1>1, <1>2, PTL DEF Spec

\* The seed, the endpoint and every copy are well typed.
THEOREM TypeCorrect == ASSUME CatalogueAssumption PROVE Spec => []TypeOK
<1>1. Inv => TypeOK
  BY DEF Inv
<1> QED
  BY <1>1, Invariance, PTL

\* A cached catalogue is the one in the tables but for the reasons named, and
\* every copy names only what it has, but for a seed between two selects
\* (get_catalogue, invalidate_catalogue_cache, getCurriculum).
THEOREM HandedOutSound == ASSUME CatalogueAssumption PROVE Spec => []CatalogueSound
<1>1. Inv => CatalogueSound
  BY KeptSuffices DEF Inv, CatalogueSound
<1> QED
  BY <1>1, Invariance, PTL
=============================================================================
