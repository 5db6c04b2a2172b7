--------------------------- MODULE CatalogueProofs ---------------------------
(***************************************************************************)
(* Theorems about Paging for any rows, times and page sizes, about Seeding *)
(* for any number of runs and thumbnails, about Recommendations for any    *)
(* catalogue and limits, about Recognition for any texts and codes, about  *)
(* MemberRecords for any holders, serials and requests, and about all of   *)
(* them and Coordis side by side.                                          *)
(***************************************************************************)
EXTENDS MCCatalogue, CoordisProofs, FiniteSetTheorems

\* Every proof may look into the sets of row states.
USE DEF Copies, StoreRows

-----------------------------------------------------------------------------
(***************************************************************************)
(* Paging.                                                                 *)
(***************************************************************************)
\* Every steady row is shown or still to come below the cursor, and every row
\* shown is at the cursor or above, unless its time was moved back.
PagingInv ==
    /\ PagingTypeOK
    /\ steady \subseteq Listed
    /\ more => \A i \in steady \ shown : Below(i, cursor)
    /\ more => \A i \in (shown \cap Listed) \ setBack : ~Below(i, cursor)
    /\ NoneSkipped
    /\ NoneRepeated

-----------------------------------------------------------------------------
\* Keys are numbers, so the order of the pages is a total one.
LEMMA KeyTypes ==
  ASSUME PagingTypeOK
  PROVE  /\ \A i \in Ids : i \in Nat /\ shelf[i] \in Nat
         /\ \A i \in Listed : KeyOf(i) \in Key
         /\ cursor.time \in Nat /\ cursor.id \in Nat
<1>1. \A i \in Ids : i \in Nat /\ shelf[i] \in 0..MaxTime
  BY PagingAssumption DEF PagingTypeOK
<1>2. \A i \in Listed : KeyOf(i) \in Key
  <2> SUFFICES ASSUME NEW i \in Listed
               PROVE  KeyOf(i) \in Key
    OBVIOUS
  <2>1. i \in Ids /\ shelf[i] \in 1..MaxTime
    BY <1>1, PagingAssumption DEF Listed
  <2>. QED  BY <2>1 DEF KeyOf, Key
<1>3. cursor.time \in Nat /\ cursor.id \in Nat
  <2>1. CASE cursor \in Key
    <3>1. cursor.time \in 1..MaxTime /\ cursor.id \in Ids
      BY <2>1 DEF Key
    <3>2. cursor.id \in Nat
      BY <3>1, PagingAssumption
    <3>3. cursor.time \in Nat
      BY <3>1
    <3>. QED  BY <3>2, <3>3
  <2>2. CASE cursor = Top
    BY <2>2, PagingAssumption DEF Top
  <2>. QED  BY <2>1, <2>2 DEF PagingTypeOK
<1>. QED  BY <1>1, <1>2, <1>3, PagingAssumption

\* Of two different rows exactly one comes after the other.
LEMMA BelowAsymmetric ==
  ASSUME PagingTypeOK, NEW i \in Ids, NEW j \in Ids, Below(i, KeyOf(j))
  PROVE  ~Below(j, KeyOf(i))
  BY KeyTypes DEF Below, KeyOf

\* What comes after a row that is below the cursor is below the cursor.
LEMMA BelowTransitive ==
  ASSUME PagingTypeOK, NEW i \in Ids, NEW j \in Ids,
         Below(i, KeyOf(j)), Below(j, cursor)
  PROVE  Below(i, cursor)
  BY KeyTypes DEF Below, KeyOf

\* A page without a next one has all the candidates.
LEMMA LastPageIsWhole ==
  ASSUME PagingTypeOK, NEW page, NEW n \in Nat,
         FirstOf(page, Candidates, n), ~HasNext(Candidates, n)
  PROVE  page = Candidates
<1>1. IsFiniteSet(Candidates)
  <2>1. Candidates \subseteq Ids
    BY DEF Candidates, Listed
  <2>. QED  BY <2>1, FS_Subset, PagingAssumption
<1>2. page \subseteq Candidates /\ Cardinality(page) = Cardinality(Candidates)
  BY DEF FirstOf, HasNext
<1>. QED  BY <1>1, <1>2, FS_Subset

LEMMA NormalizedNat ==
  ASSUME NEW limit \in Limits
  PROVE  Normalized(limit) \in Nat
  BY PagingAssumption DEF Normalized

-----------------------------------------------------------------------------
LEMMA PagingInitInv == PagingInit => PagingInv
<1> SUFFICES ASSUME PagingInit
             PROVE  PagingInv
  OBVIOUS
<1>1. PagingTypeOK
  BY DEF PagingInit, PagingTypeOK
<1>2. \A i \in Listed : Below(i, cursor)
  BY PagingAssumption DEF PagingInit, Listed, Below, Top
<1>3. steady = Listed /\ shown = {} /\ twice = {} /\ more
  BY DEF PagingInit, Listed
<1>. QED  BY <1>1, <1>2, <1>3 DEF PagingInv, NoneSkipped, NoneRepeated

\* The step that shows a page, with and without a next one.
LEMMA NextPageInv ==
  ASSUME PagingInv, NextPage
  PROVE  PagingInv'
<1> USE DEF PagingInv
<1>1. PICK limit \in Limits, page \in SUBSET Ids :
         /\ Answer(page, Normalized(limit))
         /\ shown' = shown \cup page
         /\ twice' = twice \cup (shown \cap page)
  BY DEF NextPage
<1> DEFINE n == Normalized(limit)
<1>2. n \in Nat
  BY NormalizedNat
<1>3. more /\ UNCHANGED <<shelf, steady, setBack>>
  BY DEF NextPage
<1>4. page \subseteq Candidates /\ \A i \in page, j \in Candidates \ page : Below(j, KeyOf(i))
  BY <1>1 DEF Answer, FirstOf
<1>5. page \subseteq Listed /\ \A i \in page : Below(i, cursor)
  BY <1>4 DEF Candidates
<1>6. NoneRepeated'
  BY <1>1, <1>3, <1>5 DEF NoneRepeated
<1>7. steady' \subseteq Listed'
  BY <1>3 DEF Listed
<1>8. \A i \in steady \ shown : i \in Candidates
  BY <1>3 DEF Candidates
<1>9. CASE HasNext(Candidates, n)
  <2>1. PICK last \in page : NextCursor(page, last) /\ cursor' = KeyOf(last)
    BY <1>1, <1>9 DEF Answer
  <2>2. last \in Ids /\ last \in Listed /\ Below(last, cursor)
    BY <1>5
  <2>3. more'
    BY <1>1, <1>9 DEF Answer
  <2>4. PagingTypeOK'
    <3>1. cursor' \in Key
      BY <2>1, <2>2, KeyTypes
    <3>. QED  BY <1>1, <1>3, <2>3, <3>1 DEF PagingTypeOK
  <2>5. \A i \in Ids : Below(i, cursor)' <=> Below(i, KeyOf(last))
    BY <1>3, <2>1 DEF Below
  <2>6. \A i \in steady' \ shown' : Below(i, cursor)'
    <3> SUFFICES ASSUME NEW i \in steady \ shown, i \notin page
                 PROVE  Below(i, KeyOf(last))
      BY <1>1, <1>3, <2>5 DEF PagingTypeOK
    <3>. QED  BY <1>4, <1>8
  <2>7. \A i \in (shown' \cap Listed') \ setBack' : ~Below(i, cursor)'
    <3> SUFFICES ASSUME NEW i \in (shown \cup page) \cap Listed, i \notin setBack
                 PROVE  ~Below(i, KeyOf(last))
      BY <1>1, <1>3, <2>5 DEF Listed
    <3>1. CASE i \in page
      <4>1. i = last \/ Below(last, KeyOf(i))
        BY <2>1, <3>1 DEF NextCursor
      <4>2. ~Below(last, KeyOf(last))
        BY <2>2, BelowAsymmetric
      <4>. QED  BY <4>1, <4>2, <2>2, <1>5, BelowAsymmetric DEF Listed
    <3>2. CASE i \notin page
      <4>1. ~Below(i, cursor)
        BY <1>3, <3>2
      <4>. QED  BY <4>1, <2>2, BelowTransitive DEF Listed
    <3>. QED  BY <3>1, <3>2
  <2>. QED  BY <1>6, <1>7, <2>3, <2>4, <2>6, <2>7 DEF NoneSkipped
<1>10. CASE ~HasNext(Candidates, n)
  <2>1. ~more' /\ cursor' = cursor
    BY <1>1, <1>10 DEF Answer, HasNext
  <2>2. PagingTypeOK'
    <3>0. more' = HasNext(Candidates, n) /\ HasNext(Candidates, n) \in BOOLEAN
      <4>1. HasNext(Candidates, n) \in BOOLEAN
        BY DEF HasNext
      <4>. QED  BY <1>1, <4>1 DEF Answer
    <3>1. more' \in BOOLEAN /\ cursor' \in Key \cup {Top}
      <4>1. more' \in BOOLEAN
        BY <3>0
      <4>. QED  BY <2>1, <4>1 DEF PagingTypeOK
    <3>2. shown' \subseteq Ids /\ twice' \subseteq Ids
      BY <1>1 DEF PagingTypeOK
    <3>. QED  BY <1>3, <3>1, <3>2 DEF PagingTypeOK
  <2>3. page = Candidates
    BY <1>1, <1>2, <1>10, LastPageIsWhole DEF Answer
  <2>4. NoneSkipped'
    BY <1>1, <1>3, <1>8, <2>3 DEF NoneSkipped
  <2>. QED  BY <1>6, <1>7, <2>1, <2>2, <2>4
<1>. QED  BY <1>9, <1>10

LEMMA RowAppearsInv ==
  ASSUME PagingInv, RowAppears
  PROVE  PagingInv'
<1> USE DEF PagingInv
<1>1. PICK i \in Ids \ (shown \cup Listed), t \in 1..MaxTime :
         shelf' = [shelf EXCEPT ![i] = t] /\ UNCHANGED <<cursor, more, scan>>
  BY DEF RowAppears
<1>2. UNCHANGED <<shown, twice, steady, setBack>>
  BY <1>1 DEF scan
<1>3. \A j \in Ids \ {i} : shelf'[j] = shelf[j]
  BY <1>1 DEF PagingTypeOK
<1>4. \A j \in Ids \ {i} : Below(j, cursor)' <=> Below(j, cursor)
  BY <1>1, <1>3 DEF Below
<1>5. Listed' = Listed \cup {i}
  BY <1>1, PagingAssumption DEF Listed, PagingTypeOK
<1>6. PagingTypeOK'
  BY <1>1, <1>2, PagingAssumption DEF PagingTypeOK
<1>7. i \notin steady /\ i \notin shown /\ steady \subseteq Ids /\ shown \subseteq Ids
  BY <1>1 DEF PagingTypeOK
<1>. QED  BY <1>1, <1>2, <1>4, <1>5, <1>6, <1>7 DEF NoneSkipped, NoneRepeated

LEMMA RowStampedInv ==
  ASSUME PagingInv, RowStamped
  PROVE  PagingInv'
<1> USE DEF PagingInv
<1>1. PICK i \in Listed, t \in 1..MaxTime :
         /\ shelf' = [shelf EXCEPT ![i] = t]
         /\ steady' = steady \ {i}
         /\ setBack' = IF t < shelf[i] THEN setBack \cup {i} ELSE setBack
         /\ UNCHANGED <<cursor, more, shown, twice>>
  BY DEF RowStamped
<1>2. i \in Ids /\ setBack \subseteq setBack'
  BY <1>1 DEF Listed
<1>3. shelf' \in [Ids -> 0..MaxTime] /\ shelf'[i] = t /\ \A j \in Ids \ {i} : shelf'[j] = shelf[j]
  BY <1>1, <1>2, PagingAssumption DEF PagingTypeOK
<1>4. \A j \in Ids \ {i} : Below(j, cursor)' <=> Below(j, cursor)
  BY <1>1, <1>3 DEF Below
<1>5. Listed' = Listed
  BY <1>1, <1>2, <1>3 DEF Listed
<1>6. PagingTypeOK'
  BY <1>1, <1>2, <1>3 DEF PagingTypeOK
<1>7. i \notin setBack' => (Below(i, cursor)' => Below(i, cursor))
  BY <1>1, <1>2, <1>3, KeyTypes DEF Below
<1>8. steady \subseteq Ids /\ shown \subseteq Ids
  BY DEF PagingTypeOK
<1>. QED  BY <1>1, <1>2, <1>4, <1>5, <1>6, <1>7, <1>8 DEF NoneSkipped, NoneRepeated

LEMMA RowDisappearsInv ==
  ASSUME PagingInv, RowDisappears
  PROVE  PagingInv'
<1> USE DEF PagingInv
<1>1. PICK i \in Listed :
         /\ shelf' = [shelf EXCEPT ![i] = 0]
         /\ steady' = steady \ {i}
         /\ UNCHANGED <<cursor, more, shown, twice, setBack>>
  BY DEF RowDisappears
<1>2. shelf' \in [Ids -> 0..MaxTime] /\ shelf'[i] = 0 /\ \A j \in Ids \ {i} : shelf'[j] = shelf[j]
  BY <1>1, PagingAssumption DEF PagingTypeOK, Listed
<1>3. \A j \in Ids \ {i} : Below(j, cursor)' <=> Below(j, cursor)
  BY <1>1, <1>2 DEF Below
<1>4. Listed' = Listed \ {i}
  BY <1>2 DEF Listed
<1>5. PagingTypeOK'
  BY <1>1, <1>2 DEF PagingTypeOK
<1>6. steady \subseteq Ids /\ shown \subseteq Ids
  BY DEF PagingTypeOK
<1>. QED  BY <1>1, <1>3, <1>4, <1>5, <1>6 DEF NoneSkipped, NoneRepeated

LEMMA ReloadInv ==
  ASSUME PagingInv, Reload
  PROVE  PagingInv'
<1> USE DEF PagingInv
<1>1. PagingTypeOK'
  BY DEF Reload, PagingTypeOK, Listed
<1>2. Listed' = Listed /\ steady' = Listed
  BY DEF Reload, Listed
<1>3. \A i \in Listed : Below(i, cursor)'
  BY PagingAssumption DEF Reload, Below, Top, PagingTypeOK, Listed
<1>. QED  BY <1>1, <1>2, <1>3 DEF Reload, NoneSkipped, NoneRepeated

-----------------------------------------------------------------------------
\* The invariant of a scan holds from the first page to the last and over
\* every reload.
THEOREM PagingCorrect == PagingSpec => []PagingInv
<1>1. PagingInv /\ [PagingNext]_pagingVars => PagingInv'
  <2> SUFFICES ASSUME PagingInv, [PagingNext]_pagingVars
               PROVE  PagingInv'
    OBVIOUS
  <2>1. CASE PagingNext
    BY <2>1, NextPageInv, RowAppearsInv, RowStampedInv, RowDisappearsInv, ReloadInv DEF PagingNext
  <2>2. CASE UNCHANGED pagingVars
    BY <2>2 DEF pagingVars, scan, PagingInv, PagingTypeOK, Listed, Below, NoneSkipped, NoneRepeated
  <2>. QED  BY <2>1, <2>2
<1>. QED  BY <1>1, PagingInitInv, PTL DEF PagingSpec

\* Every reachable state of a scan is well typed.
THEOREM PagingTypeCorrect == PagingSpec => []PagingTypeOK
  BY PagingCorrect, PTL DEF PagingInv

\* A scan to its end shows every row that stayed as it was, for any page sizes
\* and whatever other requests insert, stamp or delete meanwhile.
THEOREM NothingSkipped == PagingSpec => []NoneSkipped
  BY PagingCorrect, PTL DEF PagingInv

\* No row is shown twice in a scan unless its time was moved back.
THEOREM NothingRepeated == PagingSpec => []NoneRepeated
  BY PagingCorrect, PTL DEF PagingInv

-----------------------------------------------------------------------------
(***************************************************************************)
(* Seeding.                                                                *)
(***************************************************************************)
\* The unique rows a run is past, and the image it will leave when it commits.
Past(step) ==
    {key \in Unique : /\ step \notin {"qr", "insert qr"}
                      /\ key = "product" => step \notin {"product", "insert product"}}

\* A run no other has committed beside knows whether the store is there; beside one
\* that adds an image there is none but those of other such runs.
RunTrue(run) ==
    run # NotSeeding =>
        /\ Past(run.at) \subseteq uniqueRows \cup run.made
        /\ run.at # "commit" => run.file = NoFile
        /\ run.at = "commit" /\ run.file = NoFile => image \in fileRows
        /\ run.file # NoFile => run.file \in thumbnails
        /\ run.adds => image = NoFile \/ image \in fileRows
        /\ ~run.beside => ("store" \in run.made <=> storeRows = 0)

SeedInv ==
    /\ SeedTypeOK
    /\ \A s \in SeedRuns : RunTrue(seedings[s])
    /\ seeded # "beside" => storeRows \in {0, 1}
    /\ fileRows \subseteq thumbnails
    /\ SeedHolds

LEMMA RunShape ==
  ASSUME NEW run \in Seeding
  PROVE  /\ run # NotSeeding => run \in Running
         /\ run.at \in Steps => run \in Running
         /\ run \in Running => run # NotSeeding /\ run.at \in Steps
<1>1. \A r \in Running : r.at \in Steps
  BY DEF Running
<1>2. NotSeeding.at = "idle" /\ "idle" \notin Steps
  BY DEF NotSeeding, Steps
<1>. QED  BY <1>1, <1>2 DEF Seeding

\* A step of one run that at most saves a file.
LEMMA OneRun ==
  ASSUME SeedInv, NEW s \in SeedRuns, NEW new \in Seeding,
         seedings' = [seedings EXCEPT ![s] = new], RunTrue(new)',
         UNCHANGED <<storeRows, uniqueRows, image, fileRows, seeded>>,
         thumbnails \subseteq thumbnails', thumbnails' \subseteq Thumbnails
  PROVE  SeedInv'
<1>1. SeedTypeOK'
  BY DEF SeedInv, SeedTypeOK
<1>2. ASSUME NEW r \in SeedRuns
      PROVE  RunTrue(seedings[r])'
  <2>1. seedings'[r] = IF r = s THEN new ELSE seedings[r]
    BY DEF SeedInv, SeedTypeOK
  <2>. QED  BY <2>1 DEF SeedInv, RunTrue
<1>. QED  BY <1>1, <1>2 DEF SeedInv, SeedHolds

LEMMA SeedInitInv == SeedInit => SeedInv
<1> SUFFICES ASSUME SeedInit
             PROVE  SeedInv
  OBVIOUS
<1>1. storeRows \in {0, 1} /\ storeRows \in StoreRows
  BY SeedingAssumption DEF SeedInit
<1>. QED  BY <1>1
          DEF SeedInit, SeedInv, SeedTypeOK, RunTrue, Seeding, SeedHolds

LEMMA SeedStoreInv ==
  ASSUME SeedInv, NEW s \in SeedRuns, SeedStore(s)
  PROVE  SeedInv'
<1>1. PICK made \in SUBSET {"store"} :
        /\ "store" \in made <=> storeRows = 0
        /\ seedings' = [seedings EXCEPT ![s] =
                          [at |-> "qr", made |-> made, adds |-> FALSE, file |-> NoFile,
                           beside |-> FALSE]]
  BY DEF SeedStore, Go, StoreMissing
<1> DEFINE new == [at |-> "qr", made |-> made, adds |-> FALSE, file |-> NoFile,
                   beside |-> FALSE]
<1>2. new \in Seeding
  BY DEF Seeding, Running, Steps
<1>3. Past("qr") = {}
  BY DEF Past
<1>4. UNCHANGED <<storeRows, uniqueRows, image, fileRows, seeded, thumbnails>>
  BY DEF SeedStore, Same
<1>5. RunTrue(new)'
  BY <1>1, <1>3, <1>4 DEF RunTrue
<1>. QED  BY <1>1, <1>2, <1>4, <1>5, OneRun DEF SeedInv, SeedTypeOK

LEMMA SeedKeyInv ==
  ASSUME SeedInv, NEW s \in SeedRuns, SeedSelect(s) \/ SeedInsert(s)
  PROVE  SeedInv'
<1>1. PICK key \in Unique, step \in Steps, made \in SUBSET (Unique \cup {"store"}) :
        /\ seedings[s].at \in {key, Inserting(key)}
        /\ seedings' = [seedings EXCEPT ![s] = [seedings[s] EXCEPT !.at = step, !.made = made]]
        /\ \/ step = Inserting(key) /\ made = seedings[s].made
           \/ step = After(key) /\ made = seedings[s].made /\ key \in uniqueRows
           \/ step = After(key) /\ made = seedings[s].made \cup {key}
  <2>1. seedings[s] \in Running /\ seedings[s].made \in SUBSET (Unique \cup {"store"})
    BY RunShape DEF SeedInv, SeedTypeOK, SeedSelect, SeedInsert, Inserting, Unique, Steps, Running
  <2>2. CASE SeedSelect(s)
    <3>1. PICK key \in Unique :
            /\ seedings[s].at = key
            /\ Go(s, [seedings[s] EXCEPT !.at = IF key \in uniqueRows THEN After(key)
                                                ELSE Inserting(key)])
      BY <2>2 DEF SeedSelect
    <3> DEFINE step == IF key \in uniqueRows THEN After(key) ELSE Inserting(key)
    <3>2. step \in Steps
      BY DEF After, Inserting, Steps
    <3>3. [seedings[s] EXCEPT !.at = step] =
            [seedings[s] EXCEPT !.at = step, !.made = seedings[s].made]
      BY <2>1 DEF Running
    <3>. QED  BY <2>1, <3>1, <3>2, <3>3 DEF Go
  <2>3. CASE SeedInsert(s)
    <3>1. PICK key \in Unique :
            /\ seedings[s].at = Inserting(key)
            /\ Go(s, [seedings[s] EXCEPT !.at = After(key), !.made = @ \cup {key}])
      BY <2>3 DEF SeedInsert
    <3>2. After(key) \in Steps /\ seedings[s].made \cup {key} \in SUBSET (Unique \cup {"store"})
      BY <2>1 DEF After, Steps
    <3>3. seedings' = [seedings EXCEPT ![s] = [seedings[s] EXCEPT !.at = After(key),
                                                     !.made = seedings[s].made \cup {key}]]
      BY <3>1 DEF Go
    <3>. QED  BY <2>1, <3>1, <3>2, <3>3
  <2>. QED  BY <2>2, <2>3
<1>. PICK run, new : run = seedings[s] /\ new = [run EXCEPT !.at = step, !.made = made]
  OBVIOUS
<1>2. run \in Running /\ RunTrue(run)
  BY <1>1, RunShape DEF SeedInv, SeedTypeOK, Inserting, Unique, Steps
<1>3. /\ new \in Running /\ new.at = step /\ new.made = made
      /\ new.file = run.file /\ new.beside = run.beside /\ new.adds = run.adds
  BY <1>2 DEF Running
<1>4. UNCHANGED <<storeRows, uniqueRows, image, fileRows, thumbnails, seeded>>
  BY DEF SeedSelect, SeedInsert, Same
<1>5. run # NotSeeding /\ run.at # "commit" /\ step # "commit"
  BY <1>1, <1>2, RunShape DEF Inserting, After, Unique, NotSeeding, Running, Seeding
<1>6. Past(step) \subseteq uniqueRows \cup made
  BY <1>1, <1>2, <1>5 DEF RunTrue, Past, Inserting, After, Unique
<1>7. "store" \in made <=> "store" \in run.made
  BY <1>1 DEF Unique
<1>8. RunTrue(new)'
  BY <1>2, <1>3, <1>4, <1>5, <1>6, <1>7 DEF RunTrue
<1>9. seedings' = [seedings EXCEPT ![s] = new] /\ new \in Seeding
  BY <1>1, <1>3 DEF Seeding
<1>. QED  BY <1>4, <1>8, <1>9, OneRun DEF SeedInv, SeedTypeOK

LEMMA SeedImageInv ==
  ASSUME SeedInv, NEW s \in SeedRuns, SeedLookAtImage(s) \/ SeedSave(s)
  PROVE  SeedInv'
<1>1. PICK step \in {"save", "commit"}, adds \in BOOLEAN, file \in Thumbnails \cup {NoFile} :
        /\ seedings' = [seedings EXCEPT ![s] =
                          [seedings[s] EXCEPT !.at = step, !.adds = adds, !.file = file]]
        /\ file # NoFile => file \in thumbnails' /\ step = "commit"
        /\ step = "commit" /\ file = NoFile => image \in fileRows
        /\ adds => image = NoFile \/ image \in fileRows
  <2>1. seedings[s] \in Running /\ RunTrue(seedings[s])
    BY RunShape DEF SeedInv, SeedTypeOK, SeedLookAtImage, SeedSave, Steps
  <2>2. CASE SeedLookAtImage(s)
    <3> DEFINE step == IF Backed THEN "commit" ELSE "save"
    <3>1. seedings[s].file = NoFile
      BY <2>1, <2>2, RunShape DEF SeedLookAtImage, RunTrue, Seeding
    <3> DEFINE adds == image = NoFile
    <3>2. [seedings[s] EXCEPT !.at = step, !.adds = adds] =
            [seedings[s] EXCEPT !.at = step, !.adds = adds, !.file = NoFile]
      BY <2>1, <3>1 DEF Running
    <3>3. adds \in BOOLEAN
      OBVIOUS
    <3>. QED  BY <2>2, <3>2, <3>3 DEF SeedLookAtImage, Go, Backed
  <2>3. CASE SeedSave(s)
    <3>1. PICK f \in Thumbnails \ thumbnails :
            /\ thumbnails' = thumbnails \cup {f}
            /\ seedings' = [seedings EXCEPT ![s] =
                              [seedings[s] EXCEPT !.at = "commit", !.file = f]]
      BY <2>3 DEF SeedSave, Go
    <3>2. /\ seedings[s].adds \in BOOLEAN
          /\ seedings[s].adds => image = NoFile \/ image \in fileRows
      <4>1. seedings[s] # NotSeeding
        BY <2>1, RunShape DEF Seeding
      <4>. QED  BY <2>1, <4>1 DEF Running, RunTrue
    <3>3. [seedings[s] EXCEPT !.at = "commit", !.file = f] =
            [seedings[s] EXCEPT !.at = "commit", !.adds = seedings[s].adds, !.file = f]
      BY <2>1 DEF Running
    <3>. QED  BY <3>1, <3>2, <3>3, SeedingAssumption
  <2>. QED  BY <2>2, <2>3
<1>. PICK run, new : run = seedings[s] /\ new = [run EXCEPT !.at = step, !.adds = adds, !.file = file]
  OBVIOUS
<1>2. run \in Running /\ RunTrue(run) /\ run.at \in {"image", "save"}
  BY RunShape DEF SeedInv, SeedTypeOK, SeedLookAtImage, SeedSave, Steps
<1>3. /\ new \in Running /\ new.at = step /\ new.file = file
      /\ new.made = run.made /\ new.beside = run.beside /\ new.adds = adds
  BY <1>2 DEF Running, Steps
<1>4. /\ UNCHANGED <<storeRows, uniqueRows, image, fileRows, seeded>>
      /\ thumbnails \subseteq thumbnails' /\ thumbnails' \subseteq Thumbnails
  BY DEF SeedLookAtImage, SeedSave, Same, SeedInv, SeedTypeOK
<1>5. Past(step) \subseteq uniqueRows \cup run.made /\ run # NotSeeding
  BY <1>2, RunShape DEF RunTrue, Past, Seeding
<1>6. RunTrue(new)'
  BY <1>1, <1>2, <1>3, <1>4, <1>5 DEF RunTrue
<1>7. seedings' = [seedings EXCEPT ![s] = new] /\ new \in Seeding
  BY <1>1, <1>3 DEF Seeding
<1>. QED  BY <1>4, <1>6, <1>7, OneRun

LEMMA SeedLostInv ==
  ASSUME SeedInv, NEW s \in SeedRuns, SeedLost(s)
  PROVE  SeedInv'
<1>1. NotSeeding \in Seeding /\ RunTrue(NotSeeding)'
  BY DEF Seeding, RunTrue
<1>. QED  BY <1>1, OneRun DEF SeedLost, Go, Same, SeedInv, SeedTypeOK

\* The commit brings what the run has found missing: the unique rows, a file
\* with its blob, and the store when no other run has brought it.
LEMMA SeedCommitInv ==
  ASSUME SeedInv, NEW s \in SeedRuns, SeedCommit(s)
  PROVE  SeedInv'
<1> DEFINE run == seedings[s]
<1>1. run \in Running /\ RunTrue(run) /\ run # NotSeeding /\ run.at = "commit"
  BY RunShape DEF SeedInv, SeedTypeOK, SeedCommit, Steps
<1>2. /\ "store" \in run.made => storeRows < MaxStores
      /\ storeRows' = IF "store" \in run.made THEN storeRows + 1 ELSE storeRows
      /\ uniqueRows' = uniqueRows \cup (run.made \cap Unique)
      /\ fileRows' = fileRows \cup ({run.file} \ {NoFile})
      /\ image' \in FirstImage(run)
      /\ seeded' = IF run.beside THEN "beside" ELSE IF seeded = "never" THEN "alone" ELSE seeded
      /\ seedings' = [r \in SeedRuns |->
                        IF r = s \/ seedings[r] = NotSeeding THEN NotSeeding
                        ELSE [seedings[r] EXCEPT !.beside = TRUE]]
      /\ UNCHANGED thumbnails
  BY DEF SeedCommit
<1>3. run.file \in Thumbnails \cup {NoFile} /\ run.beside \in BOOLEAN
  BY <1>1 DEF Running
<1>4. Past("commit") = Unique
  BY DEF Past
<1>5. uniqueRows' = Unique
  BY <1>1, <1>2, <1>4 DEF RunTrue, SeedInv, SeedTypeOK
<1>6. fileRows \subseteq fileRows' /\ image' \in fileRows' /\ fileRows' \subseteq thumbnails'
  <2>1. fileRows \subseteq fileRows' /\ fileRows' \subseteq thumbnails'
    BY <1>1, <1>2 DEF RunTrue, SeedInv
  <2>2. CASE run.file = NoFile
    BY <1>1, <1>2, <2>1, <2>2 DEF RunTrue, FirstImage
  <2>3. CASE run.file # NoFile
    BY <1>1, <1>2, <2>1, <2>3 DEF RunTrue, FirstImage
  <2>. QED  BY <2>1, <2>2, <2>3
<1>7. storeRows \in Nat /\ storeRows' \in StoreRows
  BY <1>2, SeedingAssumption DEF SeedInv, SeedTypeOK
<1>8. ASSUME seeded' # "beside"
      PROVE  storeRows' = 1
  <2>1. ~run.beside /\ seeded # "beside"
    BY <1>2, <1>8
  <2>. QED  BY <1>1, <1>2, <2>1 DEF RunTrue, SeedInv
<1>9. ASSUME NEW r \in SeedRuns
      PROVE  seedings'[r] \in Seeding /\ RunTrue(seedings[r])'
  <2>1. CASE r = s \/ seedings[r] = NotSeeding
    BY <1>2, <2>1 DEF Seeding, RunTrue
  <2>2. CASE ~(r = s \/ seedings[r] = NotSeeding)
    <3>1. PICK old, new : /\ old = seedings[r] /\ old \in Running /\ RunTrue(old)
                          /\ new = seedings'[r] /\ new = [old EXCEPT !.beside = TRUE]
      BY <1>2, <2>2, RunShape DEF SeedInv, SeedTypeOK
    <3>2. /\ new \in Running /\ new.beside /\ new.at = old.at
          /\ new.file = old.file /\ new.made = old.made /\ new.adds = old.adds
      BY <3>1 DEF Running
    <3>3. Past(new.at) \subseteq Unique
      BY DEF Past
    <3>4. old # NotSeeding
      BY <3>1, RunShape DEF Seeding
    <3>5. RunTrue(new)'
      BY <1>2, <1>5, <1>6, <3>1, <3>2, <3>3, <3>4 DEF RunTrue
    <3>. QED  BY <3>1, <3>2, <3>5 DEF Seeding, RunTrue
  <2>. QED  BY <2>1, <2>2
<1>10. seedings' \in [SeedRuns -> Seeding]
  BY <1>2, <1>9
<1>11. SeedTypeOK'
  BY <1>2, <1>3, <1>5, <1>6, <1>7, <1>10 DEF SeedInv, SeedTypeOK
<1>12. SeedHolds'
  BY <1>2, <1>5, <1>6, <1>8 DEF SeedHolds
<1>. QED  BY <1>6, <1>8, <1>9, <1>11, <1>12 DEF SeedInv

LEMMA SeedNextInv == SeedInv /\ [SeedNext]_seedVars => SeedInv'
<1> SUFFICES ASSUME SeedInv, [SeedNext]_seedVars
             PROVE  SeedInv'
  OBVIOUS
<1>1. CASE UNCHANGED seedVars
  BY <1>1 DEF seedVars, SeedInv, SeedTypeOK, RunTrue, SeedHolds
<1>. QED  BY <1>1, SeedStoreInv, SeedKeyInv, SeedImageInv, SeedCommitInv, SeedLostInv
          DEF SeedNext, SeedStep

-----------------------------------------------------------------------------
(***************************************************************************)
(* The theorems.                                                           *)
(***************************************************************************)

\* The inductive invariant of any number of runs of the script.
THEOREM SeedCorrect == SeedSpec => []SeedInv
  BY SeedInitInv, SeedNextInv, PTL DEF SeedSpec

\* Every reachable state of the seeding is well typed.
THEOREM SeedTypeCorrect == SeedSpec => []SeedTypeOK
  BY SeedCorrect, PTL DEF SeedInv

\* A run that committed has left the product an image that can be fetched and,
\* unless runs overlapped, one store.
THEOREM SeedRepeatable == SeedSpec => []SeedHolds
  BY SeedCorrect, PTL DEF SeedInv
-----------------------------------------------------------------------------
(***************************************************************************)
(* Recommendations.                                                        *)
(***************************************************************************)
\* What is still to be read are candidates; those read and kept were in stock
\* at some moment, and those in stock throughout have been kept; the answer is
\* the head of their ranking.
RecommendInv ==
    /\ RecommendTypeOK
    /\ ask # NoRequest => ask.todo \subseteq Considered(ask.base)
    /\ ask # NoRequest => ask.stocked \subseteq ever \ {ask.base}
    /\ ask # NoRequest => (Considered(ask.base) \cap always) \ ask.todo \subseteq ask.stocked
    /\ ask.op = "read" => inStock \subseteq ever /\ always \subseteq inStock
    /\ RecommendsBest

-----------------------------------------------------------------------------
\* Scores are numbers, the same in both directions.
LEMMA ScoreSymmetric ==
  ASSUME NEW p \in Shown, NEW q \in Shown
  PROVE  Score(p, q) \in Nat /\ Score(p, q) = Score(q, p)
<1>1. \A match, weight : weight \in Nat => Points(match, weight) \in Nat
  BY DEF Points
<1>2. Score(p, q) \in Nat
  BY <1>1 DEF Score
<1>3. CategoryMatch(p, q) <=> CategoryMatch(q, p)
  BY DEF CategoryMatch
<1>4. ColorMatch(p, q) <=> ColorMatch(q, p)
  BY DEF ColorMatch
<1>5. /\ StylesOf[p] \cap StylesOf[q] = StylesOf[q] \cap StylesOf[p]
      /\ SeasonsOf[p] \cap SeasonsOf[q] = SeasonsOf[q] \cap SeasonsOf[p]
  OBVIOUS
<1>6. /\ Points(CategoryMatch(p, q), 40) = Points(CategoryMatch(q, p), 40)
      /\ Points(ColorMatch(p, q), 20) = Points(ColorMatch(q, p), 20)
  BY <1>3, <1>4 DEF Points
<1>7. Score(p, q) = Score(q, p)
  BY <1>5, <1>6 DEF Score
<1>. QED  BY <1>2, <1>7

\* The order of the ranking is a strict total order.
LEMMA AheadOrders ==
  ASSUME NEW base \in Shown, NEW p \in Shown, NEW q \in Shown, NEW r \in Shown
  PROVE  /\ ~Ahead(base, p, p)
         /\ Ahead(base, p, q) => ~Ahead(base, q, p)
         /\ Ahead(base, p, q) /\ Ahead(base, q, r) => Ahead(base, p, r)
         /\ p = q \/ Ahead(base, p, q) \/ Ahead(base, q, p)
<1>1. /\ Score(base, p) \in Nat /\ Score(base, q) \in Nat /\ Score(base, r) \in Nat
      /\ CodeRank[p] \in Int /\ CodeRank[q] \in Int /\ CodeRank[r] \in Int
      /\ CodeRank[p] = CodeRank[q] => p = q
  BY ScoreSymmetric, RecommendationsAssumption
<1>. QED  BY <1>1 DEF Ahead

\* A finite set of products has a ranking: each goes to the place after all
\* those ahead of it.
LEMMA RankRanks ==
  ASSUME NEW base \in Shown, NEW candidates \in SUBSET Shown
  PROVE  LET good == Matching(base, candidates)
             ranked == Rank(base, candidates)
         IN  /\ Cardinality(good) \in Nat
             /\ ranked \in [1..Cardinality(good) -> good]
             /\ \A i, j \in 1..Cardinality(good) :
                  i < j => Ahead(base, ranked[i], ranked[j])
             /\ \A p \in good : \E i \in 1..Cardinality(good) : ranked[i] = p
<1> DEFINE good == Matching(base, candidates)
           n == Cardinality(good)
           before(p) == {q \in good : Ahead(base, q, p)}
           place == [p \in good |-> Cardinality(before(p)) + 1]
<1>1. good \subseteq Shown /\ IsFiniteSet(good) /\ n \in Nat
  <2>1. good \subseteq Shown
    BY DEF Matching
  <2>. QED  BY <2>1, RecommendationsAssumption, FS_Subset, FS_CardinalityType
<1>2. ASSUME NEW p \in good
      PROVE  /\ IsFiniteSet(before(p)) /\ Cardinality(before(p)) \in Nat
             /\ p \notin before(p)
             /\ place[p] \in 1..n
  <2>1. p \notin before(p)
    BY <1>1, AheadOrders
  <2>2. IsFiniteSet(before(p)) /\ Cardinality(before(p)) \in Nat
    BY <1>1, FS_Subset, FS_CardinalityType
  <2>3. Cardinality(before(p)) <= n /\ (n = Cardinality(before(p)) => good = before(p))
    <3>1. before(p) \in SUBSET good
      OBVIOUS
    <3>. HIDE DEF before
    <3>. QED  BY <3>1, <1>1, FS_Subset
  <2>4. Cardinality(before(p)) # n
    BY <2>1, <2>3
  <2>. HIDE DEF before, n, good
  <2>. QED  BY <1>1, <2>1, <2>2, <2>3, <2>4
<1>3. ASSUME NEW p \in good, NEW q \in good, Ahead(base, p, q)
      PROVE  place[p] < place[q]
  <2>1. before(p) \cup {p} \in SUBSET before(q)
    BY <1>1, <1>3, AheadOrders
  <2>2. Cardinality(before(p) \cup {p}) = Cardinality(before(p)) + 1
    <3>. HIDE DEF before
    <3>. QED  BY <1>2, FS_AddElement
  <2>3. Cardinality(before(p) \cup {p}) <= Cardinality(before(q))
    <3>. HIDE DEF before
    <3>. QED  BY <1>2, <2>1, FS_Subset
  <2>. HIDE DEF before, good
  <2>. QED  BY <1>2, <2>2, <2>3
<1>4. place \in Injection(good, 1..n)
  <2>1. place \in [good -> 1..n]
    <3>. HIDE DEF before, good, n
    <3>. QED  BY <1>2
  <2>2. ASSUME NEW p \in good, NEW q \in good, place[p] = place[q]
        PROVE  p = q
    <3>1. place[p] \in Nat /\ place[q] \in Nat
      BY <1>2
    <3>2. ~(place[p] < place[q]) /\ ~(place[q] < place[p])
      BY <2>2, <3>1
    <3>3. ~Ahead(base, p, q) /\ ~Ahead(base, q, p)
      BY <1>3, <3>2
    <3>. QED  BY <1>1, <3>3, AheadOrders
  <2>. HIDE DEF place, good, n
  <2>. QED  BY <2>1, <2>2 DEF Injection, IsInjective
<1>5. place \in Surjection(good, 1..n)
  <2>1. IsFiniteSet(1..n) /\ Cardinality(1..n) = n
    <3>. HIDE DEF n
    <3>. QED  BY <1>1, FS_Interval
  <2>. HIDE DEF place
  <2>. QED  BY <1>4, <2>1, FS_Injection
<1> DEFINE enumeration == [i \in 1..n |-> CHOOSE p \in good : place[p] = i]
           Ranks(s) == \A i, j \in 1..n : i < j => Ahead(base, s[i], s[j])
<1>6. \A i \in 1..n : enumeration[i] \in good /\ place[enumeration[i]] = i
  <2>1. \A i \in 1..n : \E p \in good : place[p] = i
    <3>. HIDE DEF place, n, good
    <3>. QED  BY <1>5 DEF Surjection
  <2>. HIDE DEF place, n, good
  <2>. QED  BY <2>1
<1>7. Ranks(enumeration)
  <2> SUFFICES ASSUME NEW i \in 1..n, NEW j \in 1..n, i < j
               PROVE  Ahead(base, enumeration[i], enumeration[j])
    OBVIOUS
  <2>. PICK p \in good, q \in good : p = enumeration[i] /\ q = enumeration[j]
    BY <1>6
  <2>1. place[p] = i /\ place[q] = j
    BY <1>6
  <2>2. p # q /\ ~(place[q] < place[p])
    <3>. HIDE DEF place, n
    <3>. QED  BY <1>1, <2>1
  <2>3. ~Ahead(base, q, p) /\ p \in Shown /\ q \in Shown
    BY <1>1, <1>3, <2>2
  <2>4. Ahead(base, p, q)
    <3>. HIDE DEF enumeration, place, n, good
    <3>. QED  BY <2>2, <2>3, AheadOrders
  <2>. HIDE DEF enumeration
  <2>. QED  BY <2>4
<1>8. enumeration \in [1..n -> good]
  <2>. HIDE DEF place, n, good
  <2>. QED  BY <1>6
<1> DEFINE ranked == Rank(base, candidates)
<1>9. ranked \in [1..n -> good] /\ Ranks(ranked)
  <2>1. Rank(base, candidates) = CHOOSE s \in [1..n -> good] : Ranks(s)
    BY DEF Rank
  <2>2. \E s \in [1..n -> good] : Ranks(s)
    BY <1>7, <1>8
  <2>. HIDE DEF Ranks, n, good, enumeration
  <2>. QED  BY <2>1, <2>2
\* It misses nobody, having as many places as there are products.
<1>10. ranked \in Injection(1..n, good)
  <2>1. ASSUME NEW i \in 1..n, NEW j \in 1..n, ranked[i] = ranked[j]
        PROVE  i = j
    <3>1. ranked[i] \in Shown
      BY <1>1, <1>9
    <3>2. ~(i < j) /\ ~(j < i)
      BY <1>9, <2>1, <3>1, AheadOrders
    <3>. QED  BY <1>1, <3>2
  <2>. HIDE DEF ranked, n, good
  <2>. QED  BY <1>9, <2>1 DEF Injection, IsInjective
<1>11. ranked \in Surjection(1..n, good)
  <2>1. Cardinality(1..n) = n
    <3>. HIDE DEF n
    <3>. QED  BY <1>1, FS_Interval
  <2>2. Cardinality(1..n) = Cardinality(good)
    BY <2>1
  <2>. HIDE DEF ranked, n, good
  <2>. QED  BY <1>1, <1>10, <2>2, FS_Injection
<1>12. \A p \in good : \E i \in 1..n : ranked[i] = p
  <2>. HIDE DEF ranked, n, good
  <2>. QED  BY <1>11 DEF Surjection
<1>. QED  BY <1>1, <1>9, <1>12
-----------------------------------------------------------------------------
LEMMA RecommendInitInv == RecommendInit => RecommendInv
  BY DEF RecommendInit, RecommendInv, RecommendTypeOK, RecommendsBest, NoRequest

LEMMA AskRecommendationsInv ==
  ASSUME RecommendInv, AskRecommendations
  PROVE  RecommendInv'
<1>1. PICK base \in Shown, limit \in AskedLimits, kind \in {"member", "guest"} :
        ask' = [op |-> "read", base |-> base, limit |-> Effective(kind, limit),
                todo |-> Considered(base), stocked |-> {}]
  BY DEF AskRecommendations
<1>2. Effective(kind, limit) \in 1..MemberLimit
  <2>1. limit \in Int
    BY RecommendationsAssumption
  <2>. QED  BY <2>1, RecommendationsAssumption DEF Effective
<1>3. Considered(base) \in SUBSET Shown
  BY DEF Considered
<1>4. ever' = inStock /\ always' = inStock /\ UNCHANGED <<inStock, listed>>
  BY DEF AskRecommendations
<1>5. RecommendTypeOK'
  BY <1>1, <1>2, <1>3, <1>4 DEF RecommendInv, RecommendTypeOK
<1>. QED  BY <1>1, <1>4, <1>5 DEF RecommendInv, RecommendsBest, NoRequest

\* A request in progress is a record of its fields.
LEMMA RequestShape ==
  ASSUME RecommendTypeOK, ask.op \in {"read", "done"}
  PROVE  ask \in [op : {"read", "done"}, base : Shown, limit : 1..MemberLimit,
                  todo : SUBSET Shown, stocked : SUBSET Shown]
         /\ ask # NoRequest
  BY DEF RecommendTypeOK, NoRequest

LEMMA ReadDetailsInv ==
  ASSUME RecommendInv, ReadDetails
  PROVE  RecommendInv'
<1>1. PICK p \in ask.todo :
        ask' = [ask EXCEPT !.todo = @ \ {p},
                           !.stocked = IF p \in inStock THEN @ \cup {p} ELSE @]
  BY DEF ReadDetails
<1>2. UNCHANGED <<inStock, listed, ever, always>> /\ ask.op = "read"
  BY DEF ReadDetails
<1>3. PICK kept : kept = IF p \in inStock THEN ask.stocked \cup {p} ELSE ask.stocked
  OBVIOUS
<1>4. /\ ask \in [op : {"read", "done"}, base : Shown, limit : 1..MemberLimit,
                  todo : SUBSET Shown, stocked : SUBSET Shown]
      /\ ask # NoRequest
  BY <1>2, RequestShape DEF RecommendInv
<1>5. /\ ask'.op = "read" /\ ask'.base = ask.base /\ ask'.limit = ask.limit
      /\ ask'.todo = ask.todo \ {p} /\ ask'.stocked = kept
      /\ p \in Shown /\ kept \in SUBSET Shown
      /\ ask' \in [op : {"read", "done"}, base : Shown, limit : 1..MemberLimit,
                   todo : SUBSET Shown, stocked : SUBSET Shown]
  BY <1>1, <1>2, <1>3, <1>4
<1>6. p \in Considered(ask.base) /\ p # ask.base
  BY <1>4 DEF RecommendInv, Considered
<1>7. RecommendTypeOK'
  BY <1>2, <1>5 DEF RecommendInv, RecommendTypeOK
<1>8. Considered(ask.base)' = Considered(ask.base)
  BY <1>5 DEF Considered
<1>9. /\ ask'.todo \subseteq Considered(ask.base)
      /\ ask'.stocked \subseteq ever \ {ask.base}
      /\ (Considered(ask.base) \cap always) \ ask'.todo \subseteq ask'.stocked
  BY <1>2, <1>3, <1>4, <1>5, <1>6 DEF RecommendInv
<1>. QED  BY <1>2, <1>5, <1>7, <1>8, <1>9 DEF RecommendInv, RecommendsBest

\* The first places of the ranking are the best of what was kept.
LEMMA RecommendRankedInv ==
  ASSUME RecommendInv, Recommend
  PROVE  RecommendInv'
<1>1. /\ ask \in [op : {"read", "done"}, base : Shown, limit : 1..MemberLimit,
                  todo : SUBSET Shown, stocked : SUBSET Shown]
      /\ ask # NoRequest /\ ask.op = "read" /\ ask.todo = {}
  BY RequestShape DEF Recommend, RecommendInv
<1>. PICK base, limit, good, ranked, n :
        /\ base = ask.base /\ limit = ask.limit
        /\ good = Matching(base, ask.stocked)
        /\ ranked = Rank(base, ask.stocked)
        /\ n = Cardinality(good)
  OBVIOUS
<1>2. /\ base \in Shown /\ limit \in 1..MemberLimit /\ limit \in Nat
      /\ ask.stocked \in SUBSET Shown /\ good \subseteq ask.stocked
  BY <1>1, RecommendationsAssumption DEF Matching
<1>3. /\ n \in Nat /\ ranked \in [1..n -> good]
      /\ \A i, j \in 1..n : i < j => Ahead(base, ranked[i], ranked[j])
      /\ \A p \in good : \E i \in 1..n : ranked[i] = p
  BY <1>2, RankRanks
<1>4. ranked \in Seq(Shown) /\ Len(ranked) = n
  BY <1>2, <1>3
<1>5. PICK m \in 0..n : /\ m = IF n < limit THEN n ELSE limit
                        /\ listed' = SubSeq(ranked, 1, m)
  BY <1>2, <1>3, <1>4 DEF Recommend
<1>6. /\ listed' \in Seq(Shown) /\ Len(listed') = m /\ DOMAIN listed' = 1..m
      /\ \A i \in 1..m : listed'[i] = ranked[i]
  BY <1>3, <1>4, <1>5
<1>7. /\ ask' = [ask EXCEPT !.op = "done"] /\ UNCHANGED <<inStock, ever, always>>
      /\ ask'.op = "done" /\ ask'.base = base /\ ask'.limit = limit
      /\ ask'.todo = {} /\ ask'.stocked = ask.stocked
  BY <1>1 DEF Recommend
<1>8. RecommendTypeOK'
  BY <1>1, <1>6, <1>7 DEF RecommendInv, RecommendTypeOK
<1>. PICK names : names = Range(listed')
  OBVIOUS
<1>9. /\ names = {ranked[i] : i \in 1..m}
      /\ \A i \in 1..m : ranked[i] \in good
  BY <1>3, <1>6 DEF Range
<1>10. Cardinality(names) = m
  <2>1. ASSUME NEW i \in 1..m, NEW j \in 1..m, ranked[i] = ranked[j]
        PROVE  i = j
    <3>1. ranked[i] \in Shown
      BY <1>2, <1>9
    <3>2. ~(i < j) /\ ~(j < i)
      BY <1>2, <1>3, <2>1, <3>1, AheadOrders
    <3>. QED  BY <3>2
  <2>2. listed' \in Bijection(1..m, names)
    BY <1>6, <1>9, <2>1 DEF Bijection, Injection, Surjection, IsInjective
  <2>. QED  BY <2>2, FS_CountingElements DEF ExistsBijection
<1>11. names \subseteq ever \ {base}
  BY <1>1, <1>2, <1>9 DEF RecommendInv
<1>12. ASSUME NEW p \in names
       PROVE  Score(base, p) > 0 /\ Score(p, base) = Score(base, p)
  <2>1. p \in good /\ p \in Shown
    BY <1>2, <1>9
  <2>. QED  BY <1>2, <2>1, ScoreSymmetric DEF Matching
<1>13. ASSUME NEW p \in (Considered(base) \cap always) \ names, Score(base, p) > 0
       PROVE  m = limit /\ \A q \in names : Score(base, q) >= Score(base, p)
  <2>1. p \in good
    BY <1>1, <1>13 DEF Matching, RecommendInv
  <2>2. PICK i \in 1..n : ranked[i] = p
    BY <1>3, <2>1
  <2>3. i > m
    BY <1>3, <1>9, <2>2
  <2>4. ASSUME NEW q \in names
        PROVE  Score(base, q) >= Score(base, p)
    <3>1. PICK j \in 1..m : ranked[j] = q
      BY <1>9
    <3>2. Ahead(base, q, p)
      BY <1>3, <2>2, <2>3, <3>1
    <3>3. Score(base, q) \in Nat /\ Score(base, p) \in Nat
      BY <1>2, <1>9, <2>1, <3>1, ScoreSymmetric
    <3>. QED  BY <3>2, <3>3 DEF Ahead
  <2>. QED  BY <1>2, <1>3, <1>5, <2>3, <2>4
<1>14. Considered(base)' = Considered(base)
  BY DEF Considered
<1>15. ASSUME NEW i \in 1..m, NEW j \in 1..m, i < j
       PROVE  Score(base, listed'[i]) >= Score(base, listed'[j])
  <2>1. /\ ranked[i] \in Shown /\ ranked[j] \in Shown
        /\ listed'[i] = ranked[i] /\ listed'[j] = ranked[j]
    BY <1>2, <1>6, <1>9
  <2>2. Ahead(base, ranked[i], ranked[j])
    BY <1>3, <1>15
  <2>3. Score(base, ranked[i]) \in Nat /\ Score(base, ranked[j]) \in Nat
    BY <1>2, <2>1, ScoreSymmetric
  <2>. QED  BY <2>1, <2>2, <2>3 DEF Ahead
<1>16. Len(listed') <= limit
  BY <1>2, <1>3, <1>5, <1>6
<1>17. RecommendsBest'
  BY <1>6, <1>7, <1>10, <1>11, <1>12, <1>13, <1>15, <1>16 DEF RecommendsBest, Considered
<1>. QED  BY <1>1, <1>7, <1>8, <1>17 DEF RecommendInv, Considered

LEMMA AnsweredInv ==
  ASSUME RecommendInv, Answered
  PROVE  RecommendInv'
  BY DEF RecommendInv, RecommendTypeOK, RecommendsBest, Answered, NoRequest

LEMMA StockChangesInv ==
  ASSUME RecommendInv, StockChanges
  PROVE  RecommendInv'
<1>1. /\ UNCHANGED <<ask, listed>>
      /\ inStock' \subseteq Shown
  BY DEF StockChanges, RecommendInv, RecommendTypeOK
<1>2. CASE ask.op = "read"
  <2>1. ever' = ever \cup inStock' /\ always' = always \cap inStock'
    BY <1>2 DEF StockChanges
  <2>. QED  BY <1>1, <1>2, <2>1
            DEF RecommendInv, RecommendTypeOK, RecommendsBest, Considered
<1>3. CASE ask.op # "read"
  <2>1. UNCHANGED <<ever, always>>
    BY <1>3 DEF StockChanges
  <2>. QED  BY <1>1, <1>3, <2>1
            DEF RecommendInv, RecommendTypeOK, RecommendsBest, Considered
<1>. QED  BY <1>2, <1>3

LEMMA RecommendNextInv == RecommendInv /\ [RecommendNext]_recommendVars => RecommendInv'
<1> SUFFICES ASSUME RecommendInv, [RecommendNext]_recommendVars
             PROVE  RecommendInv'
  OBVIOUS
<1>1. CASE UNCHANGED recommendVars
  BY <1>1 DEF recommendVars, RecommendInv, RecommendTypeOK, RecommendsBest, Considered
<1>. QED  BY <1>1, AskRecommendationsInv, ReadDetailsInv, RecommendRankedInv, AnsweredInv,
             StockChangesInv
          DEF RecommendNext

-----------------------------------------------------------------------------
(***************************************************************************)
(* The theorems.                                                           *)
(***************************************************************************)

\* The inductive invariant of a request for recommendations.
THEOREM RecommendCorrect == RecommendSpec => []RecommendInv
  BY RecommendInitInv, RecommendNextInv, PTL DEF RecommendSpec

\* Every reachable state of the recommendations is well typed.
THEOREM RecommendTypeCorrect == RecommendSpec => []RecommendTypeOK
  BY RecommendCorrect, PTL DEF RecommendInv

\* However the stock moves between the reads, the list keeps to its limit, best
\* first; a product in stock throughout is left out only for a full list of
\* products at least as good, and everything listed was in stock during the
\* request and matches.
THEOREM RecommendedAreBest == RecommendSpec => []RecommendsBest
  BY RecommendCorrect, PTL DEF RecommendInv
-----------------------------------------------------------------------------
(***************************************************************************)
(* Recognition.                                                            *)
(***************************************************************************)
\* offers says of every code how sure the readings are of it at best.
Represents(offers, read) ==
    /\ \A r \in read : \A s \in Sources(r) : \A c \in CandidateTexts(s.text) :
         \E o \in offers : o.code = c /\ o.score >= s.score
    /\ \A o \in offers : \E r \in read : \E s \in Sources(r) :
         o.score = s.score /\ o.code \in CandidateTexts(s.text)

\* Until the second pass there is the reading of the first at most.
RecognitionInv ==
    /\ RecognitionTypeOK
    /\ phase \in {"idle", "first"} => readings = <<>>
    /\ phase = "second" => \E r \in Readings : readings = <<r>>
    /\ AnswerIsBest
    /\ MisreadRecovered

-----------------------------------------------------------------------------
\* A finite set of numbers has a greatest: one with the fewest others above it.
LEMMA GreatestExists ==
  ASSUME NEW S \in SUBSET Nat, IsFiniteSet(S), S # {}
  PROVE  \E x \in S : \A y \in S : y <= x
<1> DEFINE above(x) == {y \in S : y > x}
           counts == {Cardinality(above(x)) : x \in S}
<1>1. \A x \in S : IsFiniteSet(above(x)) /\ Cardinality(above(x)) \in Nat
  <2> SUFFICES ASSUME NEW x \in S
               PROVE  IsFiniteSet(above(x)) /\ Cardinality(above(x)) \in Nat
    OBVIOUS
  <2>1. above(x) \in SUBSET S
    OBVIOUS
  <2>. HIDE DEF above
  <2>. QED  BY <2>1, FS_Subset, FS_CardinalityType
<1>2. PICK x \in S : \A y \in S : ~(Cardinality(above(y)) < Cardinality(above(x)))
  <2>1. counts \subseteq Nat /\ counts # {}
    BY <1>1
  <2>2. PICK n \in counts : \A m \in counts : ~(<<m, n>> \in OpToRel(<, Nat))
    <3>. HIDE DEF counts
    <3>. QED  BY <2>1, NatLessThanWellFounded, WFMin
  <2>3. \A m \in counts : ~(m < n)
    <3>. HIDE DEF counts
    <3>. QED  BY <2>1, <2>2 DEF OpToRel
  <2>. HIDE DEF above
  <2>. QED  BY <2>3
<1>3. ASSUME NEW y \in S, y > x
      PROVE  FALSE
  <2>a. \A z \in S : z > y => z > x
    <3>1. x \in Nat /\ y \in Nat /\ \A z \in S : z \in Nat
      OBVIOUS
    <3>. QED  BY <1>3, <3>1
  <2>b. ~(y > y)
    <3>1. y \in Nat
      OBVIOUS
    <3>. QED  BY <3>1
  <2>1. above(y) \in SUBSET above(x) /\ y \in above(x) /\ y \notin above(y)
    BY <1>3, <2>a, <2>b
  <2>. HIDE DEF above
  <2>2. Cardinality(above(y)) <= Cardinality(above(x))
        /\ Cardinality(above(y)) # Cardinality(above(x))
    BY <1>1, <2>1, FS_Subset
  <2>. QED  BY <1>1, <1>2, <2>2
<1>. QED  BY <1>3

LEMMA ScoreType == \A d \in Detection : d.score \in 0..Certain /\ d.score \in Nat
<1>1. \A d \in Detection : d.score \in Scores
  BY DEF Detection
<1>2. Certain \in Nat /\ Scores \subseteq 0..Certain
  BY RecognitionAssumption
<1>3. \A score \in Scores : score \in 0..Certain /\ score \in Nat
  BY <1>2
<1>. QED  BY <1>1, <1>3

\* The mean of confidences is a number.
LEMMA MeanType ==
  ASSUME NEW reading \in Readings, reading # <<>>
  PROVE  Mean(reading) \in Nat
<1>1. PICK n \in 0..MaxDetections : reading \in [1..n -> Detection]
  BY DEF Readings
<1>2. /\ n \in Nat /\ DOMAIN reading = 1..n /\ Len(reading) = n /\ n # 0
      /\ \A i \in 1..n : reading[i].score \in 0..Certain
  <2>1. n \in Nat /\ reading \in Seq(Detection) /\ Len(reading) = n
    BY <1>1, RecognitionAssumption
  <2>2. n # 0
    BY <2>1
  <2>. QED  BY <1>1, <2>1, <2>2, ScoreType
<1>3. PointsOf(reading) \in SUBSET ((1..n) \X (1..Certain))
  BY <1>2, RecognitionAssumption DEF PointsOf
<1>4. IsFiniteSet((1..n) \X (1..Certain))
  <2>1. IsFiniteSet(1..n) /\ IsFiniteSet(1..Certain)
    BY <1>2, RecognitionAssumption, FS_Interval
  <2>. QED  BY <2>1, FS_Product
<1>5. Cardinality(PointsOf(reading)) \in Nat
  BY <1>3, <1>4, FS_Subset, FS_CardinalityType
<1>6. \A a, b \in Nat : b # 0 => a \div b \in Nat
  OBVIOUS
<1>. QED  BY <1>2, <1>5, <1>6 DEF Mean

\* A reading has finitely many sources, the detections among them.
LEMMA SourcesFinite ==
  ASSUME NEW reading \in Readings
  PROVE  /\ IsFiniteSet(Sources(reading))
         /\ \A s \in Sources(reading) : s.score \in Nat
         /\ Range(reading) \subseteq Sources(reading)
<1>1. PICK n \in 0..MaxDetections : reading \in [1..n -> Detection]
  BY DEF Readings
<1>2. IsFiniteSet(1..n) /\ Range(reading) = {reading[i] : i \in 1..n}
  BY <1>1, RecognitionAssumption, FS_Interval DEF Range
<1>3. reading \in Surjection(1..n, Range(reading))
  BY <1>1, <1>2 DEF Surjection
<1>4. IsFiniteSet(Range(reading))
  BY <1>2, <1>3, FS_Surjection
<1>5. \A s \in Range(reading) : s.score \in Nat
  BY <1>1, <1>2, ScoreType
<1>6. CASE reading = <<>>
  <2>1. Range(reading) = {}
    BY <1>6 DEF Range
  <2>. QED  BY <1>6, <2>1, FS_EmptySet DEF Sources
<1>7. CASE reading # <<>>
  <2>1. PICK joined : /\ joined.score = Mean(reading)
                     /\ Sources(reading) = Range(reading) \cup {joined}
    BY <1>7 DEF Sources
  <2>. QED  BY <1>4, <1>5, <1>7, <2>1, MeanType, FS_AddElement
<1>. QED  BY <1>6, <1>7

\* Among the offers of a code the strongest are kept, as sure as each other.
LEMMA StrongestEqual ==
  ASSUME NEW X, \A o \in X : o.score \in Nat, NEW p \in Strongest(X), NEW q \in Strongest(X),
         p.code = q.code
  PROVE  p.score = q.score
<1>1. p \in X /\ q \in X /\ q.score <= p.score /\ p.score <= q.score
  BY DEF Strongest
<1>. QED  BY <1>1

\* The offers of one reading represent it.
LEMMA OffersRepresent ==
  ASSUME NEW reading \in Readings
  PROVE  /\ Represents(Offers(reading), {reading})
         /\ \A o \in Offers(reading) : o.score \in Nat
         /\ \A o, p \in Offers(reading) : o.code = p.code => o.score = p.score
<1> DEFINE raw == UNION {OffersOf(s) : s \in Sources(reading)}
<1>1. \A o \in raw : \E s \in Sources(reading) :
         o.score = s.score /\ o.code \in CandidateTexts(s.text)
  BY DEF OffersOf
<1>2. \A o \in raw : o.score \in Nat
  BY <1>1, SourcesFinite
<1>3. Offers(reading) = Strongest(raw)
  BY DEF Offers
<1>4. \A s \in Sources(reading) : \A c \in CandidateTexts(s.text) :
         \E o \in raw : o.code = c /\ o.score = s.score
  <2> SUFFICES ASSUME NEW s \in Sources(reading), NEW c \in CandidateTexts(s.text)
               PROVE  \E o \in raw : o.code = c /\ o.score = s.score
    OBVIOUS
  <2>. PICK o : o = [code |-> c, score |-> s.score]
    OBVIOUS
  <2>1. o \in OffersOf(s) /\ o.code = c /\ o.score = s.score
    BY DEF OffersOf
  <2>. QED  BY <2>1
<1>5. ASSUME NEW s \in Sources(reading), NEW c \in CandidateTexts(s.text)
      PROVE  \E o \in Strongest(raw) : o.code = c /\ o.score >= s.score
  <2> DEFINE of == {t \in Sources(reading) : c \in CandidateTexts(t.text)}
             scores == {t.score : t \in of}
             score == [t \in of |-> t.score]
  <2>1. IsFiniteSet(of) /\ \A t \in of : t.score \in Nat
    BY SourcesFinite, FS_Subset
  <2>2. score \in Surjection(of, scores)
    BY DEF Surjection
  <2>3. IsFiniteSet(scores)
    <3>. HIDE DEF of, scores, score
    <3>. QED  BY <2>1, <2>2, FS_Surjection
  <2>4. scores \in SUBSET Nat /\ s.score \in scores
    BY <2>1
  <2>5. PICK x \in scores : \A y \in scores : y <= x
    <3>. HIDE DEF scores
    <3>. QED  BY <2>3, <2>4, GreatestExists
  <2>6. PICK t \in of : x = t.score
    OBVIOUS
  <2>7. PICK o \in raw : o.code = c /\ o.score = x
    BY <1>4, <2>6
  <2>8. \A p \in raw : p.code = c => p.score <= x
    BY <1>1, <2>5
  <2>9. o \in Strongest(raw)
    <3>. HIDE DEF raw
    <3>. QED  BY <2>7, <2>8 DEF Strongest
  <2>10. s.score <= x /\ s.score \in Nat /\ x \in Nat
    BY <2>4, <2>5
  <2>. QED  BY <2>7, <2>9, <2>10
<1>6. Strongest(raw) \subseteq raw
  BY DEF Strongest
<1>7. \A o, p \in Strongest(raw) : o.code = p.code => o.score = p.score
  <2>. HIDE DEF raw
  <2>. QED  BY <1>2, StrongestEqual
<1>. HIDE DEF raw
<1>. QED  BY <1>1, <1>2, <1>3, <1>5, <1>6, <1>7 DEF Represents

\* The merged offers of two readings represent both.
LEMMA MergeRepresents ==
  ASSUME NEW one \in Readings, NEW two \in Readings
  PROVE  Represents(Merge(Offers(one), Offers(two)), {one, two})
<1>. PICK first, other, merged :
        first = Offers(one) /\ other = Offers(two) /\ merged = Merge(first, other)
  OBVIOUS
<1>1. /\ Represents(first, {one}) /\ Represents(other, {two})
      /\ \A o \in first \cup other : o.score \in Nat
      /\ \A o, p \in first : o.code = p.code => o.score = p.score
      /\ \A o, p \in other : o.code = p.code => o.score = p.score
  BY OffersRepresent
<1>2. /\ merged \subseteq first \cup other
      /\ \A o \in first \cup other :
           (\A p \in first \cup other : p.code = o.code => p.score <= o.score) => o \in merged
  BY DEF Merge, Strongest
<1>3. ASSUME NEW o \in first \cup other
      PROVE  \E p \in merged : p.code = o.code /\ p.score >= o.score
  <2>1. CASE \E q \in first \cup other : q.code = o.code /\ q.score > o.score
    <3>1. PICK q \in first \cup other : q.code = o.code /\ q.score > o.score
      BY <2>1
    <3>2. \A p \in first \cup other : p.code = q.code => p.score <= q.score
      BY <1>1, <3>1
    <3>. QED  BY <1>1, <1>2, <3>1, <3>2
  <2>2. CASE ~\E q \in first \cup other : q.code = o.code /\ q.score > o.score
    <3>1. \A p \in first \cup other : p.code = o.code => p.score <= o.score
      BY <1>1, <2>2
    <3>. QED  BY <1>1, <1>2, <3>1
  <2>. QED  BY <2>1, <2>2
<1>4. ASSUME NEW r \in {one, two}, NEW s \in Sources(r), NEW c \in CandidateTexts(s.text)
      PROVE  \E o \in merged : o.code = c /\ o.score >= s.score
  <2>1. PICK o \in first \cup other : o.code = c /\ o.score >= s.score
    BY <1>1 DEF Represents
  <2>2. PICK p \in merged : p.code = c /\ p.score >= o.score
    BY <1>3, <2>1
  <2>3. s.score \in Nat /\ o.score \in Nat /\ p.score \in Nat
    BY <1>1, <1>2, SourcesFinite
  <2>. QED  BY <2>1, <2>2, <2>3
<1>5. \A o \in merged : \E r \in {one, two} : \E s \in Sources(r) :
         o.score = s.score /\ o.code \in CandidateTexts(s.text)
  BY <1>1, <1>2 DEF Represents
<1>. QED  BY <1>4, <1>5 DEF Represents

\* A code misread in one segment is among the alternatives of what was seen.
LEMMA MisreadOffered ==
  ASSUME NEW seen \in Texts, NEW code \in Catalogue, Misread(seen, code)
  PROVE  code \in CandidateTexts(seen)
<1>1. seen \in Seq(Seq(STRING)) /\ code \in Seq(Seq(STRING)) /\ DOMAIN seen = DOMAIN code
  BY RecognitionAssumption DEF Misread
<1>2. PICK i \in DOMAIN code :
         /\ \A j \in DOMAIN code \ {i} : seen[j] = code[j]
         /\ Len(seen[i]) = Len(code[i]) /\ HasDigit(seen[i])
         /\ Range(code[i]) \cap {"O", "I", "B"} = {}
         /\ \A k \in DOMAIN code[i] : LookAlike(seen[i][k], code[i][k])
  BY DEF Misread
<1>3. seen[i] \in Seq(STRING) /\ code[i] \in Seq(STRING)
  BY <1>1
<1>4. DOMAIN seen[i] = DOMAIN code[i]
  BY <1>2, <1>3
<1>5. \A k \in DOMAIN code[i] : AsDigit(seen[i][k]) = code[i][k]
  <2> SUFFICES ASSUME NEW k \in DOMAIN code[i]
               PROVE  AsDigit(seen[i][k]) = code[i][k]
    OBVIOUS
  <2>1. code[i][k] \notin {"O", "I", "B"}
    BY <1>2 DEF Range
  <2>2. code[i][k] \in {seen[i][k], AsDigit(seen[i][k])}
    BY <1>2 DEF LookAlike
  <2>. QED  BY <2>1, <2>2 DEF AsDigit
<1>6. Read(seen[i]) = code[i]
  BY <1>3, <1>4, <1>5 DEF Read
<1>7. [seen EXCEPT ![i] = Read(seen[i])] = code
  BY <1>1, <1>2, <1>6
<1>8. code \in Alternatives(seen)
  BY <1>1, <1>2, <1>7 DEF Alternatives
<1>9. seen # <<>>
  BY <1>1
<1>. QED  BY <1>8, <1>9 DEF CandidateTexts

-----------------------------------------------------------------------------
\* What the readings show, seen through offers that represent them: an offer
\* ahead of all others is the best answer, and no offer misses nothing.
LEMMA ForemostBest ==
  ASSUME NEW read \in SUBSET Readings, NEW offers, Represents(offers, read),
         NEW best \in Matches(offers), Foremost(best, Matches(offers)),
         NEW code \in Catalogue \ {best.code},
         NEW r \in read, NEW s \in Sources(r), code \in CandidateTexts(s.text)
  PROVE  s.score < best.score
<1>1. PICK o \in offers : o.code = code /\ o.score >= s.score
  BY DEF Represents
<1>2. o \in Matches(offers) \ {best}
  BY <1>1 DEF Matches
<1>3. o.score < best.score
  BY <1>2 DEF Foremost
<1>4. s.score \in Nat /\ o.score \in Nat /\ best.score \in Nat
  BY <1>1, SourcesFinite DEF Represents, Matches
<1>. QED  BY <1>1, <1>3, <1>4

LEMMA NoneMisread ==
  ASSUME NEW read \in SUBSET Readings, NEW offers, Represents(offers, read),
         Matches(offers) = {},
         NEW r \in read, NEW d \in Range(r), NEW code \in Catalogue
  PROVE  ~Misread(d.text, code)
<1> SUFFICES ASSUME Misread(d.text, code)
             PROVE  FALSE
  OBVIOUS
<1>1. r \in Readings /\ d \in Sources(r)
  BY SourcesFinite
<1>2. d.text \in Texts
  <2>1. PICK n \in 0..MaxDetections : r \in [1..n -> Detection]
    BY DEF Readings
  <2>2. d \in Detection
    BY <2>1 DEF Range
  <2>. QED  BY <2>2 DEF Detection
<1>3. code \in CandidateTexts(d.text)
  BY <1>2, MisreadOffered
<1>4. PICK o \in offers : o.code = code
  BY <1>1, <1>3 DEF Represents
<1>. QED  BY <1>4 DEF Matches

\* The end of a pass whose offers represent what was read by then.
LEMMA ConcludeInv ==
  ASSUME RecognitionTypeOK, NEW offers, Represents(offers, Range(readings')),
         readings' \in Seq(Readings), Len(readings') <= 2,
         Conclude(Matches(offers))
  PROVE  RecognitionInv'
<1>1. Range(readings') \in SUBSET Readings
  BY DEF Range
<1>2. CASE \E best \in Matches(offers) :
             Foremost(best, Matches(offers)) /\ End("answered", best.code)
  <2>1. PICK best \in Matches(offers) :
           Foremost(best, Matches(offers)) /\ End("answered", best.code)
    BY <1>2
  <2>2. phase' = "answered" /\ answer' = best.code /\ stored' = FALSE
    BY <2>1 DEF End
  <2>3. best \in offers /\ best.code \in Catalogue
    BY DEF Matches
  <2>4. PICK r \in Range(readings') : \E s \in Sources(r) :
           best.score = s.score /\ best.code \in CandidateTexts(s.text)
    BY <2>3 DEF Represents
  <2>5. best.score \in ShownWith(answer)'
    BY <2>2, <2>4 DEF ShownWith
  <2>6. ASSUME NEW code \in Catalogue \ {answer'}, NEW score \in ShownWith(code)'
        PROVE  score < best.score
    <3>1. PICK q \in Range(readings') : \E t \in Sources(q) :
             score = t.score /\ code \in CandidateTexts(t.text)
      BY <2>6 DEF ShownWith
    <3>. QED  BY <1>1, <2>1, <2>2, <3>1, ForemostBest
  <2>7. AnswerIsBest'
    BY <2>5, <2>6 DEF AnswerIsBest
  <2>. QED  BY <2>2, <2>3, <2>7
            DEF RecognitionInv, RecognitionTypeOK, MisreadRecovered, Ends, Working
<1>3. CASE Ambiguous(Matches(offers)) /\ End("ambiguous", <<>>)
  BY <1>3 DEF End, RecognitionInv, RecognitionTypeOK, AnswerIsBest, MisreadRecovered, Ends,
              Working
<1>. QED  BY <1>2, <1>3, Conclude(Matches(offers)) DEF Conclude

LEMMA FirstPassInv ==
  ASSUME RecognitionInv, FirstPass
  PROVE  RecognitionInv'
<1>1. PICK reading \in Readings :
        /\ readings' = <<reading>>
        /\ IF Matches(Offers(reading)) # {} THEN Conclude(Matches(Offers(reading)))
           ELSE phase' = "second" /\ UNCHANGED <<answer, stored>>
  BY DEF FirstPass
<1>2. readings' \in Seq(Readings) /\ Len(readings') <= 2 /\ Range(readings') = {reading}
  BY <1>1 DEF Range
<1>3. Represents(Offers(reading), Range(readings'))
  BY <1>2, OffersRepresent
<1>4. CASE Matches(Offers(reading)) # {}
  BY <1>1, <1>2, <1>3, <1>4, ConcludeInv DEF RecognitionInv
<1>5. CASE Matches(Offers(reading)) = {}
  BY <1>1, <1>2, <1>5
  DEF RecognitionInv, RecognitionTypeOK, AnswerIsBest, MisreadRecovered, Working
<1>. QED  BY <1>4, <1>5

LEMMA SecondPassInv ==
  ASSUME RecognitionInv, SecondPass
  PROVE  RecognitionInv'
<1>1. PICK first \in Readings : readings = <<first>>
  BY DEF RecognitionInv, SecondPass
<1>a. PICK reading \in Readings :
        LET merged == Merge(Offers(first), Offers(reading)) IN
        /\ readings' = <<readings[1], reading>>
        /\ IF Matches(merged) # {} THEN Conclude(Matches(merged))
           ELSE End(IF merged = {} THEN "undetected" ELSE "unknown", <<>>)
  BY <1>1 DEF SecondPass
<1>b. PICK merged : merged = Merge(Offers(first), Offers(reading))
  OBVIOUS
<1>2. /\ merged = Merge(Offers(first), Offers(reading))
      /\ readings' = <<readings[1], reading>>
      /\ IF Matches(merged) # {} THEN Conclude(Matches(merged))
         ELSE End(IF merged = {} THEN "undetected" ELSE "unknown", <<>>)
  BY <1>a, <1>b
<1>3. readings' = <<first, reading>>
  BY <1>1, <1>2
<1>4. readings' \in Seq(Readings) /\ Len(readings') <= 2 /\ Range(readings') = {first, reading}
  BY <1>3 DEF Range
<1>5. Represents(merged, Range(readings'))
  BY <1>2, <1>4, MergeRepresents
<1>6. CASE Matches(merged) # {}
  BY <1>2, <1>4, <1>5, <1>6, ConcludeInv DEF RecognitionInv
<1>7. CASE Matches(merged) = {}
  <2>1. phase' \in {"undetected", "unknown"} /\ answer' = <<>> /\ stored' = FALSE
    BY <1>2, <1>7 DEF End
  <2>2. MisreadRecovered'
    BY <1>4, <1>5, <1>7, NoneMisread DEF MisreadRecovered
  <2>. QED  BY <1>4, <2>1, <2>2
            DEF RecognitionInv, RecognitionTypeOK, AnswerIsBest, Ends, Working
<1>. QED  BY <1>6, <1>7

LEMMA NoReadings == <<>> \in Seq(Readings) /\ Len(<<>>) <= 2
  OBVIOUS

LEMMA RecognitionInitInv == RecognitionInit => RecognitionInv
<1> SUFFICES ASSUME RecognitionInit
             PROVE  RecognitionInv
  OBVIOUS
<1>1. RecognitionTypeOK
  BY NoReadings DEF RecognitionInit, RecognitionTypeOK
<1>. QED  BY <1>1 DEF RecognitionInit, RecognitionInv, AnswerIsBest, MisreadRecovered

LEMMA RecognitionNextInv == RecognitionInv /\ [RecognitionNext]_recognitionVars => RecognitionInv'
<1> SUFFICES ASSUME RecognitionInv, [RecognitionNext]_recognitionVars
             PROVE  RecognitionInv'
  OBVIOUS
<1>1. CASE Upload
  BY <1>1 DEF Upload, RecognitionInv, RecognitionTypeOK, AnswerIsBest, MisreadRecovered, Working
<1>2. CASE ProviderFails \/ ProcessDies
  BY <1>2 DEF ProviderFails, ProcessDies, End, RecognitionInv, RecognitionTypeOK, AnswerIsBest,
              MisreadRecovered, Working, Ends
<1>3. CASE NextPhoto
  <2>1. RecognitionTypeOK'
    BY <1>3, NoReadings DEF NextPhoto, RecognitionTypeOK
  <2>. QED  BY <1>3, <2>1 DEF NextPhoto, RecognitionInv, AnswerIsBest, MisreadRecovered
<1>4. CASE UNCHANGED recognitionVars
  BY <1>4 DEF recognitionVars, RecognitionInv, RecognitionTypeOK, AnswerIsBest,
              MisreadRecovered, ShownWith
<1>. QED  BY <1>1, <1>2, <1>3, <1>4, FirstPassInv, SecondPassInv DEF RecognitionNext

-----------------------------------------------------------------------------
(***************************************************************************)
(* The theorems.                                                           *)
(***************************************************************************)

\* The inductive invariant of a photo.
THEOREM RecognitionCorrect == RecognitionSpec => []RecognitionInv
  BY RecognitionInitInv, RecognitionNextInv, PTL DEF RecognitionSpec

\* Every reachable state of the recognition is well typed: an answer is the
\* code of an active product.
THEOREM RecognitionTypeCorrect == RecognitionSpec => []RecognitionTypeOK
  BY RecognitionCorrect, PTL DEF RecognitionInv

\* resolve, _merge_candidates and _match_candidates: whatever is detected in
\* the passes, the product answered is the only one shown with the most
\* confidence.
THEOREM BestIsAnswered == RecognitionSpec => []AnswerIsBest
  BY RecognitionCorrect, PTL DEF RecognitionInv

\* _generate_alternatives: a product whose code was misread in one segment by
\* look-alikes alone is never reported missing.
THEOREM MisreadIsRecovered == RecognitionSpec => []MisreadRecovered
  BY RecognitionCorrect, PTL DEF RecognitionInv

-----------------------------------------------------------------------------
(***************************************************************************)
(* MemberRecords.                                                          *)
(***************************************************************************)
\* What a request looked up is still so when no other has committed since; a
\* body once stored stays, so the row a request has read is there to update.
AskTrue(req) ==
    /\ req # NoAsk /\ ~req.stale =>
         IF req.op = "register" THEN registered[<<req.holder, req.serial>>] = 0
         ELSE bodies[req.holder] = req.read
    /\ req.op \in {"insert", "update"} /\ req.read # NoBody => bodies[req.holder] # NoBody

RecordsInv ==
    /\ RecordsTypeOK
    /\ \A a \in Asks : AskTrue(asks[a])
    /\ RegisteredOnce
    /\ BodyAsSent

LEMMA AskShape ==
  ASSUME NEW req \in Ask
  PROVE  /\ req # NoAsk => /\ req.holder \in Holders /\ req.stale \in BOOLEAN
                           /\ [req EXCEPT !.stale = TRUE] \in Ask
                           /\ [req EXCEPT !.stale = TRUE].stale
                           /\ [req EXCEPT !.stale = TRUE].op = req.op
                           /\ [req EXCEPT !.stale = TRUE].holder = req.holder
         /\ req.op = "register" => req # NoAsk /\ req.serial \in Serials
         /\ req.op \in {"insert", "update"} =>
              /\ req # NoAsk /\ req.body \in Body /\ req.read \in Body \cup {NoBody}
              /\ [req EXCEPT !.stale = TRUE].read = req.read
         /\ req # NoAsk => req.op \in {"register", "insert", "update"}
         /\ NoAsk.op \notin {"register", "insert", "update"}
<1>1. CASE req = NoAsk
  BY <1>1 DEF NoAsk
<1>2. CASE req \in RegisterAsk
  <2>1. [req EXCEPT !.stale = TRUE] \in RegisterAsk
    BY <1>2 DEF RegisterAsk
  <2>. QED  BY <1>2, <2>1 DEF NoAsk, Ask, RegisterAsk
<1>3. CASE req \in BodyAsk
  <2>1. [req EXCEPT !.stale = TRUE] \in BodyAsk
    BY <1>3 DEF BodyAsk
  <2>. QED  BY <1>3, <2>1 DEF NoAsk, Ask, BodyAsk
<1>. QED  BY <1>1, <1>2, <1>3 DEF Ask

\* A step of one request that changes no record.
LEMMA LookUp ==
  ASSUME RecordsInv, NEW a \in Asks, NEW new \in Ask, asks' = [asks EXCEPT ![a] = new],
         AskTrue(new), UNCHANGED <<registered, bodies, doubled, sent, mingled>>
  PROVE  RecordsInv'
<1>1. RecordsTypeOK'
  BY DEF RecordsInv, RecordsTypeOK
<1>2. ASSUME NEW b \in Asks
      PROVE  AskTrue(asks[b])'
  <2>1. asks'[b] = IF b = a THEN new ELSE asks[b]
    BY DEF RecordsInv, RecordsTypeOK
  <2>2. AskTrue(asks'[b])
    BY <2>1 DEF RecordsInv
  <2>. QED  BY <2>2 DEF AskTrue
<1>. QED  BY <1>1, <1>2 DEF RecordsInv, RegisteredOnce, BodyAsSent

LEMMA RegisterInsertInv ==
  ASSUME RecordsInv, NEW a \in Asks, RegisterInsert(a)
  PROVE  RecordsInv'
<1> DEFINE h == asks[a].holder
           s == asks[a].serial
           alike == {b \in Asks : asks[b].op = "register" /\ asks[b].holder = h
                                                         /\ asks[b].serial = s}
<1>1. asks[a] \in Ask /\ asks[a] # NoAsk /\ h \in Holders /\ s \in Serials /\ asks[a].op = "register"
  BY AskShape DEF RegisterInsert, RecordsInv, RecordsTypeOK
<1>2. /\ registered[<<h, s>>] < MaxCopies
      /\ registered' = [registered EXCEPT ![<<h, s>>] = @ + 1]
      /\ doubled' = IF asks[a].stale THEN doubled \cup {<<h, s>>} ELSE doubled
      /\ asks' = [b \in Asks |-> IF b = a THEN NoAsk
                                 ELSE IF b \in alike THEN [asks[b] EXCEPT !.stale = TRUE]
                                 ELSE asks[b]]
      /\ UNCHANGED <<bodies, sent, mingled>>
  BY DEF RegisterInsert, Close
<1>3. <<h, s>> \in Holders \X Serials
  BY <1>1
<1> HIDE DEF h, s
<1>4. registered[<<h, s>>] \in Nat /\ registered[<<h, s>>] + 1 \in Copies
  <2>1. registered[<<h, s>>] \in Copies
    BY <1>3 DEF RecordsInv, RecordsTypeOK
  <2>. QED  BY <1>2, <2>1, RecordsAssumption
<1>5. /\ registered' \in [Holders \X Serials -> Copies]
      /\ \A hs \in Holders \X Serials :
            registered'[hs] = IF hs = <<h, s>> THEN registered[<<h, s>>] + 1 ELSE registered[hs]
  BY <1>2, <1>3, <1>4 DEF RecordsInv, RecordsTypeOK
<1>6. doubled' \subseteq Holders \X Serials /\ doubled \subseteq doubled'
  BY <1>2, <1>3 DEF RecordsInv, RecordsTypeOK
<1>7. ASSUME NEW b \in Asks
      PROVE  asks'[b] \in Ask /\ AskTrue(asks[b])'
  <2>1. CASE b = a
    BY <1>2, <2>1 DEF Ask, AskTrue, NoAsk
  <2>2. CASE b # a /\ b \in alike
    BY <1>2, <2>2, AskShape DEF AskTrue, RecordsInv, RecordsTypeOK
  <2>3. CASE b # a /\ b \notin alike
    <3>1. asks'[b] = asks[b] /\ asks[b] \in Ask
      BY <1>2, <2>3 DEF RecordsInv, RecordsTypeOK
    <3>2. CASE asks[b] = NoAsk
      BY <3>1, <3>2 DEF AskTrue, NoAsk
    <3>3. CASE asks[b] # NoAsk /\ asks[b].op = "register"
      <4>1. /\ <<asks[b].holder, asks[b].serial>> \in Holders \X Serials
            /\ <<asks[b].holder, asks[b].serial>> # <<h, s>>
        BY <2>3, <3>1, <3>3, AskShape
      <4>. QED  BY <1>5, <3>1, <3>3, <4>1 DEF AskTrue, RecordsInv
    <3>4. CASE asks[b] # NoAsk /\ asks[b].op # "register"
      BY <1>2, <3>1, <3>4 DEF AskTrue, RecordsInv
    <3>. QED  BY <3>1, <3>2, <3>3, <3>4
  <2>. QED  BY <2>1, <2>2, <2>3
<1>8. RegisteredOnce'
  <2> SUFFICES ASSUME NEW g \in Holders, NEW r \in Serials, registered'[<<g, r>>] > 1
               PROVE  <<g, r>> \in doubled'
    BY DEF RegisteredOnce
  <2>1. <<g, r>> \in Holders \X Serials
    OBVIOUS
  <2>2. CASE <<g, r>> # <<h, s>>
    BY <1>5, <1>6, <2>1, <2>2 DEF RecordsInv, RegisteredOnce
  <2>3. CASE <<g, r>> = <<h, s>> /\ asks[a].stale
    BY <1>2, <2>3
  <2>4. CASE <<g, r>> = <<h, s>> /\ ~asks[a].stale
    <3>1. registered[<<h, s>>] = 0
      BY <1>1, <2>4 DEF RecordsInv, AskTrue, h, s
    <3>. QED  BY <1>5, <2>1, <2>4, <3>1
  <2>. QED  BY <2>2, <2>3, <2>4
<1>9. BodyAsSent'
  BY <1>2 DEF RecordsInv, BodyAsSent
<1>10. asks' \in [Asks -> Ask]
  BY <1>2, <1>7
<1>. QED  BY <1>2, <1>5, <1>6, <1>7, <1>8, <1>9, <1>10 DEF RecordsInv, RecordsTypeOK

\* A request that missed nothing stores what it was sent.
LEMMA StoredAsSent ==
  ASSUME RecordsInv, NEW a \in Asks, asks[a].op \in {"insert", "update"}, ~asks[a].stale,
         NEW row, row = bodies[asks[a].holder]
  PROVE  Changed(row, asks[a].read, asks[a].body) = asks[a].body
<1>1. asks[a].body \in Body /\ asks[a].read \in Body \cup {NoBody} /\ row = asks[a].read
  BY AskShape DEF RecordsInv, RecordsTypeOK, AskTrue
<1>. QED  BY <1>1 DEF Changed, Body

LEMMA StoreInv ==
  ASSUME RecordsInv, NEW a \in Asks, AvatarInsert(a) \/ BodyUpdate(a)
  PROVE  RecordsInv'
<1> DEFINE h == asks[a].holder
           alike == {b \in Asks : asks[b].op \in {"insert", "update"} /\ asks[b].holder = h}
<1>1. /\ asks[a] \in Ask /\ asks[a] # NoAsk /\ h \in Holders /\ asks[a].body \in Body
      /\ asks[a].read \in Body \cup {NoBody} /\ asks[a].op \in {"insert", "update"}
  BY AskShape DEF AvatarInsert, BodyUpdate, RecordsInv, RecordsTypeOK
<1>2. PICK new : /\ new \in {asks[a].body, Changed(bodies[h], asks[a].read, asks[a].body)}
                 /\ bodies' = [bodies EXCEPT ![h] = new]
                 /\ asks[a].op = "insert" => new = asks[a].body
                 /\ asks[a].op = "update" =>
                      new = Changed(bodies[h], asks[a].read, asks[a].body)
  BY DEF AvatarInsert, BodyUpdate
<1>3. /\ sent' = [sent EXCEPT ![h] = asks[a].body]
      /\ mingled' = IF asks[a].stale THEN mingled \cup {h} ELSE mingled
      /\ asks' = [b \in Asks |-> IF b = a THEN NoAsk
                                 ELSE IF b \in alike THEN [asks[b] EXCEPT !.stale = TRUE]
                                 ELSE asks[b]]
      /\ UNCHANGED <<registered, doubled>>
  BY DEF AvatarInsert, BodyUpdate, BodyDone, Close
<1>4. ~asks[a].stale => new = asks[a].body
  BY <1>1, <1>2, StoredAsSent
<1>5. new \in Body
  <2>1. asks[a].op = "update" =>
          Changed(bodies[h], asks[a].read, asks[a].body) \in Body
    <3> SUFFICES ASSUME asks[a].op = "update"
                 PROVE  Changed(bodies[h], asks[a].read, asks[a].body) \in Body
      OBVIOUS
    <3>1. asks[a].read # NoBody => bodies[h] \in Body
      BY <1>1 DEF RecordsInv, RecordsTypeOK, AskTrue
    <3>. QED  BY <1>1, <3>1 DEF Changed, Body
  <2>. QED  BY <1>1, <1>2, <2>1
<1>6. /\ bodies' \in [Holders -> Body \cup {NoBody}]
      /\ sent' \in [Holders -> Body \cup {NoBody}]
      /\ mingled' \subseteq Holders /\ mingled \subseteq mingled'
  BY <1>1, <1>2, <1>3, <1>5 DEF RecordsInv, RecordsTypeOK
<1> HIDE DEF h
<1>7. \A g \in Holders : /\ bodies'[g] = IF g = h THEN new ELSE bodies[g]
                         /\ sent'[g] = IF g = h THEN asks[a].body ELSE sent[g]
  BY <1>2, <1>3 DEF RecordsInv, RecordsTypeOK
<1>8. new # NoBody
  BY <1>5, RecordsAssumption DEF Body
<1>9. ASSUME NEW b \in Asks
      PROVE  asks'[b] \in Ask /\ AskTrue(asks[b])'
  <2>1. asks[b] \in Ask /\ AskTrue(asks[b])
    BY DEF RecordsInv, RecordsTypeOK
  <2>2. CASE b = a
    BY <1>3, <2>2 DEF Ask, AskTrue, NoAsk
  <2>3. CASE b # a /\ b \in alike
    <3>1. asks'[b] = [asks[b] EXCEPT !.stale = TRUE]
      BY <1>3, <2>3
    <3>2. /\ asks'[b] \in Ask /\ asks'[b].stale
          /\ asks'[b].holder = h
      BY <2>1, <2>3, <3>1, AskShape
    <3>. QED  BY <1>1, <1>7, <1>8, <3>2 DEF AskTrue, h
  <2>4. CASE b # a /\ b \notin alike
    <3>1. asks'[b] = asks[b]
      BY <1>3, <2>4
    <3>2. asks[b].op \in {"insert", "update"} => asks[b].holder \in Holders /\ asks[b].holder # h
      BY <2>1, <2>4, AskShape
    <3>3. asks[b] # NoAsk => asks[b].op \in {"register", "insert", "update"}
      BY <2>1, AskShape
    <3>. QED  BY <1>3, <1>7, <2>1, <3>1, <3>2, <3>3 DEF AskTrue
  <2>. QED  BY <2>2, <2>3, <2>4
<1>10. asks' \in [Asks -> Ask]
  BY <1>3, <1>9
<1>11. BodyAsSent'
  <2> SUFFICES ASSUME NEW g \in Holders, bodies'[g] # sent'[g]
               PROVE  g \in mingled'
    BY DEF BodyAsSent
  <2>1. CASE g = h
    BY <1>3, <1>4, <1>7, <2>1
  <2>2. CASE g # h
    BY <1>6, <1>7, <2>2 DEF RecordsInv, BodyAsSent
  <2>. QED  BY <2>1, <2>2
<1>12. RegisteredOnce'
  BY <1>3 DEF RecordsInv, RegisteredOnce
<1>. QED  BY <1>3, <1>6, <1>9, <1>10, <1>11, <1>12 DEF RecordsInv, RecordsTypeOK

LEMMA RecordsInitInv == RecordsInit => RecordsInv
  BY RecordsAssumption DEF RecordsInit, RecordsInv, RecordsTypeOK, AskTrue, NoAsk, Ask,
                          RegisteredOnce, BodyAsSent

LEMMA RecordsNextInv == RecordsInv /\ [RecordsNext]_recordsVars => RecordsInv'
<1> SUFFICES ASSUME RecordsInv, [RecordsNext]_recordsVars
             PROVE  RecordsInv'
  OBVIOUS
<1>1. ASSUME NEW a \in Asks, RegisterRead(a)
      PROVE  RecordsInv'
  <2>1. PICK h \in Holders, s \in Serials :
          /\ Unregistered(h, s)
          /\ Open(a, [op |-> "register", holder |-> h, serial |-> s, stale |-> FALSE])
    BY <1>1 DEF RegisterRead
  <2> DEFINE new == [op |-> "register", holder |-> h, serial |-> s, stale |-> FALSE]
  <2>2. new \in Ask /\ AskTrue(new)
    BY <2>1 DEF Ask, RegisterAsk, AskTrue, Unregistered
  <2>. QED  BY <1>1, <2>1, <2>2, LookUp DEF RegisterRead, Open
<1>2. ASSUME NEW a \in Asks, BodyRead(a)
      PROVE  RecordsInv'
  <2>1. PICK h \in Holders, body \in Body, op \in {"insert", "update"} :
          Open(a, [op |-> op, holder |-> h, read |-> bodies[h], body |-> body, stale |-> FALSE])
    BY <1>2 DEF BodyRead
  <2> DEFINE new == [op |-> op, holder |-> h, read |-> bodies[h], body |-> body, stale |-> FALSE]
  <2>2. new \in Ask /\ AskTrue(new)
    BY <2>1 DEF Ask, BodyAsk, AskTrue, RecordsInv, RecordsTypeOK
  <2>. QED  BY <1>2, <2>1, <2>2, LookUp DEF BodyRead, Open
<1>3. ASSUME NEW a \in Asks, AskLost(a)
      PROVE  RecordsInv'
  <2>1. NoAsk \in Ask /\ AskTrue(NoAsk)
    BY DEF Ask, AskTrue, NoAsk
  <2>. QED  BY <1>3, <2>1, LookUp DEF AskLost
<1>4. CASE UNCHANGED recordsVars
  BY <1>4 DEF recordsVars, RecordsInv, RecordsTypeOK, AskTrue, RegisteredOnce, BodyAsSent
<1>. QED  BY <1>1, <1>2, <1>3, <1>4, RegisterInsertInv, StoreInv DEF RecordsNext, AskStep

-----------------------------------------------------------------------------
(***************************************************************************)
(* The theorems.                                                           *)
(***************************************************************************)

\* The inductive invariant of registrations and bodies.
THEOREM RecordsCorrect == RecordsSpec => []RecordsInv
  BY RecordsInitInv, RecordsNextInv, PTL DEF RecordsSpec

\* Every reachable state of the records is well typed.
THEOREM RecordsTypeCorrect == RecordsSpec => []RecordsTypeOK
  BY RecordsCorrect, PTL DEF RecordsInv

\* A serial is registered twice by a member only by requests that overlap.
THEOREM SerialOnce == RecordsSpec => []RegisteredOnce
  BY RecordsCorrect, PTL DEF RecordsInv

\* Parameters nobody sent come only from requests that overlap.
THEOREM NoMixture == RecordsSpec => []BodyAsSent
  BY RecordsCorrect, PTL DEF RecordsInv

-----------------------------------------------------------------------------
(***************************************************************************)
(* The six side by side.                                                   *)
(***************************************************************************)
\* A behaviour of the six is one of each: no step of one writes what another owns.
THEOREM CatalogueComposes ==
  Spec => /\ CoordiSpec /\ PagingSpec /\ RecordsSpec
          /\ RecognitionSpec /\ RecommendSpec /\ SeedSpec
<1>1. Init => /\ CoordiInit /\ PagingInit /\ RecordsInit
              /\ RecognitionInit /\ RecommendInit /\ SeedInit
  BY DEF Init
<1>2. [Next]_vars => [CoordiNext]_coordiVars
  BY DEF Next, vars
<1>3. [Next]_vars => [PagingNext]_pagingVars
  BY DEF Next, vars
<1>4. [Next]_vars => [RecordsNext]_recordsVars
  BY DEF Next, vars
<1>5. [Next]_vars => [RecognitionNext]_recognitionVars
  BY DEF Next, vars
<1>6. [Next]_vars => [RecommendNext]_recommendVars
  BY DEF Next, vars
<1>7. [Next]_vars => [SeedNext]_seedVars
  BY DEF Next, vars
<1>. QED
  BY <1>1, <1>2, <1>3, <1>4, <1>5, <1>6, <1>7, PTL
  DEF Spec, CoordiSpec, PagingSpec, RecordsSpec, RecognitionSpec, RecommendSpec, SeedSpec

\* The tables and what requests hold of them are well typed.
THEOREM CatalogueTypeCorrect == Spec => []TypesOK
<1>1. CoordiTypeOK /\ PagingTypeOK /\ RecordsTypeOK /\ RecognitionTypeOK
        /\ RecommendTypeOK /\ SeedTypeOK => TypesOK
  BY DEF TypesOK
<1>. QED
  BY <1>1, CatalogueComposes, CoordiTypeCorrect, PagingTypeCorrect, RecordsTypeCorrect,
     RecognitionTypeCorrect, RecommendTypeCorrect, SeedTypeCorrect, PTL
=============================================================================
