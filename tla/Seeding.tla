-------------------------------- MODULE Seeding --------------------------------
(***************************************************************************)
(* scripts/seed.py, run again and by several hands at once: the rows it    *)
(* gets or creates, and the thumbnail it heals.                            *)
(*                                                                         *)
(* A run is one transaction; only the thumbnails it saves are on the disk  *)
(* before the commit.  One store, QR code and product stand for all (the   *)
(* campaign is created as the store is): a store is found by its name,     *)
(* which nothing keeps unique, the QR code and the product by unique keys. *)
(* Prices, stock and texts, which every run writes anew, are left out.     *)
(***************************************************************************)
EXTENDS Naturals

CONSTANTS
    SeedRuns,     \* runs in progress at a time
    Thumbnails,   \* pool of file ids (bounds the thumbnails ever saved)
    LostFile,     \* the file an old image names, which has neither row nor blob
    NoFile,
    MaxStores     \* bound on the rows of the store's name

ASSUME SeedingAssumption ==
    /\ NoFile \notin Thumbnails /\ LostFile \notin Thumbnails /\ NoFile # LostFile
    /\ MaxStores \in Nat \ {0}

VARIABLES
    storeRows,    \* number of stores of the name
    uniqueRows,   \* which of the unique rows are there
    image,        \* fileId of the product's first image
    fileRows,     \* public fileMetadata
    thumbnails,   \* files on the disk
    seedings      \* what each run in progress has read and written

VARIABLE seeded   \* no run committed yet, or none beside another, or some did

seedVars == <<storeRows, uniqueRows, image, fileRows, thumbnails, seedings, seeded>>

\* How many rows have the store's name: it is not unique.
StoreRows == 0..MaxStores
Unique == {"qr", "product"}
NotSeeding == [at |-> "idle"]
Steps == {"qr", "insert qr", "product", "insert product", "image", "save", "commit"}

\* made: the rows it has inserted; adds: it found no image; beside: another run
\* has committed meanwhile.
Running ==
    [at : Steps, made : SUBSET (Unique \cup {"store"}), adds : BOOLEAN,
     file : Thumbnails \cup {NoFile}, beside : BOOLEAN]
Seeding == {NotSeeding} \cup Running

SeedTypeOK ==
    /\ storeRows \in StoreRows
    /\ uniqueRows \subseteq Unique
    /\ image \in Thumbnails \cup {LostFile, NoFile}
    /\ fileRows \subseteq Thumbnails /\ thumbnails \subseteq Thumbnails
    /\ seedings \in [SeedRuns -> Seeding]
    /\ seeded \in {"never", "alone", "beside"}

\* An empty database, or one that a seed from before images, or from before
\* public ones, has left.
SeedInit ==
    /\ \/ storeRows = 0 /\ uniqueRows = {} /\ image = NoFile
       \/ storeRows = 1 /\ uniqueRows = Unique /\ image \in {NoFile, LostFile}
    /\ fileRows = {} /\ thumbnails = {}
    /\ seedings = [s \in SeedRuns |-> NotSeeding]
    /\ seeded = "never"

Go(s, step) == seedings' = [seedings EXCEPT ![s] = step]
Same == UNCHANGED <<storeRows, uniqueRows, image, fileRows, thumbnails, seeded>>

StoreMissing == storeRows = 0

SeedStore(s) ==
    /\ seedings[s] = NotSeeding
    /\ Go(s, [at |-> "qr", made |-> IF StoreMissing THEN {"store"} ELSE {},
              adds |-> FALSE, file |-> NoFile, beside |-> FALSE])
    /\ Same

Inserting(key) == IF key = "qr" THEN "insert qr" ELSE "insert product"
After(key) == IF key = "qr" THEN "product" ELSE "image"

SeedSelect(s) ==
    \E key \in Unique :
        /\ seedings[s].at = key
        /\ Go(s, [seedings[s] EXCEPT !.at = IF key \in uniqueRows THEN After(key)
                                            ELSE Inserting(key)])
        /\ Same

\* The INSERT waits for that of another run, and fails when that run commits.
SeedInsert(s) ==
    \E key \in Unique :
        /\ seedings[s].at = Inserting(key)
        /\ key \notin uniqueRows
        /\ \A r \in SeedRuns \ {s} : seedings[r] # NotSeeding => key \notin seedings[r].made
        /\ Go(s, [seedings[s] EXCEPT !.at = After(key), !.made = @ \cup {key}])
        /\ Same

\* Mutant: an image is enough, whatever its file.
BackedByImage == image # NoFile

\* The product has an image, and its file has a row.
Backed == image \in fileRows

SeedLookAtImage(s) ==
    /\ seedings[s].at = "image"
    /\ Go(s, [seedings[s] EXCEPT !.at = IF Backed THEN "commit" ELSE "save",
                                 !.adds = image = NoFile])
    /\ Same

\* The photo of the product, or the placeholder, is written at once.
SeedSave(s) ==
    /\ seedings[s].at = "save"
    /\ \E f \in Thumbnails \ thumbnails :
         /\ thumbnails' = thumbnails \cup {f}
         /\ Go(s, [seedings[s] EXCEPT !.at = "commit", !.file = f])
    /\ UNCHANGED <<storeRows, uniqueRows, image, fileRows, seeded>>

\* A run that found no image adds one, the others write theirs over; of two that
\* were added either may come first, by an id drawn at random.
FirstImage(run) ==
    CASE run.file = NoFile -> {image}
      [] run.file # NoFile /\ run.adds /\ image # NoFile -> {image, run.file}
      [] OTHER -> {run.file}

SeedCommit(s) ==
    /\ seedings[s].at = "commit"
    /\ LET run == seedings[s] IN
         /\ "store" \in run.made => storeRows < MaxStores
         /\ storeRows' = IF "store" \in run.made THEN storeRows + 1 ELSE storeRows
         /\ uniqueRows' = uniqueRows \cup (run.made \cap Unique)
         /\ fileRows' = fileRows \cup ({run.file} \ {NoFile})
         /\ image' \in FirstImage(run)
         /\ seeded' = IF run.beside THEN "beside" ELSE IF seeded = "never" THEN "alone" ELSE seeded
    /\ seedings' = [r \in SeedRuns |->
                     IF r = s \/ seedings[r] = NotSeeding THEN NotSeeding
                     ELSE [seedings[r] EXCEPT !.beside = TRUE]]
    /\ UNCHANGED thumbnails

\* A unique key another run has taken, an error, or the script is killed.
SeedLost(s) ==
    /\ seedings[s] # NotSeeding
    /\ Go(s, NotSeeding)
    /\ Same

SeedStep(s) ==
    \/ SeedStore(s) \/ SeedSelect(s) \/ SeedInsert(s) \/ SeedLookAtImage(s)
    \/ SeedSave(s) \/ SeedCommit(s) \/ SeedLost(s)

SeedNext == \E s \in SeedRuns : SeedStep(s)

SeedSpec == SeedInit /\ [][SeedNext]_seedVars

-----------------------------------------------------------------------------
\* The script can be run any number of times (its docstring): once a run has
\* committed, the product's image is a file that can be fetched, also where an
\* old seed, a run killed half way or one overtaken by another had been there;
\* and the store is there once, unless runs overlapped.
SeedHolds ==
    seeded # "never" =>
        /\ uniqueRows = Unique
        /\ image \in fileRows /\ fileRows \subseteq thumbnails
        /\ storeRows = 1 \/ seeded = "beside"
=============================================================================
