---------------------------- MODULE CoordisProofs ----------------------------
(***************************************************************************)
(* Theorems about Coordis for any garments, lists and concurrent requests. *)
(***************************************************************************)
EXTENDS Coordis, WellFoundedInduction, TLAPS

\* What a request holds of the row and the items is still so when no other
\* update has committed since; a request that deletes while it holds the row
\* has missed nothing.
EditTrue(e) ==
    /\ edits[e] # NoEdit => coordi # NoCoordi
    /\ Replaces(edits[e]) =>
         /\ edits[e].missed => edits[e].stale
         /\ ~edits[e].stale => edits[e].read.thumbnail = coordi.thumbnail
         /\ edits[e].op = "read" => ~edits[e].locked
    /\ edits[e].op \in {"deleting", "written"} =>
         /\ ~edits[e].missed => items \subseteq edits[e].doomed
         /\ edits[e].locked => ~edits[e].missed

CoordiInv ==
    /\ CoordiTypeOK
    /\ \A e \in Edits : EditTrue(e)
    /\ ThumbnailFits

-----------------------------------------------------------------------------
(***************************************************************************)
(* Lists of items and their thumbnail.                                     *)
(***************************************************************************)
LEMMA NatMinimum ==
  ASSUME NEW T, T \subseteq Nat, T # {}
  PROVE  \E x \in T : \A y \in T : x <= y
<1> DEFINE R == OpToRel(<, Nat)
<1>1. \A x, y \in Nat : y < x => <<y, x>> \in R
  BY DEF OpToRel
<1>2. IsWellFoundedOn(R, Nat)
  BY NatLessThanWellFounded
<1>3. PICK x \in T : \A y \in T : <<y, x>> \notin R
  <2> HIDE DEF R
  <2>. QED  BY <1>2, WFMin
<1>4. \A y \in T : ~(y < x)
  BY <1>1, <1>3
<1>. QED  BY <1>4

LEMMA ListShape ==
  ASSUME NEW list \in Lists
  PROVE  /\ DOMAIN list \subseteq 1..MaxItems
         /\ \A i \in DOMAIN list : list[i] \in Garments
<1>1. PICK n \in 1..MaxItems : list \in [1..n -> Garments]
  BY DEF Lists
<1>. QED  BY <1>1, CoordisAssumption

LEMMA ThumbnailType ==
  ASSUME NEW list \in Lists
  PROVE  ThumbnailOf(list) \in Pictures \cup {NoPicture}
<1> DEFINE pictured == {i \in DOMAIN list : PictureOf[list[i]] # NoPicture}
<1>1. CASE pictured = {}
  BY <1>1 DEF ThumbnailOf
<1>2. CASE pictured # {}
  <2>1. pictured \subseteq Nat
    BY ListShape
  <2>2. \E i \in pictured : \A j \in pictured : i <= j
    <3> HIDE DEF pictured
    <3>. QED  BY <1>2, <2>1, NatMinimum
  <2>3. (CHOOSE i \in pictured : \A j \in pictured : i <= j) \in pictured
    <3> HIDE DEF pictured
    <3>. QED  BY <2>2
  <2>. QED  BY <1>2, <2>3, ListShape, CoordisAssumption DEF ThumbnailOf
<1>. QED  BY <1>1, <1>2

LEMMA ItemsType ==
  ASSUME NEW list \in Lists, NEW b \in 1..MaxBatch
  PROVE  ItemsOf(list, b) \subseteq Item
  BY ListShape DEF ItemsOf, Item

\* The op of a request says which record it is.
LEMMA EditShape ==
  ASSUME NEW edit \in Edit
  PROVE  /\ edit.op = "idle" <=> edit = NoEdit
         /\ Replaces(edit) => edit \in Replacement
         /\ edit \in Replacement => Replaces(edit)
         /\ edit.op \in {"rename", "delete"} => edit # NoEdit /\ ~Replaces(edit)
         /\ Replaces(edit) => edit # NoEdit
  BY DEF Edit, NoEdit, Replacement, Replaces

-----------------------------------------------------------------------------
(***************************************************************************)
(* Steps of one request that leave the coordi and its items alone.         *)
(***************************************************************************)
LEMMA FitsUnchanged ==
  ASSUME ThumbnailFits, UNCHANGED <<coordi, items, drifted>>
  PROVE  ThumbnailFits'
  BY DEF ThumbnailFits

LEMMA LocalStep ==
  ASSUME CoordiInv, NEW e \in Edits, NEW new \in Edit,
         edits' = [edits EXCEPT ![e] = new],
         UNCHANGED <<coordi, items, drifted>>,
         batch' \in 0..MaxBatch,
         EditTrue(e)'
  PROVE  CoordiInv'
<1>1. CoordiTypeOK'
  BY DEF CoordiInv, CoordiTypeOK
<1>2. ASSUME NEW d \in Edits
      PROVE  EditTrue(d)'
  <2>1. CASE d = e
    BY <2>1
  <2>2. CASE d # e
    <3>1. edits'[d] = edits[d]
      BY <2>2 DEF CoordiInv, CoordiTypeOK
    <3>. QED  BY <3>1 DEF CoordiInv, EditTrue
  <2>. QED  BY <2>1, <2>2
<1>3. ThumbnailFits'
  BY FitsUnchanged DEF CoordiInv
<1>. QED  BY <1>1, <1>2, <1>3 DEF CoordiInv

LEMMA UpdateReadInv ==
  ASSUME CoordiInv, NEW e \in Edits, UpdateRead(e)
  PROVE  CoordiInv'
<1>1. PICK list \in Lists, renames \in BOOLEAN :
        edits' = [edits EXCEPT ![e] =
           [op |-> "read", read |-> coordi, renames |-> renames, list |-> list,
            batch |-> batch + 1, doomed |-> {}, locked |-> FALSE,
            stale |-> FALSE, missed |-> FALSE]]
  BY DEF UpdateRead
<1> DEFINE new == [op |-> "read", read |-> coordi, renames |-> renames, list |-> list,
                   batch |-> batch + 1, doomed |-> {}, locked |-> FALSE,
                   stale |-> FALSE, missed |-> FALSE]
<1>2. batch + 1 \in 1..MaxBatch /\ coordi \in Coordi /\ batch' \in 0..MaxBatch
  BY CoordisAssumption DEF UpdateRead, Owned, CoordiInv, CoordiTypeOK
<1>3. new \in Edit
  BY <1>2 DEF Edit, Replacement
<1>4. edits'[e] = new
  BY <1>1 DEF CoordiInv, CoordiTypeOK
<1>5. EditTrue(e)'
  BY <1>4 DEF EditTrue, UpdateRead, Owned, Replaces
<1>. QED  BY <1>1, <1>2, <1>3, <1>5, LocalStep DEF UpdateRead

LEMMA OtherReadInv ==
  ASSUME CoordiInv, NEW e \in Edits, RenameRead(e) \/ DeleteRead(e)
  PROVE  CoordiInv'
<1>1. PICK op \in {"rename", "delete"} :
        edits' = [edits EXCEPT ![e] = [op |-> op, read |-> coordi]]
  BY DEF RenameRead, DeleteRead
<1>2. coordi \in Coordi /\ coordi # NoCoordi /\ UNCHANGED <<coordi, items, batch, drifted>>
  BY DEF RenameRead, DeleteRead, Owned, CoordiInv, CoordiTypeOK
<1>3. [op |-> op, read |-> coordi] \in Edit
  BY <1>2 DEF Edit
<1>4. edits'[e] = [op |-> op, read |-> coordi]
  BY <1>1 DEF CoordiInv, CoordiTypeOK
<1>5. EditTrue(e)'
  BY <1>2, <1>4 DEF EditTrue, Replaces
<1>. QED  BY <1>1, <1>2, <1>3, <1>5, LocalStep DEF CoordiInv, CoordiTypeOK

\* What follows from the shape of a request that replaces the items.
LEMMA ReplacingEdit ==
  ASSUME CoordiInv, NEW e \in Edits, Replaces(edits[e])
  PROVE  edits[e] \in Replacement /\ EditTrue(e) /\ coordi # NoCoordi /\ coordi \in Coordi
<1>1. edits[e] \in Edit /\ EditTrue(e)
  BY DEF CoordiInv, CoordiTypeOK
<1>2. edits[e] \in Replacement /\ edits[e] # NoEdit
  BY <1>1, EditShape
<1>. QED  BY <1>1, <1>2 DEF EditTrue, CoordiInv, CoordiTypeOK

LEMMA UpdateFlushInv ==
  ASSUME CoordiInv, NEW e \in Edits, UpdateFlush(e)
  PROVE  CoordiInv'
<1> DEFINE changed == edits[e].renames \/ NewThumbnail(edits[e])
           new == [edits[e] EXCEPT !.op = "flushed", !.locked = changed]
<1>1. edits[e] \in Replacement /\ EditTrue(e) /\ coordi # NoCoordi
  BY ReplacingEdit DEF UpdateFlush, Replaces
<1>2. changed \in BOOLEAN
  BY <1>1 DEF NewThumbnail, Replacement
<1>3. new \in Replacement
  BY <1>1, <1>2 DEF Replacement
<1>4. edits' = [edits EXCEPT ![e] = new] /\ UNCHANGED <<coordi, items, batch, drifted>>
  BY DEF UpdateFlush
<1>5. edits'[e] = new
  BY <1>4 DEF CoordiInv, CoordiTypeOK
<1>6. EditTrue(e)'
  BY <1>1, <1>4, <1>5 DEF EditTrue, Replaces, Replacement, UpdateFlush
<1>. QED  BY <1>3, <1>4, <1>6, LocalStep DEF CoordiInv, CoordiTypeOK, Edit

LEMMA UpdateDeleteInv ==
  ASSUME CoordiInv, NEW e \in Edits, UpdateDelete(e)
  PROVE  CoordiInv'
<1> DEFINE new == [edits[e] EXCEPT !.op = "deleting", !.doomed = items, !.missed = FALSE]
<1>1. edits[e] \in Replacement /\ EditTrue(e) /\ coordi # NoCoordi
  BY ReplacingEdit DEF UpdateDelete, Replaces
<1>2. new \in Replacement
  BY <1>1 DEF Replacement, CoordiInv, CoordiTypeOK
<1>3. edits' = [edits EXCEPT ![e] = new] /\ UNCHANGED <<coordi, items, batch, drifted>>
  BY DEF UpdateDelete
<1>4. edits'[e] = new
  BY <1>3 DEF CoordiInv, CoordiTypeOK
<1>5. EditTrue(e)'
  BY <1>1, <1>3, <1>4 DEF EditTrue, Replaces, Replacement, UpdateDelete
<1>. QED  BY <1>2, <1>3, <1>5, LocalStep DEF CoordiInv, CoordiTypeOK, Edit

LEMMA UpdateWriteInv ==
  ASSUME CoordiInv, NEW e \in Edits, UpdateWrite(e)
  PROVE  CoordiInv'
<1> DEFINE new == [edits[e] EXCEPT !.op = "written"]
<1>1. edits[e] \in Replacement /\ EditTrue(e) /\ coordi # NoCoordi
  BY ReplacingEdit DEF UpdateWrite, Replaces
<1>2. new \in Replacement
  BY <1>1 DEF Replacement
<1>3. edits' = [edits EXCEPT ![e] = new] /\ UNCHANGED <<coordi, items, batch, drifted>>
  BY DEF UpdateWrite
<1>4. edits'[e] = new
  BY <1>3 DEF CoordiInv, CoordiTypeOK
<1>5. EditTrue(e)'
  BY <1>1, <1>3, <1>4 DEF EditTrue, Replaces, Replacement, UpdateWrite
<1>. QED  BY <1>2, <1>3, <1>5, LocalStep DEF CoordiInv, CoordiTypeOK, Edit

LEMMA EndInv ==
  ASSUME CoordiInv, NEW e \in Edits, RenameCommit(e) \/ EditLost(e)
  PROVE  CoordiInv'
<1>1. /\ edits' = [edits EXCEPT ![e] = NoEdit]
      /\ UNCHANGED <<coordi, items, batch, drifted>>
  BY DEF RenameCommit, EditLost
<1>2. edits'[e] = NoEdit /\ NoEdit \in Edit
  BY <1>1 DEF CoordiInv, CoordiTypeOK, Edit
<1>3. EditTrue(e)'
  BY <1>2 DEF EditTrue, Replaces, NoEdit
<1>. QED  BY <1>1, <1>2, <1>3, LocalStep DEF CoordiInv, CoordiTypeOK

-----------------------------------------------------------------------------
(***************************************************************************)
(* Steps that change the coordi.                                           *)
(***************************************************************************)
LEMMA CoordiCreateInv ==
  ASSUME CoordiInv, CoordiCreate
  PROVE  CoordiInv'
<1>1. PICK list \in Lists :
         /\ coordi' = [thumbnail |-> ThumbnailOf(list), deleted |-> FALSE]
         /\ items' = ItemsOf(list, batch + 1)
  BY DEF CoordiCreate
<1>2. batch + 1 \in 1..MaxBatch /\ batch' \in 0..MaxBatch /\ UNCHANGED <<edits, drifted>>
  BY CoordisAssumption DEF CoordiCreate, CoordiInv, CoordiTypeOK
<1>3. CoordiTypeOK'
  <2>1. coordi' \in Coordi
    BY <1>1, ThumbnailType DEF Coordi
  <2>2. items' \subseteq Item
    BY <1>1, <1>2, ItemsType
  <2>. QED  BY <1>2, <2>1, <2>2 DEF CoordiInv, CoordiTypeOK
<1>4. \A e \in Edits : edits'[e] = NoEdit
  BY <1>2 DEF CoordiCreate, CoordiInv, EditTrue
<1>5. \A e \in Edits : EditTrue(e)'
  BY <1>4 DEF EditTrue, NoEdit, Replaces
<1>6. ThumbnailFits'
  BY <1>1, <1>2 DEF ThumbnailFits
<1>. QED  BY <1>3, <1>5, <1>6 DEF CoordiInv

LEMMA DeleteCommitInv ==
  ASSUME CoordiInv, NEW e \in Edits, DeleteCommit(e)
  PROVE  CoordiInv'
<1>1. /\ coordi' = [coordi EXCEPT !.deleted = TRUE]
      /\ edits' = [edits EXCEPT ![e] = NoEdit]
      /\ UNCHANGED <<items, batch, drifted>>
  BY DEF DeleteCommit
<1>2. coordi # NoCoordi /\ coordi \in Coordi
  <2>1. edits[e] \in Edit /\ EditTrue(e)
    BY DEF CoordiInv, CoordiTypeOK
  <2>2. edits[e] # NoEdit
    BY <2>1, EditShape DEF DeleteCommit
  <2>. QED  BY <2>1, <2>2 DEF EditTrue, CoordiInv, CoordiTypeOK
<1>3. coordi' \in Coordi /\ coordi'.thumbnail = coordi.thumbnail
  BY <1>1, <1>2 DEF Coordi
<1>4. CoordiTypeOK'
  BY <1>1, <1>3 DEF CoordiInv, CoordiTypeOK, Edit
<1>5. \A d \in Edits : edits'[d] = IF d = e THEN NoEdit ELSE edits[d]
  BY <1>1 DEF CoordiInv, CoordiTypeOK
<1>6. ASSUME NEW d \in Edits
      PROVE  EditTrue(d)'
  <2>1. CASE d = e
    BY <1>5, <2>1 DEF EditTrue, NoEdit, Replaces
  <2>2. CASE d # e /\ edits[d] = NoEdit
    BY <1>5, <2>2 DEF EditTrue, NoEdit, Replaces
  <2>3. CASE d # e /\ edits[d] # NoEdit
    <3>1. coordi' # NoCoordi
      BY <1>3, CoordisAssumption
    <3>. QED  BY <1>1, <1>3, <1>5, <2>3, <3>1 DEF EditTrue, Replaces, CoordiInv
  <2>. QED  BY <2>1, <2>2, <2>3
<1>7. ThumbnailFits'
  BY <1>1, <1>2, <1>3 DEF CoordiInv, ThumbnailFits
<1>. QED  BY <1>4, <1>6, <1>7 DEF CoordiInv

\* An update that held the row from before its DELETE, or that no other update
\* overtook since, replaces all the items.
LEMMA ReplacedWhole ==
  ASSUME CoordiInv, NEW e \in Edits, edits[e].op = "written",
         edits[e].locked \/ ~edits[e].missed
  PROVE  Replaced(edits[e]) = ItemsOf(edits[e].list, edits[e].batch)
<1>1. EditTrue(e)
  BY DEF CoordiInv
<1>2. items \subseteq edits[e].doomed
  BY <1>1 DEF EditTrue
<1>. QED  BY <1>2 DEF Replaced

\* Another request that replaces the items learns that it has been overtaken.
Overtaken(edit) == [edit EXCEPT !.stale = TRUE, !.missed = TRUE]

LEMMA UpdateCommitInv ==
  ASSUME CoordiInv, NEW e \in Edits, UpdateCommit(e)
  PROVE  CoordiInv'
<1> DEFINE edit == edits[e]
<1>1. /\ edit.op = "written" /\ RowFree(e)
      /\ coordi' = Rewritten(edit) /\ items' = Replaced(edit)
      /\ drifted' = edit.stale /\ UNCHANGED batch
  BY DEF UpdateCommit
<1>2. edit \in Replacement /\ EditTrue(e) /\ coordi # NoCoordi /\ coordi \in Coordi
  BY <1>1, ReplacingEdit DEF Replaces
<1>3. edit.list \in Lists /\ edit.batch \in 1..MaxBatch /\ edit.stale \in BOOLEAN
  BY <1>2 DEF Replacement
<1>4. \A d \in Edits :
        edits'[d] = IF d = e THEN NoEdit
                    ELSE IF Replaces(edits[d]) THEN Overtaken(edits[d]) ELSE edits[d]
  BY DEF UpdateCommit, Overtaken
<1>5. coordi' \in Coordi
  BY <1>1, <1>2, <1>3, ThumbnailType DEF Rewritten, Coordi
<1>6. items' \subseteq Item
  BY <1>1, <1>3, ItemsType DEF Replaced, CoordiInv, CoordiTypeOK
<1>7. \A d \in Edits : Replaces(edits[d]) => Overtaken(edits[d]) \in Replacement
  <2> SUFFICES ASSUME NEW d \in Edits, Replaces(edits[d])
               PROVE  Overtaken(edits[d]) \in Replacement
    OBVIOUS
  <2>1. edits[d] \in Replacement
    BY ReplacingEdit
  <2>. QED  BY <2>1 DEF Overtaken, Replacement
<1>8. CoordiTypeOK'
  <2>1. edits' \in [Edits -> Edit]
    <3>1. \A d \in Edits : edits'[d] \in Edit
      BY <1>4, <1>7 DEF CoordiInv, CoordiTypeOK, Edit
    <3>2. edits' = [d \in Edits |-> edits'[d]]
      BY DEF UpdateCommit
    <3>. QED  BY <3>1, <3>2
  <2>. QED  BY <1>1, <1>3, <1>5, <1>6, <2>1 DEF CoordiInv, CoordiTypeOK
<1>9. ASSUME NEW d \in Edits
      PROVE  EditTrue(d)'
  <2>1. CASE d = e
    BY <1>4, <2>1 DEF EditTrue, NoEdit, Replaces
  <2>2. CASE d # e /\ ~Replaces(edits[d])
    <3>1. edits'[d] = edits[d]
      BY <1>4, <2>2
    <3>2. coordi' # NoCoordi
      BY <1>5, CoordisAssumption
    <3>. QED  BY <2>2, <3>1, <3>2 DEF EditTrue, Replaces
  <2>3. CASE d # e /\ Replaces(edits[d])
    <3>1. edits'[d] = Overtaken(edits[d])
      BY <1>4, <2>3
    <3>2. coordi' # NoCoordi
      BY <1>5, CoordisAssumption
    <3>3. edits[d] \in Replacement /\ EditTrue(d)
      BY <2>3, ReplacingEdit
    <3>4. ~edits[d].locked
      BY <1>1, <2>3 DEF RowFree
    <3>5. /\ edits'[d].stale /\ edits'[d].missed
          /\ edits'[d].op = edits[d].op /\ edits'[d].locked = edits[d].locked
      BY <3>1, <3>3 DEF Overtaken, Replacement
    <3>. QED  BY <3>2, <3>4, <3>5 DEF EditTrue
  <2>. QED  BY <2>1, <2>2, <2>3
<1>10. ThumbnailFits'
  <2> SUFFICES ASSUME ~drifted'
               PROVE  \E list \in Lists, b \in 1..MaxBatch :
                         items' = ItemsOf(list, b) /\ coordi'.thumbnail = ThumbnailOf(list)
    BY DEF ThumbnailFits
  <2>1. ~edit.stale /\ ~edit.missed /\ edit.read.thumbnail = coordi.thumbnail
    BY <1>1, <1>2 DEF EditTrue, Replaces
  <2>2. items' = ItemsOf(edit.list, edit.batch)
    BY <1>1, <2>1, ReplacedWhole
  <2>3. coordi'.thumbnail = ThumbnailOf(edit.list)
    BY <1>1, <1>2, <2>1 DEF Rewritten, NewThumbnail, Coordi
  <2>. QED  BY <1>3, <2>2, <2>3
<1>. QED  BY <1>8, <1>9, <1>10 DEF CoordiInv

LEMMA EditStepInv ==
  ASSUME CoordiInv, NEW e \in Edits, EditStep(e)
  PROVE  CoordiInv'
  BY UpdateReadInv, UpdateFlushInv, UpdateDeleteInv, UpdateWriteInv, UpdateCommitInv,
     OtherReadInv, EndInv, DeleteCommitInv DEF EditStep

LEMMA CoordiInitInv == CoordiInit => CoordiInv
<1> SUFFICES ASSUME CoordiInit
             PROVE  CoordiInv
  OBVIOUS
<1>1. CoordiTypeOK
  <2>1. batch \in 0..MaxBatch
    BY CoordisAssumption DEF CoordiInit
  <2>2. edits \in [Edits -> Edit]
    BY DEF CoordiInit, Edit
  <2>. QED  BY <2>1, <2>2 DEF CoordiInit, CoordiTypeOK
<1>2. \A e \in Edits : EditTrue(e)
  BY DEF CoordiInit, EditTrue, NoEdit, Replaces
<1>3. ThumbnailFits
  BY DEF CoordiInit, ThumbnailFits
<1>. QED  BY <1>1, <1>2, <1>3 DEF CoordiInv

LEMMA CoordiNextInv == CoordiInv /\ [CoordiNext]_coordiVars => CoordiInv'
<1> SUFFICES ASSUME CoordiInv, [CoordiNext]_coordiVars
             PROVE  CoordiInv'
  OBVIOUS
<1>1. CASE CoordiNext
  BY <1>1, CoordiCreateInv, EditStepInv DEF CoordiNext
<1>2. CASE UNCHANGED coordiVars
  <2>1. UNCHANGED <<coordi, items, batch, edits, drifted>>
    BY <1>2 DEF coordiVars
  <2>. QED  BY <2>1 DEF CoordiInv, CoordiTypeOK, EditTrue, ThumbnailFits, Replaces
<1>. QED  BY <1>1, <1>2

-----------------------------------------------------------------------------
(***************************************************************************)
(* The theorems.                                                           *)
(***************************************************************************)

\* The inductive invariant of a coordi under any updates and deletions.
THEOREM CoordiCorrect == CoordiSpec => []CoordiInv
  BY CoordiInitInv, CoordiNextInv, PTL DEF CoordiSpec

\* Every reachable state of a coordi is well typed.
THEOREM CoordiTypeCorrect == CoordiSpec => []CoordiTypeOK
  BY CoordiCorrect, PTL DEF CoordiInv

\* Items and thumbnail belong together unless the last update decided on a row
\* it had read before another update.
THEOREM ThumbnailAlwaysFits == CoordiSpec => []ThumbnailFits
  BY CoordiCorrect, PTL DEF CoordiInv

\* The items change only when a coordi is made or an update commits.
LEMMA ItemsWriters ==
  ASSUME CoordiInv, CoordiNext, items' # items
  PROVE  CoordiCreate \/ \E d \in Edits : UpdateCommit(d)
  BY DEF CoordiNext, EditStep, UpdateRead, UpdateFlush, UpdateDelete, UpdateWrite,
         RenameRead, RenameCommit, DeleteRead, DeleteCommit, EditLost

\* An update that held the row when it deleted, or that no other overtook
\* since, leaves exactly its own items.
THEOREM ReplacesExactly == CoordiSpec => ReplaceExact
<1> DEFINE Exact ==
      \A e \in Edits :
          edits[e].op = "written" /\ items' # items /\ edits'[e] = NoEdit
            /\ (edits[e].locked \/ ~edits[e].missed)
          => items' = ItemsOf(edits[e].list, edits[e].batch)
<1>1. CoordiInv /\ [CoordiNext]_coordiVars => [Exact]_coordiVars
  <2> SUFFICES ASSUME CoordiInv, CoordiNext, NEW e \in Edits,
                      edits[e].op = "written", items' # items, edits'[e] = NoEdit,
                      edits[e].locked \/ ~edits[e].missed
               PROVE  items' = ItemsOf(edits[e].list, edits[e].batch)
    OBVIOUS
  <2>1. edits[e] # NoEdit
    BY DEF NoEdit
  <2>2. CASE CoordiCreate
    BY <2>1, <2>2 DEF CoordiCreate
  <2>3. ASSUME NEW d \in Edits, UpdateCommit(d)
        PROVE  items' = ItemsOf(edits[e].list, edits[e].batch)
    <3>1. d = e
      <4>1. Overtaken(edits[e]) # NoEdit
        <5>1. edits[e] \in Replacement
          BY ReplacingEdit DEF Replaces
        <5>. QED  BY <5>1 DEF Overtaken, Replacement, NoEdit
      <4>. QED  BY <2>1, <2>3, <4>1 DEF UpdateCommit, Overtaken
    <3>. QED  BY <2>3, <3>1, ReplacedWhole DEF UpdateCommit
  <2>. QED  BY <2>2, <2>3, ItemsWriters
<1>. QED  BY <1>1, CoordiCorrect, PTL DEF CoordiSpec, ReplaceExact

\* No request under way brings a deleted coordi back.
THEOREM StaysDeleted == CoordiSpec => DeletedStaysDeleted
<1> DEFINE Stays == coordi # NoCoordi /\ coordi.deleted => coordi'.deleted
<1>1. CoordiInv /\ [CoordiNext]_coordiVars => [Stays]_coordiVars
  <2> SUFFICES ASSUME CoordiInv, CoordiNext, coordi # NoCoordi, coordi.deleted
               PROVE  coordi'.deleted
    OBVIOUS
  <2>1. coordi \in Coordi
    BY DEF CoordiInv, CoordiTypeOK
  <2>2. CASE UNCHANGED coordi
    BY <2>2
  <2>3. ASSUME NEW e \in Edits, UpdateCommit(e)
        PROVE  coordi'.deleted
    BY <2>1, <2>3 DEF UpdateCommit, Rewritten, Coordi
  <2>4. ASSUME NEW e \in Edits, DeleteCommit(e)
        PROVE  coordi'.deleted
    BY <2>1, <2>4 DEF DeleteCommit, Coordi
  <2>5. \/ UNCHANGED coordi
        \/ \E e \in Edits : UpdateCommit(e) \/ DeleteCommit(e)
    BY DEF CoordiNext, CoordiCreate, EditStep, UpdateRead, UpdateFlush, UpdateDelete,
           UpdateWrite, RenameRead, RenameCommit, DeleteRead, EditLost
  <2>. QED  BY <2>2, <2>3, <2>4, <2>5
<1>. QED  BY <1>1, CoordiCorrect, PTL DEF CoordiSpec, DeletedStaysDeleted
=============================================================================
