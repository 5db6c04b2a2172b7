------------------------------- MODULE Coordis -------------------------------
(***************************************************************************)
(* A saved coordi and its list of items: app/modules/coordis.              *)
(*                                                                         *)
(* Coordis share no rows, so the module follows one of them.  An update    *)
(* replaces the items by one DELETE of all of them and then INSERTs.  The  *)
(* ORM flushes a changed name or thumbnail before the DELETE, which locks  *)
(* the savedCoordi row first; when neither changed the row is locked only  *)
(* by the UPDATE of updatedAt at the commit.  A DELETE takes the items its *)
(* snapshot shows, waits for those another transaction is deleting, and    *)
(* never sees what that transaction inserted (READ COMMITTED).             *)
(***************************************************************************)
EXTENDS Naturals, Sequences

CONSTANTS
    Garments,    \* active products a client puts in a coordi, each with a variant or none
    Pictures,    \* thumbnail files of products
    PictureOf,   \* the thumbnail of a garment's product, if it has one
    MaxItems,    \* bound on the items of a request
    Edits,       \* requests in progress at a time
    MaxBatch,    \* bound on the requests that write items
    NoPicture, NoCoordi

Coordi == [thumbnail : Pictures \cup {NoPicture}, deleted : BOOLEAN]

ASSUME CoordisAssumption ==
    /\ PictureOf \in [Garments -> Pictures \cup {NoPicture}]
    /\ NoPicture \notin Pictures /\ NoCoordi \notin Coordi
    /\ MaxItems \in Nat /\ MaxBatch \in Nat

VARIABLES
    coordi,   \* the savedCoordi row
    items,    \* its savedCoordiItem rows
    batch,    \* number of the last request that prepared items
    edits     \* what each request in progress has read and written

VARIABLE drifted \* the last update of the items had read a row another one changed since

coordiVars == <<coordi, items, batch, edits, drifted>>

Item == [batch : 1..MaxBatch, order : 1..MaxItems, garment : Garments]

\* No product twice with the same variant; with two of its variants it may be.
Lists == {s \in UNION {[1..n -> Garments] : n \in 1..MaxItems} :
            \A i, j \in DOMAIN s : s[i] = s[j] => i = j}
NoEdit == [op |-> "idle"]

\* stale: other items were committed since the row was read; missed: since the
\* snapshot of the DELETE.  locked: the savedCoordi row is locked.
Replacement ==
    [op : {"read", "flushed", "deleting", "written"}, read : Coordi, renames : BOOLEAN,
     list : Lists, batch : 1..MaxBatch, doomed : SUBSET Item,
     locked : BOOLEAN, stale : BOOLEAN, missed : BOOLEAN]

Edit == {NoEdit} \cup [op : {"rename", "delete"}, read : Coordi] \cup Replacement

CoordiTypeOK ==
    /\ coordi \in Coordi \cup {NoCoordi}
    /\ items \subseteq Item
    /\ batch \in 0..MaxBatch
    /\ edits \in [Edits -> Edit]
    /\ drifted \in BOOLEAN

CoordiInit ==
    /\ coordi = NoCoordi /\ items = {} /\ batch = 0
    /\ edits = [e \in Edits |-> NoEdit]
    /\ drifted = FALSE

\* Mutant: the position of the pictured item is stored in place of its file.
ThumbnailIndex(list) == IF PictureOf[list[1]] # NoPicture THEN PictureOf[list[1]] ELSE 1

\* The thumbnail of the first item that has one.
ThumbnailOf(list) ==
    LET pictured == {i \in DOMAIN list : PictureOf[list[i]] # NoPicture} IN
    IF pictured = {} THEN NoPicture
    ELSE PictureOf[list[CHOOSE i \in pictured : \A j \in pictured : i <= j]]

ItemsOf(list, b) ==
    {[batch |-> b, order |-> i, garment |-> list[i]] : i \in DOMAIN list}

Replaces(edit) == edit.op \in {"read", "flushed", "deleting", "written"}

\* Row and items are inserted in one transaction.
CoordiCreate ==
    /\ coordi = NoCoordi /\ batch < MaxBatch
    /\ \E list \in Lists :
         /\ coordi' = [thumbnail |-> ThumbnailOf(list), deleted |-> FALSE]
         /\ items' = ItemsOf(list, batch + 1)
    /\ batch' = batch + 1
    /\ UNCHANGED <<edits, drifted>>

Owned == coordi # NoCoordi /\ ~coordi.deleted

\* The row is read and the items of the request are validated.
UpdateRead(e) ==
    /\ edits[e] = NoEdit /\ Owned /\ batch < MaxBatch
    /\ \E list \in Lists, renames \in BOOLEAN :
         edits' = [edits EXCEPT ![e] =
           [op |-> "read", read |-> coordi, renames |-> renames, list |-> list,
            batch |-> batch + 1, doomed |-> {}, locked |-> FALSE,
            stale |-> FALSE, missed |-> FALSE]]
    /\ batch' = batch + 1
    /\ UNCHANGED <<coordi, items, drifted>>

\* A request without items only sets the name.
RenameRead(e) ==
    /\ edits[e] = NoEdit /\ Owned
    /\ edits' = [edits EXCEPT ![e] = [op |-> "rename", read |-> coordi]]
    /\ UNCHANGED <<coordi, items, batch, drifted>>

DeleteRead(e) ==
    /\ edits[e] = NoEdit /\ Owned
    /\ edits' = [edits EXCEPT ![e] = [op |-> "delete", read |-> coordi]]
    /\ UNCHANGED <<coordi, items, batch, drifted>>

\* Mutant: the session does not flush before the DELETE, so the row is not locked in time.
RowAlwaysFree(e) == TRUE

RowFree(e) == \A d \in Edits \ {e} : Replaces(edits[d]) => ~edits[d].locked

NewThumbnail(edit) == ThumbnailOf(edit.list) # edit.read.thumbnail

\* The autoflush of the DELETE writes the row when name or thumbnail changed.
UpdateFlush(e) ==
    /\ edits[e].op = "read"
    /\ LET changed == edits[e].renames \/ NewThumbnail(edits[e]) IN
         /\ changed => RowFree(e)
         /\ edits' = [edits EXCEPT ![e].op = "flushed", ![e].locked = changed]
    /\ UNCHANGED <<coordi, items, batch, drifted>>

UpdateDelete(e) ==
    /\ edits[e].op = "flushed"
    /\ edits' = [edits EXCEPT ![e].op = "deleting", ![e].doomed = items, ![e].missed = FALSE]
    /\ UNCHANGED <<coordi, items, batch, drifted>>

\* The DELETE goes on when no other transaction holds one of its items.
ItemsFree(e) ==
    \A d \in Edits \ {e} :
        edits[d].op = "written" => edits[d].doomed \cap edits[e].doomed = {}

UpdateWrite(e) ==
    /\ edits[e].op = "deleting" /\ ItemsFree(e)
    /\ edits' = [edits EXCEPT ![e].op = "written"]
    /\ UNCHANGED <<coordi, items, batch, drifted>>

\* Mutant: the thumbnail is written only with a new name.
RewrittenIfRenamed(edit) ==
    [coordi EXCEPT !.thumbnail = IF edit.renames THEN ThumbnailOf(edit.list) ELSE @]

\* Mutant: the whole row is written back as it was read.
RewrittenWhole(edit) == [edit.read EXCEPT !.thumbnail = ThumbnailOf(edit.list)]

\* Only a thumbnail that differs from the one read is written.
Rewritten(edit) ==
    [coordi EXCEPT !.thumbnail = IF NewThumbnail(edit) THEN ThumbnailOf(edit.list) ELSE @]

\* Items inserted by others after the DELETE's snapshot stay.
Replaced(edit) == (items \ edit.doomed) \cup ItemsOf(edit.list, edit.batch)

UpdateCommit(e) ==
    /\ edits[e].op = "written" /\ RowFree(e)
    /\ coordi' = Rewritten(edits[e])
    /\ items' = Replaced(edits[e])
    /\ drifted' = edits[e].stale
    /\ edits' = [d \in Edits |->
         IF d = e THEN NoEdit
         ELSE IF Replaces(edits[d]) THEN [edits[d] EXCEPT !.stale = TRUE, !.missed = TRUE]
         ELSE edits[d]]
    /\ UNCHANGED batch

RenameCommit(e) ==
    /\ edits[e].op = "rename" /\ RowFree(e)
    /\ edits' = [edits EXCEPT ![e] = NoEdit]
    /\ UNCHANGED <<coordi, items, batch, drifted>>

DeleteCommit(e) ==
    /\ edits[e].op = "delete" /\ RowFree(e)
    /\ coordi' = [coordi EXCEPT !.deleted = TRUE]
    /\ edits' = [edits EXCEPT ![e] = NoEdit]
    /\ UNCHANGED <<items, batch, drifted>>

\* A crash, a lost connection, or the victim of a deadlock: one request holds
\* the row and waits for items, the other holds the items and waits for the row.
EditLost(e) ==
    /\ edits[e] # NoEdit
    /\ edits' = [edits EXCEPT ![e] = NoEdit]
    /\ UNCHANGED <<coordi, items, batch, drifted>>

EditStep(e) ==
    \/ UpdateRead(e) \/ UpdateFlush(e) \/ UpdateDelete(e) \/ UpdateWrite(e) \/ UpdateCommit(e)
    \/ RenameRead(e) \/ RenameCommit(e) \/ DeleteRead(e) \/ DeleteCommit(e) \/ EditLost(e)

CoordiNext == CoordiCreate \/ \E e \in Edits : EditStep(e)

CoordiSpec == CoordiInit /\ [][CoordiNext]_coordiVars

-----------------------------------------------------------------------------
(***************************************************************************)
(* Properties.                                                             *)
(***************************************************************************)

\* An update that held the row when it deleted, or that no other update
\* overtook since, leaves exactly its own items: replace_items replaces.
ReplaceExact ==
    [][\A e \in Edits :
          edits[e].op = "written" /\ items' # items /\ edits'[e] = NoEdit
            /\ (edits[e].locked \/ ~edits[e].missed)
          => items' = ItemsOf(edits[e].list, edits[e].batch)]_coordiVars

\* The thumbnail is that of the first pictured item, and the items are one
\* request's with sort orders from the first on, unless the last update
\* decided on a row it had read before another update.
ThumbnailFits ==
    coordi # NoCoordi /\ ~drifted =>
        \E list \in Lists, b \in 1..MaxBatch :
            items = ItemsOf(list, b) /\ coordi.thumbnail = ThumbnailOf(list)

\* No update that read the coordi before its deletion brings it back.
DeletedStaysDeleted ==
    [][coordi # NoCoordi /\ coordi.deleted => coordi'.deleted]_coordiVars
=============================================================================
