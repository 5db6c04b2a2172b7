------------------------------- MODULE Paging -------------------------------
(***************************************************************************)
(* The cursor pages of a member's recently viewed products, registered     *)
(* products, coordis and orders: app/api/dependencies/pagination.py and    *)
(* the list of each repository.                                            *)
(*                                                                         *)
(* A page is one SELECT of an owner's rows below the cursor, newest first, *)
(* ties by id; limit + 1 rows tell whether there is a next page, and the   *)
(* cursor is the key of the last row shown.  Between two pages other       *)
(* requests insert, stamp and delete rows.  A row's time is taken before   *)
(* its transaction commits (the start of it for createdAt, the clock of    *)
(* the handler for viewedAt), so a row may appear below rows shown         *)
(* already, and racing views may set a viewedAt back (RecentViews).        *)
(***************************************************************************)
EXTENDS Integers, FiniteSets

CONSTANTS
    Ids,       \* row ids, ordered
    MaxTime,   \* bound on the times of rows
    MaxLimit,  \* MAX_LIMIT
    Limits     \* page sizes that clients ask for

ASSUME PagingAssumption ==
    /\ Ids \subseteq Nat /\ IsFiniteSet(Ids)
    /\ MaxTime \in Nat
    /\ MaxLimit \in Nat \ {0}
    /\ Limits \subseteq Int

VARIABLES
    shelf,    \* time of each row of the owner in the list, 0 if it is not there
    cursor,   \* key of the last row shown, none before the first page
    more      \* hasNext of the last page

\* What the client has seen in this scan, for the properties.
VARIABLES
    shown,    \* rows it was shown
    twice,    \* rows it was shown again
    steady,   \* rows that were there from the start and have not changed
    setBack   \* rows whose time was moved back

scan == <<shown, twice, steady, setBack>>
pagingVars == <<shelf, cursor, more, scan>>

Key == [time : 1..MaxTime, id : Ids]
Top == [time |-> MaxTime + 1, id |-> 0]  \* no cursor yet: above every key

PagingTypeOK ==
    /\ shelf \in [Ids -> 0..MaxTime]
    /\ cursor \in Key \cup {Top}
    /\ more \in BOOLEAN
    /\ shown \subseteq Ids /\ twice \subseteq Ids
    /\ steady \subseteq Ids /\ setBack \subseteq Ids

PagingInit ==
    /\ shelf \in [Ids -> 0..MaxTime]
    /\ cursor = Top /\ more = TRUE
    /\ shown = {} /\ twice = {} /\ setBack = {}
    /\ steady = {i \in Ids : shelf[i] # 0}

Listed == {i \in Ids : shelf[i] # 0}

\* Strictly below in the order of the pages: earlier, or as late with a lower id.
Below(i, key) ==
    \/ shelf[i] < key.time
    \/ shelf[i] = key.time /\ i < key.id

KeyOf(i) == [time |-> shelf[i], id |-> i]

\* Mutant: the condition on the id is left out, rows as late as the cursor are skipped.
CandidatesByTime == {i \in Listed : shelf[i] < cursor.time}

\* Mutant: the cursor's row and its equals are not excluded.
CandidatesFromCursor == {i \in Listed : shelf[i] <= cursor.time}

Candidates == {i \in Listed : Below(i, cursor)}

Normalized(limit) ==
    IF limit < 1 THEN 1 ELSE IF limit > MaxLimit THEN MaxLimit ELSE limit

\* page is the first rows of candidates, n of them or all when there are fewer.
FirstOf(page, candidates, n) ==
    /\ page \subseteq candidates
    /\ Cardinality(page) = IF Cardinality(candidates) > n THEN n ELSE Cardinality(candidates)
    /\ \A i \in page, j \in candidates \ page : Below(j, KeyOf(i))

HasNext(candidates, n) == Cardinality(candidates) > n

NextCursor(page, last) == last \in page /\ \A i \in page \ {last} : Below(last, KeyOf(i))

\* The rows of the page, whether there is a next one and where it begins.
Answer(page, n) ==
    /\ FirstOf(page, Candidates, n)
    /\ more' = HasNext(Candidates, n)
    /\ IF HasNext(Candidates, n)
       THEN \E last \in page : NextCursor(page, last) /\ cursor' = KeyOf(last)
       ELSE UNCHANGED cursor

NextPage ==
    /\ more
    /\ \E limit \in Limits, page \in SUBSET Ids :
         /\ Answer(page, Normalized(limit))
         /\ shown' = shown \cup page
         /\ twice' = twice \cup (shown \cap page)
    /\ UNCHANGED <<shelf, steady, setBack>>

\* Another request inserts a row, stamps one anew, or deletes one.
RowAppears ==
    \E i \in Ids \ (shown \cup Listed), t \in 1..MaxTime :
        /\ shelf' = [shelf EXCEPT ![i] = t]
        /\ UNCHANGED <<cursor, more, scan>>

RowStamped ==
    \E i \in Listed, t \in 1..MaxTime :
        /\ shelf' = [shelf EXCEPT ![i] = t]
        /\ steady' = steady \ {i}
        /\ setBack' = IF t < shelf[i] THEN setBack \cup {i} ELSE setBack
        /\ UNCHANGED <<cursor, more, shown, twice>>

RowDisappears ==
    \E i \in Listed :
        /\ shelf' = [shelf EXCEPT ![i] = 0]
        /\ steady' = steady \ {i}
        /\ UNCHANGED <<cursor, more, shown, twice, setBack>>

\* The client starts over from the first page.
Reload ==
    /\ cursor' = Top /\ more' = TRUE
    /\ shown' = {} /\ twice' = {} /\ setBack' = {}
    /\ steady' = Listed
    /\ UNCHANGED shelf

PagingNext == NextPage \/ RowAppears \/ RowStamped \/ RowDisappears \/ Reload

PagingSpec == PagingInit /\ [][PagingNext]_pagingVars

-----------------------------------------------------------------------------
(***************************************************************************)
(* Properties.                                                             *)
(***************************************************************************)

\* When the last page has come, every row that stayed as it was has been shown,
\* whatever was inserted, stamped or deleted beside it and however many rows
\* share its time.
NoneSkipped == ~more => steady \subseteq shown

\* No row is shown twice in one scan unless its time was moved back meanwhile.
NoneRepeated == twice \subseteq setBack
=============================================================================
