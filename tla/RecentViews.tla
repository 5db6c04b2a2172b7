----------------------------- MODULE RecentViews -----------------------------
(***************************************************************************)
(* Recently viewed products of members and guests, and the claim of a      *)
(* guest's rows by a member: app/modules/products, guests and auth.        *)
(*                                                                         *)
(* recentProduct has no unique constraint: GET /products/{id} SELECTs the  *)
(* row of this owner and product and then updates it or inserts one, and   *)
(* POST /auth/claim walks over the rows it listed.  A request sees its own *)
(* changes (autoflush) and, of a row its session has loaded, the values it *)
(* loaded (identity map); an UPDATE writes the columns it changed, fails   *)
(* when the row is gone and makes the request roll back.  Row locks only   *)
(* delay the later writer, who then writes all the same.                   *)
(***************************************************************************)
EXTENDS Naturals, FiniteSets

CONSTANTS
    Members,   \* members, who exist throughout
    Guests,    \* pool of guestSession ids
    Products,  \* active products
    Rows,      \* pool of recentProduct ids (bounds the rows ever inserted)
    Viewers,   \* requests in progress at a time
    LastView,  \* bound on the times at which a view is stamped
    NoRecent   \* no row

ASSUME RecentAssumption ==
    /\ Members \cap Guests = {}
    /\ LastView \in Nat
    /\ NoRecent \notin Rows
    /\ NoRecent \notin [owner : Members \cup Guests, product : Products, at : Nat]

VARIABLES
    guests,  \* a guestSession: not made yet, live, expired, or deleted
    recent,  \* the recentProduct table
    used,    \* ids that have been given out
    clock,   \* now_kst(), as the number of views stamped
    visits   \* what each request in progress has read and changed

\* What happened, for the properties; no handler reads these.
VARIABLES
    last,      \* time of the last committed view of each owner and product, 0 if none
    overlapped,\* owners one of whose requests committed on rows read before another (or the clean-up) committed
    claimers,  \* members who have claimed each guest
    contested  \* members who claimed a guest while another claim of it was in progress

recentHistory == <<last, overlapped, claimers, contested>>
recentVars == <<guests, recent, used, clock, visits, recentHistory>>

Owners == Members \cup Guests
\* A guest's session, by its row and whether it has expired.
GuestRow == {"none", "live", "expired", "deleted"}
RecentRow == [owner : Owners, product : Products, at : 1..LastView]
NoVisit == [op |-> "idle"]

\* found is the row an upsert updates, NoRecent when it will insert.  A claim
\* holds the rows it listed and still has to visit, the rows its session has
\* loaded, those it has given to the member or stamped anew, and its deletes.
ViewVisit ==
    [op : {"view"}, owner : Owners, product : Products, found : Rows \cup {NoRecent},
     at : 1..LastView, stale : BOOLEAN]
ClaimVisit ==
    [op : {"claim"}, guest : Guests, member : Members, listed : SUBSET Rows,
     todo : SUBSET Rows, loaded : [Rows -> RecentRow \cup {NoRecent}],
     moved : SUBSET Rows, stamped : SUBSET Rows, dropped : SUBSET Rows,
     stale : BOOLEAN, rival : BOOLEAN]
Visit == {NoVisit} \cup ViewVisit \cup ClaimVisit

RecentTypeOK ==
    /\ guests \in [Guests -> GuestRow]
    /\ recent \in [Rows -> RecentRow \cup {NoRecent}]
    /\ used \subseteq Rows
    /\ clock \in 0..LastView
    /\ visits \in [Viewers -> Visit]
    /\ last \in [Owners -> [Products -> 0..LastView]]
    /\ overlapped \subseteq Owners
    /\ claimers \in [Guests -> SUBSET Members]
    /\ contested \subseteq Members

RecentInit ==
    /\ guests = [g \in Guests |-> "none"]
    /\ recent = [r \in Rows |-> NoRecent]
    /\ used = {} /\ clock = 0
    /\ visits = [v \in Viewers |-> NoVisit]
    /\ last = [o \in Owners |-> [p \in Products |-> 0]]
    /\ overlapped = {}
    /\ claimers = [g \in Guests |-> {}]
    /\ contested = {}

Present == {r \in Rows : recent[r] # NoRecent}
RowsOf(owner) == {r \in Present : recent[r].owner = owner}
RowsFor(owner, product) == {r \in RowsOf(owner) : recent[r].product = product}

\* The owners whose rows a request works on.
Touches(visit) ==
    CASE visit.op = "view"  -> {visit.owner}
      [] visit.op = "claim" -> {visit.guest, visit.member}
      [] OTHER -> {}

Begin(v, visit) == visits[v] = NoVisit /\ visits' = [visits EXCEPT ![v] = visit]

\* The request ends; the others that work on rows of these owners are stale.
EndOver(v, owners) ==
    visits' = [w \in Viewers |->
        IF w = v THEN NoVisit
        ELSE IF Touches(visits[w]) \cap owners = {} THEN visits[w]
        ELSE IF visits[w].op = "claim" /\ visits[v].op = "claim" /\ visits[w].guest = visits[v].guest
             THEN [visits[w] EXCEPT !.stale = TRUE, !.rival = TRUE]
        ELSE [visits[w] EXCEPT !.stale = TRUE]]

NoteOverlap(v, owners) ==
    overlapped' = IF visits[v].stale THEN overlapped \cup owners ELSE overlapped

CreateGuest ==
    \E g \in Guests :
        /\ guests[g] = "none"
        /\ guests' = [guests EXCEPT ![g] = "live"]
        /\ UNCHANGED <<recent, used, clock, visits, recentHistory>>

\* 23:59:59 of the day: the token of a guest ends with the session.
GuestExpires ==
    \E g \in Guests :
        /\ guests[g] = "live"
        /\ guests' = [guests EXCEPT ![g] = "expired"]
        /\ UNCHANGED <<recent, used, clock, visits, recentHistory>>

\* get_principal: a member, or a guest whose session is there and not over.
Admitted == Members \cup {g \in Guests : guests[g] = "live"}

ViewRead(v) ==
    \E o \in Admitted, p \in Products :
        /\ clock < LastView
        /\ clock' = clock + 1
        /\ \E f \in IF RowsFor(o, p) = {} THEN {NoRecent} ELSE RowsFor(o, p) :
             Begin(v, [op |-> "view", owner |-> o, product |-> p, found |-> f,
                       at |-> clock', stale |-> FALSE])
        /\ UNCHANGED <<guests, recent, used, recentHistory>>

Later(a, b) == IF a > b THEN a ELSE b
Seen(o, p, at) == [last EXCEPT ![o][p] = Later(@, at)]

\* A view found its row: it counts for whoever owns the row by now.
ViewUpdate(v) ==
    /\ visits[v].op = "view" /\ visits[v].found \in Present
    /\ LET r == visits[v].found
           owners == {visits[v].owner, recent[r].owner}
       IN  /\ recent' = [recent EXCEPT ![r].at = visits[v].at]
           /\ last' = Seen(recent[r].owner, recent[r].product, visits[v].at)
           /\ NoteOverlap(v, owners)
           /\ EndOver(v, owners)
    /\ UNCHANGED <<guests, used, clock, claimers, contested>>

\* The foreign key asks for the guest session; a member is always there.
OwnerExists(o) == o \in Guests => guests[o] # "deleted"

ViewInsert(v) ==
    /\ visits[v].op = "view" /\ visits[v].found = NoRecent
    /\ LET o == visits[v].owner
           p == visits[v].product
       IN  /\ OwnerExists(o)
           /\ \E r \in Rows \ used :
                /\ recent' = [recent EXCEPT ![r] =
                                [owner |-> o, product |-> p, at |-> visits[v].at]]
                /\ used' = used \cup {r}
           /\ last' = Seen(o, p, visits[v].at)
    /\ NoteOverlap(v, Touches(visits[v]))
    /\ EndOver(v, Touches(visits[v]))
    /\ UNCHANGED <<guests, clock, claimers, contested>>

ClaimList(v) ==
    \E g \in Guests, m \in Members :
        /\ guests[g] = "live"
        /\ Begin(v, [op |-> "claim", guest |-> g, member |-> m,
                     listed |-> RowsOf(g), todo |-> RowsOf(g),
                     loaded |-> [r \in Rows |-> IF r \in RowsOf(g) THEN recent[r] ELSE NoRecent],
                     moved |-> {}, stamped |-> {}, dropped |-> {},
                     stale |-> FALSE, rival |-> FALSE])
        /\ UNCHANGED <<guests, recent, used, clock, recentHistory>>

\* Mutant: the claim looks for the product with any owner and finds the guest's own row.
MemberRowsOfAnyone(claim, product) ==
    {r \in Present \ claim.dropped : recent[r].product = product}

\* Rows of the member and product for the claim's own SELECT.
MemberRows(claim, product) ==
    {r \in Present \ claim.dropped :
        /\ recent[r].product = product
        /\ r \in claim.moved \/ recent[r].owner = claim.member}

Given(claim, r) ==
    [claim EXCEPT !.todo = @ \ {r}, !.moved = @ \cup {r}, !.loaded[r].owner = claim.member]

\* The session's values of e: what it loaded, or the row as it is now.
Loaded(claim, e) == IF claim.loaded[e] = NoRecent THEN recent[e] ELSE claim.loaded[e]

\* Mutant: the claim drops the guest's row without keeping the later time.
MergedKeepsOld(claim, r, e) ==
    [claim EXCEPT !.todo = @ \ {r}, !.dropped = @ \cup {r}, !.loaded[e] = Loaded(claim, e)]

\* existing may be row itself, when another claim has given it away meanwhile.
Merged(claim, r, e) ==
    LET row == claim.loaded[r]
        existing == Loaded(claim, e)
        newer == row.at > existing.at
    IN  [claim EXCEPT !.todo = @ \ {r}, !.dropped = @ \cup {r},
            !.loaded[e] = IF newer THEN [existing EXCEPT !.at = row.at] ELSE existing,
            !.stamped = IF newer THEN @ \cup {e} ELSE @]

\* The autoflush of earlier rows fails when one of them is gone.
Flushable(claim) == (claim.moved \cup claim.stamped) \ claim.dropped \subseteq Present

ClaimRow(v) ==
    /\ visits[v].op = "claim" /\ Flushable(visits[v])
    /\ \E r \in visits[v].todo :
         LET found == MemberRows(visits[v], visits[v].loaded[r].product) IN
         visits' \in IF found = {} THEN {[visits EXCEPT ![v] = Given(visits[v], r)]}
                     ELSE {[visits EXCEPT ![v] = Merged(visits[v], r, e)] : e \in found}
    /\ UNCHANGED <<guests, recent, used, clock, recentHistory>>

\* What the UPDATEs and DELETEs of a claim leave; deleting a row that is gone
\* only warns.
Claimed(claim) ==
    [r \in Rows |->
        IF r \in claim.dropped \/ r \notin Present THEN NoRecent
        ELSE [recent[r] EXCEPT !.owner = IF r \in claim.moved THEN claim.member ELSE @,
                               !.at = IF r \in claim.stamped THEN claim.loaded[r].at ELSE @]]

\* The listed rows of a product, and when the member has last seen it then.
Brought(claim, p) == {r \in claim.listed : claim.loaded[r].product = p}
TimesOf(claim, p) ==
    {last[claim.member][p]} \cup {recent[r].at : r \in Brought(claim, p) \cap Present}
Latest(times) == CHOOSE t \in times : \A other \in times : t >= other

SeenByClaim(claim) ==
    [o \in Owners |-> [p \in Products |->
        IF Brought(claim, p) = {} THEN last[o][p]
        ELSE IF o = claim.member THEN Latest(TimesOf(claim, p))
        ELSE IF o = claim.guest THEN 0 ELSE last[o][p]]]

ClaimCommit(v) ==
    /\ visits[v].op = "claim" /\ visits[v].todo = {} /\ Flushable(visits[v])
    /\ LET c == visits[v]
           owners == Touches(c) \cup
                       {recent[r].owner : r \in (c.listed \cup c.stamped) \cap Present}
       IN  /\ recent' = Claimed(c)
           /\ last' = SeenByClaim(c)
           /\ claimers' = [claimers EXCEPT ![c.guest] = @ \cup {c.member}]
           /\ contested' = IF c.rival THEN contested \cup {c.member} \cup claimers[c.guest]
                           ELSE contested
           /\ NoteOverlap(v, owners)
           /\ EndOver(v, owners)
    /\ UNCHANGED <<guests, used, clock>>

\* An error answer, a lost connection or a crash: nothing is committed.
VisitLost(v) ==
    /\ visits[v] # NoVisit
    /\ visits' = [visits EXCEPT ![v] = NoVisit]
    /\ UNCHANGED <<guests, recent, used, clock, recentHistory>>

\* cleanup_expired_guest_sessions; the foreign key cascades to the rows.
CleanGuests ==
    LET over == {g \in Guests : guests[g] = "expired"} IN
    /\ over # {}
    /\ guests' = [g \in Guests |-> IF g \in over THEN "deleted" ELSE guests[g]]
    /\ recent' = [r \in Rows |-> IF r \in Present /\ recent[r].owner \in over
                                 THEN NoRecent ELSE recent[r]]
    /\ last' = [o \in Owners |-> [p \in Products |-> IF o \in over THEN 0 ELSE last[o][p]]]
    /\ visits' = [v \in Viewers |-> IF Touches(visits[v]) \cap over = {} THEN visits[v]
                                   ELSE [visits[v] EXCEPT !.stale = TRUE]]
    /\ UNCHANGED <<used, clock, overlapped, claimers, contested>>

VisitStep(v) ==
    \/ ViewRead(v) \/ ViewUpdate(v) \/ ViewInsert(v)
    \/ ClaimList(v) \/ ClaimRow(v) \/ ClaimCommit(v) \/ VisitLost(v)

RecentNext ==
    (\E v \in Viewers : VisitStep(v)) \/ CreateGuest \/ GuestExpires \/ CleanGuests

RecentSpec == RecentInit /\ [][RecentNext]_recentVars

-----------------------------------------------------------------------------
(***************************************************************************)
(* Properties.                                                             *)
(***************************************************************************)

\* Owners whose requests never overlapped have exactly one row for each product
\* they saw, with the time of their last view, through any number of views,
\* claims and cleanings: the docstring of RecentProduct.
HistoryExact ==
    \A o \in Owners \ overlapped, p \in Products :
        IF last[o][p] = 0 THEN RowsFor(o, p) = {}
        ELSE \E r \in Rows : RowsFor(o, p) = {r} /\ recent[r].at = last[o][p]

\* Whatever overlaps, a committed view stays in the history of its owner or of
\* the member who claimed it, unless two claims of one guest were in progress
\* together: then the second deletes the row the first has kept.
HistoryKept ==
    \A o \in Owners, p \in Products :
        last[o][p] > 0 => RowsFor(o, p) # {} \/ o \in contested
=============================================================================
