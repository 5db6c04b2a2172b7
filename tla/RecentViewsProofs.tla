-------------------------- MODULE RecentViewsProofs --------------------------
(***************************************************************************)
(* Theorems about RecentViews for any members, guests, products, requests  *)
(* in progress and times.                                                  *)
(***************************************************************************)
EXTENDS RecentViews, Integers, WellFoundedInduction, TLAPS

\* Every proof may look into the sets of row states.
USE DEF GuestRow

\* Rows of a product a claim has dealt with, and the time it leaves in a row.
Done(c, p) == {r \in c.listed \ c.todo : c.loaded[r].product = p}
AtOf(c, e) == IF e \in c.stamped THEN c.loaded[e].at ELSE recent[e].at

\* A claim has dealt with every row once, and what it loaded is of its table.
ClaimShape(c) ==
    /\ c.listed = c.todo \cup c.moved \cup c.dropped
    /\ c.todo \cap c.moved = {} /\ c.todo \cap c.dropped = {} /\ c.moved \cap c.dropped = {}
    /\ \A r \in c.listed \cup c.stamped : c.loaded[r] # NoRecent
    /\ \A r \in Rows : c.loaded[r] # NoRecent =>
         /\ r \in used /\ c.loaded[r].at <= clock
         /\ r \in Present => c.loaded[r].product = recent[r].product

\* A row it listed is the guest's still, or a rival claim has given it away.
ClaimOwned(c) ==
    \A r \in c.listed \cap Present :
        \/ recent[r].owner = c.guest
        \/ c.rival /\ recent[r].owner \in claimers[c.guest]

\* For every row it drops the member has another one of the product.
ClaimKeeps(c) ==
    \A r \in c.dropped :
        \/ c.rival \/ c.member \in contested
        \/ \E e \in c.moved : c.loaded[e].product = c.loaded[r].product
        \/ RowsFor(c.member, c.loaded[r].product) # {}

\* What the member will have of a product: one row, with the latest of the
\* times of the rows dealt with and of the member's own last view, or nothing.
OneLeft(c, p) ==
    \/ MemberRows(c, p) = {} /\ Done(c, p) = {} /\ last[c.member][p] = 0
    \/ \E e \in Rows :
         /\ MemberRows(c, p) = {e}
         /\ \/ AtOf(c, e) = last[c.member][p]
            \/ \E r \in Done(c, p) : AtOf(c, e) = recent[r].at
         /\ last[c.member][p] <= AtOf(c, e)
         /\ \A r \in Done(c, p) : recent[r].at <= AtOf(c, e)

\* A claim that was not overtaken has read the tables as they are.
ClaimExact(c) ==
    ~c.stale =>
        /\ c.listed = RowsOf(c.guest)
        /\ c.todo \cap c.stamped = {}
        /\ \A r \in Rows : c.loaded[r] # NoRecent =>
             /\ r \in RowsOf(c.guest) \cup RowsOf(c.member)
             /\ c.loaded[r].at = AtOf(c, r)
        /\ c.member \notin overlapped => \A p \in Products : OneLeft(c, p)

ViewExact(c) ==
    ~c.stale =>
        /\ last[c.owner][c.product] <= c.at
        /\ c.found = NoRecent => RowsFor(c.owner, c.product) = {}
        /\ c.found # NoRecent => c.found \in RowsFor(c.owner, c.product)

VisitTrue(c) ==
    /\ c.op = "view" => c.at <= clock /\ ViewExact(c)
    /\ c.op = "claim" => ClaimShape(c) /\ ClaimOwned(c) /\ ClaimKeeps(c) /\ ClaimExact(c)

\* Two claims that listed one row are claims of one guest.
GuestsApart ==
    \A v, w \in Viewers :
        /\ visits[v].op = "claim" /\ visits[w].op = "claim"
        /\ visits[v].listed \cap visits[w].listed # {}
        => visits[v].guest = visits[w].guest

TimesTrue ==
    /\ Present \subseteq used
    /\ \A r \in Present : recent[r].at <= clock
    /\ \A o \in Owners, p \in Products : last[o][p] <= clock

RecentInv ==
    /\ RecentTypeOK
    /\ TimesTrue
    /\ \A v \in Viewers : VisitTrue(visits[v])
    /\ GuestsApart
    /\ HistoryKept
    /\ HistoryExact

-----------------------------------------------------------------------------
(***************************************************************************)
(* The shape of rows and requests.                                         *)
(***************************************************************************)
LEMMA VisitShape ==
  ASSUME NEW c \in Visit
  PROVE  /\ c.op = "view" <=> c \in ViewVisit
         /\ c.op = "claim" <=> c \in ClaimVisit
         /\ c = NoVisit <=> c.op = "idle"
         /\ c.op \in {"idle", "view", "claim"}
  BY DEF Visit, NoVisit, ViewVisit, ClaimVisit

LEMMA RowShape ==
  ASSUME RecentTypeOK
  PROVE  /\ \A r \in Present : /\ r \in Rows /\ recent[r] \in RecentRow
                               /\ recent[r].owner \in Owners
                               /\ recent[r].product \in Products
                               /\ recent[r].at \in 1..LastView
         /\ \A row \in RecentRow : row # NoRecent
         /\ Members \subseteq Owners /\ Guests \subseteq Owners
<1>1. \A row \in RecentRow : /\ row.owner \in Owners /\ row.product \in Products
                             /\ row.at \in 1..LastView
  BY DEF RecentRow
<1>2. \A row \in RecentRow : row # NoRecent
  BY RecentAssumption DEF RecentRow, Owners
<1>3. \A r \in Present : r \in Rows /\ recent[r] \in RecentRow
  BY DEF RecentTypeOK, Present
<1>. QED  BY <1>1, <1>2, <1>3 DEF Owners

LEMMA TouchesIs ==
  ASSUME NEW c \in Visit
  PROVE  /\ c.op = "view" => Touches(c) = {c.owner}
         /\ c.op = "claim" => Touches(c) = {c.guest, c.member}
         /\ c.op = "idle" => Touches(c) = {}
  BY VisitShape DEF Touches

\* A request that is overtaken differs in being stale, and a rival.
LEMMA StaleView ==
  ASSUME NEW c \in ViewVisit
  PROVE  LET new == [c EXCEPT !.stale = TRUE] IN
         /\ new \in ViewVisit /\ new.op = "view" /\ new.stale
         /\ new.owner = c.owner /\ new.product = c.product
         /\ new.found = c.found /\ new.at = c.at
  BY DEF ViewVisit

SameClaim(new, c) ==
    /\ new.op = "claim"
    /\ new.guest = c.guest /\ new.member = c.member /\ new.listed = c.listed
    /\ new.todo = c.todo /\ new.loaded = c.loaded
    /\ new.moved = c.moved /\ new.stamped = c.stamped /\ new.dropped = c.dropped
    /\ c.rival => new.rival

LEMMA StaleClaim ==
  ASSUME NEW c \in ClaimVisit
  PROVE  /\ [c EXCEPT !.stale = TRUE] \in ClaimVisit
         /\ [c EXCEPT !.stale = TRUE].stale
         /\ SameClaim([c EXCEPT !.stale = TRUE], c)
         /\ [c EXCEPT !.stale = TRUE, !.rival = TRUE] \in ClaimVisit
         /\ [c EXCEPT !.stale = TRUE, !.rival = TRUE].stale
         /\ [c EXCEPT !.stale = TRUE, !.rival = TRUE].rival
         /\ SameClaim([c EXCEPT !.stale = TRUE, !.rival = TRUE], c)
  BY DEF ClaimVisit, SameClaim

\* The latest of some times is one of them, and the only one that is.
LEMMA LatestIs ==
  ASSUME NEW n \in Nat, NEW times \in SUBSET (0..n), times # {}
  PROVE  /\ Latest(times) \in times
         /\ \A t \in times : (\A o \in times : o <= t) => Latest(times) = t
<1> DEFINE R == OpToRel(<, Nat)
           T == {n - t : t \in times}
<1>1. \A t \in times : t \in Nat /\ n - t \in Nat
  OBVIOUS
<1>2. T \subseteq Nat /\ T # {}
  BY <1>1
<1>3. PICK x \in T : \A y \in T : <<y, x>> \notin R
  <2>1. IsWellFoundedOn(R, Nat)
    BY NatLessThanWellFounded
  <2> HIDE DEF T, R
  <2>. QED  BY <1>2, <2>1, WFMin
<1>4. PICK t \in times : x = n - t
  OBVIOUS
<1>5. ASSUME NEW o \in times
      PROVE  t >= o
  <2>1. n - o \in T /\ n - o \in Nat /\ x \in Nat
    BY <1>2
  <2>2. <<n - o, x>> \notin R
    BY <1>3, <2>1
  <2>3. ~(n - o < x)
    BY <2>1, <2>2 DEF OpToRel
  <2>. QED  BY <1>4, <2>3
<1>6. PICK l : l = Latest(times)
  OBVIOUS
<1>7. l \in times /\ \A o \in times : l >= o
  BY <1>5, <1>6 DEF Latest
<1> HIDE DEF T
<1>8. ASSUME NEW o \in times, \A k \in times : k <= o
      PROVE  l = o
  <2>1. l <= o /\ l >= o /\ l \in Nat /\ o \in Nat
    BY <1>1, <1>7, <1>8
  <2>. QED  BY <2>1
<1>. QED  BY <1>6, <1>7, <1>8

-----------------------------------------------------------------------------
(***************************************************************************)
(* What a step leaves of the tables to requests in progress: nothing of    *)
(* the owners it does not work on changes.                                 *)
(***************************************************************************)
TablesKeep(owners) ==
    /\ used \subseteq used' /\ clock <= clock' /\ clock' \in 0..LastView
    /\ contested \subseteq contested' /\ overlapped \subseteq overlapped'
    /\ \A g \in Guests : claimers[g] \subseteq claimers'[g]
    /\ \A r \in used : r \in Present' => r \in Present /\ recent'[r].product = recent[r].product
    /\ \A m \in Members, p \in Products :
         RowsFor(m, p) # {} => RowsFor(m, p)' # {} \/ m \in contested'
    /\ \A o \in Owners \ owners :
         /\ RowsOf(o)' = RowsOf(o)
         /\ \A r \in RowsOf(o) : recent'[r] = recent[r]
         /\ last'[o] = last[o]

LEMMA KeptView ==
  ASSUME RecentTypeOK, NEW owners, TablesKeep(owners),
         NEW c \in ViewVisit, VisitTrue(c), NEW new \in ViewVisit,
         \/ new = c /\ c.owner \notin owners
         \/ new = [c EXCEPT !.stale = TRUE]
  PROVE  VisitTrue(new)'
<1>1. /\ c.op = "view" /\ c.at \in Nat /\ c.owner \in Owners /\ c.product \in Products
      /\ clock \in Nat /\ clock' \in Nat /\ clock <= clock'
  BY DEF ViewVisit, RecentTypeOK, TablesKeep
<1>2. c.at <= clock'
  BY <1>1 DEF VisitTrue
<1>3. CASE new = c /\ c.owner \notin owners
  <2>1. /\ RowsOf(c.owner)' = RowsOf(c.owner)
        /\ \A r \in RowsOf(c.owner) : recent'[r] = recent[r]
        /\ last'[c.owner] = last[c.owner]
    BY <1>1, <1>3 DEF TablesKeep
  <2>2. RowsFor(c.owner, c.product)' = RowsFor(c.owner, c.product)
    BY <2>1 DEF RowsFor
  <2>3. ViewExact(c)'
    BY <1>1, <2>1, <2>2 DEF VisitTrue, ViewExact
  <2>. QED  BY <1>1, <1>2, <1>3, <2>3 DEF VisitTrue
<1>4. CASE new = [c EXCEPT !.stale = TRUE]
  BY <1>2, <1>4, StaleView DEF VisitTrue, ViewExact
<1>. QED  BY <1>3, <1>4

\* A row a claim listed has its owner still, or a rival has given it away.
OwnersKeep(c, new) ==
    \A r \in c.listed \cap Present' :
        \/ recent'[r].owner = recent[r].owner
        \/ new.rival /\ recent'[r].owner \in claimers'[c.guest]

\* The rows of its guest and its member stay as they are.
LEMMA KeptExact ==
  ASSUME RecentTypeOK, NEW owners, TablesKeep(owners),
         NEW c \in ClaimVisit, VisitTrue(c), ~c.stale,
         c.guest \notin owners, c.member \notin owners
  PROVE  ClaimExact(c)'
<1> DEFINE g == c.guest
           m == c.member
<1>1. c.op = "claim" /\ g \in Owners /\ m \in Owners /\ ClaimExact(c) /\ ClaimShape(c)
  BY DEF ClaimVisit, VisitTrue, Owners
<1>2. /\ RowsOf(g)' = RowsOf(g) /\ RowsOf(m)' = RowsOf(m)
      /\ \A r \in RowsOf(g) \cup RowsOf(m) : recent'[r] = recent[r]
      /\ last'[m] = last[m]
  BY <1>1 DEF TablesKeep
<1>3. c.listed = RowsOf(g) /\ c.moved \subseteq RowsOf(g)
  BY <1>1 DEF ClaimExact, ClaimShape
<1>4. \A r \in Rows : c.loaded[r] # NoRecent =>
        /\ r \in RowsOf(g) \cup RowsOf(m)
        /\ c.loaded[r].at = AtOf(c, r)
        /\ AtOf(c, r)' = AtOf(c, r)
  BY <1>1, <1>2 DEF ClaimExact, AtOf
<1>5. \A p \in Products : /\ MemberRows(c, p)' = MemberRows(c, p)
                          /\ MemberRows(c, p) \subseteq RowsOf(g) \cup RowsOf(m)
  <2> SUFFICES ASSUME NEW p \in Products
               PROVE  /\ MemberRows(c, p)' = MemberRows(c, p)
                      /\ MemberRows(c, p) \subseteq RowsOf(g) \cup RowsOf(m)
    OBVIOUS
  <2>1. MemberRows(c, p) = {r \in (RowsOf(g) \cup RowsOf(m)) \ c.dropped :
                              /\ recent[r].product = p
                              /\ r \in c.moved \/ recent[r].owner = m}
    BY <1>3 DEF MemberRows, RowsOf
  <2>2. MemberRows(c, p)' = {r \in (RowsOf(g) \cup RowsOf(m))' \ c.dropped :
                               /\ recent'[r].product = p
                               /\ r \in c.moved \/ recent'[r].owner = m}
    BY <1>2, <1>3 DEF MemberRows, RowsOf
  <2>. QED  BY <1>2, <2>1, <2>2
<1>6. ASSUME m \notin overlapped', NEW p \in Products
      PROVE  OneLeft(c, p)'
  <2>1. OneLeft(c, p)
    BY <1>1, <1>6 DEF ClaimExact, TablesKeep
  <2>2. Done(c, p)' = Done(c, p) /\ \A r \in Done(c, p) : recent'[r] = recent[r]
    BY <1>2, <1>3 DEF Done
  <2>3. \A e \in MemberRows(c, p) : AtOf(c, e)' = AtOf(c, e)
    BY <1>2, <1>5 DEF AtOf
  <2>. QED  BY <1>2, <1>5, <2>1, <2>2, <2>3 DEF OneLeft
<1>. QED  BY <1>1, <1>2, <1>3, <1>4, <1>6 DEF ClaimExact

LEMMA KeptClaim ==
  ASSUME RecentTypeOK, NEW owners, TablesKeep(owners),
         NEW c \in ClaimVisit, VisitTrue(c), NEW new \in ClaimVisit, OwnersKeep(c, new),
         SameClaim(new, c),
         (new = c /\ c.guest \notin owners /\ c.member \notin owners) \/ new.stale
  PROVE  VisitTrue(new)'
<1>1. /\ c.op = "claim" /\ c.guest \in Guests /\ c.member \in Members
      /\ \A r \in Rows : c.loaded[r] \in RecentRow \cup {NoRecent}
      /\ c.listed \subseteq Rows /\ c.dropped \subseteq Rows
      /\ clock \in Nat /\ clock' \in Nat /\ clock <= clock'
  BY DEF ClaimVisit, RecentTypeOK, TablesKeep
<1>2. ClaimShape(c) /\ ClaimOwned(c) /\ ClaimKeeps(c) /\ ClaimExact(c)
  BY <1>1 DEF VisitTrue
<1>3. \A r \in Rows : c.loaded[r] # NoRecent =>
        /\ r \in used' /\ c.loaded[r].at <= clock'
        /\ r \in Present' => c.loaded[r].product = recent'[r].product
  <2> SUFFICES ASSUME NEW r \in Rows, c.loaded[r] # NoRecent
               PROVE  /\ r \in used' /\ c.loaded[r].at <= clock'
                      /\ r \in Present' => c.loaded[r].product = recent'[r].product
    OBVIOUS
  <2>1. c.loaded[r].at \in Nat
    BY <1>1 DEF RecentRow
  <2>. QED  BY <1>1, <1>2, <2>1 DEF ClaimShape, TablesKeep
<1>4. ClaimShape(new)'
  BY <1>2, <1>3 DEF ClaimShape, SameClaim
<1>5. ClaimOwned(new)'
  <2> SUFFICES ASSUME NEW r \in c.listed, r \in Present'
               PROVE  \/ recent'[r].owner = c.guest
                      \/ new.rival /\ recent'[r].owner \in claimers'[c.guest]
    BY DEF ClaimOwned, SameClaim
  <2>1. r \in Present
    BY <1>1, <1>2 DEF ClaimShape, TablesKeep
  <2>2. /\ c.rival => new.rival
        /\ claimers[c.guest] \subseteq claimers'[c.guest]
    BY <1>1 DEF SameClaim, TablesKeep
  <2>. QED  BY <1>2, <2>1, <2>2 DEF ClaimOwned, OwnersKeep
<1>6. ClaimKeeps(new)'
  <2> SUFFICES ASSUME NEW r \in c.dropped
               PROVE  \/ new.rival \/ c.member \in contested'
                      \/ \E e \in c.moved : c.loaded[e].product = c.loaded[r].product
                      \/ RowsFor(c.member, c.loaded[r].product)' # {}
    BY DEF ClaimKeeps, SameClaim, RowsFor, RowsOf, Present
  <2>1. c.loaded[r] # NoRecent /\ c.loaded[r].product \in Products
    BY <1>1, <1>2 DEF ClaimShape, RecentRow
  <2>2. RowsFor(c.member, c.loaded[r].product) # {} =>
          RowsFor(c.member, c.loaded[r].product)' # {} \/ c.member \in contested'
    BY <1>1, <2>1 DEF TablesKeep
  <2>. QED  BY <1>2, <2>2 DEF ClaimKeeps, SameClaim, TablesKeep
<1>7. ClaimExact(new)'
  <2>1. CASE new.stale
    BY <2>1 DEF ClaimExact
  <2>2. CASE ~new.stale
    BY <1>2, <2>2, KeptExact
  <2>. QED  BY <2>1, <2>2
<1>. QED  BY <1>4, <1>5, <1>6, <1>7 DEF VisitTrue, SameClaim

\* What a step over owners may do to another request.
Overtaken(w, owners) ==
    LET c == visits[w] IN
    \/ Touches(c) \cap owners = {} /\ visits'[w] = c
    \/ c # NoVisit /\ visits'[w] = [c EXCEPT !.stale = TRUE]
    \/ c.op = "claim" /\ visits'[w] = [c EXCEPT !.stale = TRUE, !.rival = TRUE]

LEMMA KeptVisit ==
  ASSUME RecentInv, NEW owners, TablesKeep(owners), NEW w \in Viewers, Overtaken(w, owners),
         visits[w].op = "claim" => OwnersKeep(visits[w], visits'[w])
  PROVE  /\ visits'[w] \in Visit /\ VisitTrue(visits[w])'
         /\ visits'[w].op = visits[w].op
         /\ visits[w].op = "claim" => SameClaim(visits'[w], visits[w])
<1>1. PICK c, new : c = visits[w] /\ new = visits'[w]
  OBVIOUS
<1>2. c \in Visit /\ VisitTrue(c) /\ RecentTypeOK
  BY <1>1 DEF RecentInv, RecentTypeOK
<1>3. \/ Touches(c) \cap owners = {} /\ new = c
      \/ c # NoVisit /\ new = [c EXCEPT !.stale = TRUE]
      \/ c.op = "claim" /\ new = [c EXCEPT !.stale = TRUE, !.rival = TRUE]
  BY <1>1 DEF Overtaken
<1>4. CASE c = NoVisit
  <2>1. new = NoVisit
    BY <1>2, <1>3, <1>4, VisitShape
  <2>. QED  BY <1>1, <1>4, <2>1 DEF Visit, VisitTrue, NoVisit
<1>5. CASE c \in ViewVisit
  <2>1. c.op = "view" /\ Touches(c) = {c.owner}
    BY <1>2, <1>5, VisitShape, TouchesIs
  <2>2. (new = c /\ c.owner \notin owners) \/ new = [c EXCEPT !.stale = TRUE]
    BY <1>3, <2>1
  <2>3. new \in ViewVisit /\ new.op = "view"
    BY <1>5, <2>1, <2>2, StaleView
  <2>4. VisitTrue(new)'
    BY <1>2, <1>5, <2>2, <2>3, KeptView
  <2>. QED  BY <1>1, <2>1, <2>3, <2>4 DEF Visit, VisitTrue
<1>6. CASE c \in ClaimVisit
  <2>1. c.op = "claim" /\ Touches(c) = {c.guest, c.member}
    BY <1>2, <1>6, VisitShape, TouchesIs
  <2>2. /\ new \in ClaimVisit /\ SameClaim(new, c)
        /\ (new = c /\ c.guest \notin owners /\ c.member \notin owners) \/ new.stale
    <3>1. CASE Touches(c) \cap owners = {} /\ new = c
      BY <1>6, <2>1, <3>1 DEF SameClaim
    <3>2. CASE new = [c EXCEPT !.stale = TRUE]
      BY <1>6, <3>2, StaleClaim
    <3>3. CASE new = [c EXCEPT !.stale = TRUE, !.rival = TRUE]
      BY <1>6, <3>3, StaleClaim
    <3>. QED  BY <1>3, <3>1, <3>2, <3>3
  <2>3. OwnersKeep(c, new)
    BY <1>1, <2>1 DEF OwnersKeep
  <2>4. VisitTrue(new)'
    BY <1>2, <1>6, <2>2, <2>3, KeptClaim
  <2>. QED  BY <1>1, <2>1, <2>2, <2>4 DEF Visit, VisitTrue, SameClaim
<1>. QED  BY <1>2, <1>4, <1>5, <1>6 DEF Visit

-----------------------------------------------------------------------------
(***************************************************************************)
(* The steps that change no table.                                         *)
(***************************************************************************)
LEMMA LocalStep ==
  ASSUME RecentInv, UNCHANGED <<recent, used, recentHistory>>,
         guests' \in [Guests -> GuestRow],
         clock <= clock', clock' \in 0..LastView,
         visits' \in [Viewers -> Visit], GuestsApart',
         \A w \in Viewers : visits'[w] = visits[w] \/ VisitTrue(visits[w])'
  PROVE  RecentInv'
<1>1. RecentTypeOK'
  BY DEF RecentInv, RecentTypeOK, recentHistory
<1>2. TimesTrue'
  <2>1. clock \in Nat /\ clock' \in Nat
    BY DEF RecentInv, RecentTypeOK
  <2>2. /\ \A r \in Present : recent[r].at \in Nat
        /\ \A o \in Owners, p \in Products : last[o][p] \in Nat
    BY RowShape DEF RecentInv, RecentTypeOK
  <2>. QED  BY <2>1, <2>2 DEF RecentInv, TimesTrue, Present, recentHistory
<1>3. TablesKeep({})
  BY DEF TablesKeep, recentHistory, RowsFor, RowsOf, Present
<1>4. ASSUME NEW w \in Viewers
      PROVE  VisitTrue(visits[w])'
  <2>1. CASE visits'[w] = visits[w]
    <3>1. Overtaken(w, {}) /\ OwnersKeep(visits[w], visits'[w])
      BY <2>1 DEF Overtaken, OwnersKeep
    <3>. QED  BY <1>3, <3>1, KeptVisit
  <2>. QED  BY <2>1
<1>5. HistoryKept' /\ HistoryExact'
  BY DEF RecentInv, HistoryKept, HistoryExact, RowsFor, RowsOf, Present, recentHistory
<1>. QED  BY <1>1, <1>2, <1>4, <1>5 DEF RecentInv

\* A step of one request that lists no row.
LEMMA OneVisit ==
  ASSUME RecentInv, UNCHANGED <<guests, recent, used, recentHistory>>,
         clock <= clock', clock' \in 0..LastView,
         NEW v \in Viewers, NEW new \in Visit, visits' = [visits EXCEPT ![v] = new],
         VisitTrue(new)',
         \A w \in Viewers \ {v} :
            visits[w].op = "claim" /\ new.op = "claim" /\ visits[w].listed \cap new.listed # {}
              => visits[w].guest = new.guest
  PROVE  RecentInv'
<1>1. /\ visits' \in [Viewers -> Visit]
      /\ \A w \in Viewers : visits'[w] = IF w = v THEN new ELSE visits[w]
  BY DEF RecentInv, RecentTypeOK
<1>2. GuestsApart'
  BY <1>1 DEF RecentInv, GuestsApart
<1>3. \A w \in Viewers : visits'[w] = visits[w] \/ VisitTrue(visits[w])'
  BY <1>1 DEF VisitTrue
<1>. QED  BY <1>1, <1>2, <1>3, LocalStep DEF RecentInv, RecentTypeOK

LEMMA GuestStepInv ==
  ASSUME RecentInv, CreateGuest \/ GuestExpires
  PROVE  RecentInv'
<1>1. /\ guests' \in [Guests -> GuestRow]
      /\ UNCHANGED <<recent, used, clock, visits, recentHistory>>
  BY DEF CreateGuest, GuestExpires, RecentInv, RecentTypeOK
<1>2. clock <= clock' /\ clock' \in 0..LastView
  BY <1>1 DEF RecentInv, RecentTypeOK
<1>3. GuestsApart' /\ visits' \in [Viewers -> Visit]
  BY <1>1 DEF RecentInv, RecentTypeOK, GuestsApart
<1>. QED  BY <1>1, <1>2, <1>3, LocalStep

LEMMA VisitLostInv ==
  ASSUME RecentInv, NEW v \in Viewers, VisitLost(v)
  PROVE  RecentInv'
<1>1. /\ visits' = [visits EXCEPT ![v] = NoVisit]
      /\ UNCHANGED <<guests, recent, used, clock, recentHistory>>
  BY DEF VisitLost
<1>2. clock <= clock' /\ clock' \in 0..LastView
  BY <1>1 DEF RecentInv, RecentTypeOK
<1>3. NoVisit \in Visit /\ NoVisit.op = "idle" /\ VisitTrue(NoVisit)'
  BY DEF Visit, NoVisit, VisitTrue
<1>. QED  BY <1>1, <1>2, <1>3, OneVisit

LEMMA ViewReadInv ==
  ASSUME RecentInv, NEW v \in Viewers, ViewRead(v)
  PROVE  RecentInv'
<1>1. PICK o \in Admitted, p \in Products :
        /\ clock < LastView /\ clock' = clock + 1
        /\ \E f \in IF RowsFor(o, p) = {} THEN {NoRecent} ELSE RowsFor(o, p) :
             Begin(v, [op |-> "view", owner |-> o, product |-> p, found |-> f,
                       at |-> clock', stale |-> FALSE])
        /\ UNCHANGED <<guests, recent, used, recentHistory>>
  BY DEF ViewRead
<1>2. PICK f \in IF RowsFor(o, p) = {} THEN {NoRecent} ELSE RowsFor(o, p) :
        Begin(v, [op |-> "view", owner |-> o, product |-> p, found |-> f,
                  at |-> clock', stale |-> FALSE])
  BY <1>1
<1>3. PICK t : t = clock + 1
  OBVIOUS
<1> DEFINE new == [op |-> "view", owner |-> o, product |-> p, found |-> f,
                   at |-> t, stale |-> FALSE]
<1>4. o \in Owners /\ LastView \in Nat /\ clock \in 0..LastView
  BY RecentAssumption DEF Admitted, Owners, RecentInv, RecentTypeOK
<1>5. t \in 1..LastView /\ clock <= t /\ clock' = t
  BY <1>1, <1>3, <1>4
<1>6. /\ f \in Rows \cup {NoRecent}
      /\ f = NoRecent => RowsFor(o, p) = {}
      /\ f # NoRecent => f \in RowsFor(o, p)
  BY RecentAssumption DEF RowsFor, RowsOf, Present
<1>7. new \in Visit
  BY <1>4, <1>5, <1>6 DEF Visit, ViewVisit
<1>8. VisitTrue(new)'
  <2>1. last[o][p] <= t
    <3>1. last[o][p] <= clock /\ last[o][p] \in Nat
      BY <1>4 DEF RecentInv, TimesTrue, RecentTypeOK
    <3>. QED  BY <1>3, <1>4, <3>1
  <2>2. RowsFor(o, p)' = RowsFor(o, p) /\ last' = last
    BY <1>1 DEF RowsFor, RowsOf, Present, recentHistory
  <2>. QED  BY <1>5, <1>6, <2>1, <2>2 DEF VisitTrue, ViewExact
<1>9. visits' = [visits EXCEPT ![v] = new] /\ new.op # "claim"
  BY <1>2, <1>5 DEF Begin
<1>10. clock <= clock' /\ clock' \in 0..LastView
  BY <1>4, <1>5
<1> HIDE DEF new
<1>. QED  BY <1>1, <1>7, <1>8, <1>9, <1>10, OneVisit

\* Only claims of the guest have listed a row the guest still has.
LEMMA ListedByGuest ==
  ASSUME RecentInv, NEW w \in Viewers, visits[w].op = "claim",
         NEW g \in Guests, NEW r \in visits[w].listed \cap RowsOf(g)
  PROVE  visits[w].guest = g
<1>1. visits[w] \in ClaimVisit /\ ClaimOwned(visits[w])
  BY VisitShape DEF RecentInv, RecentTypeOK, VisitTrue
<1>2. recent[r].owner = g /\ r \in Present
  BY DEF RowsOf
<1>3. claimers[visits[w].guest] \subseteq Members
  BY <1>1 DEF RecentInv, RecentTypeOK, ClaimVisit
<1>. QED  BY <1>1, <1>2, <1>3, RecentAssumption DEF ClaimOwned

LEMMA ClaimListInv ==
  ASSUME RecentInv, NEW v \in Viewers, ClaimList(v)
  PROVE  RecentInv'
<1>1. PICK g \in Guests, m \in Members :
        /\ Begin(v, [op |-> "claim", guest |-> g, member |-> m,
                     listed |-> RowsOf(g), todo |-> RowsOf(g),
                     loaded |-> [r \in Rows |-> IF r \in RowsOf(g) THEN recent[r] ELSE NoRecent],
                     moved |-> {}, stamped |-> {}, dropped |-> {},
                     stale |-> FALSE, rival |-> FALSE])
        /\ UNCHANGED <<guests, recent, used, clock, recentHistory>>
  BY DEF ClaimList
<1>2. PICK rowsOf, loaded :
        /\ rowsOf = RowsOf(g)
        /\ loaded = [r \in Rows |-> IF r \in RowsOf(g) THEN recent[r] ELSE NoRecent]
  OBVIOUS
<1> DEFINE new == [op |-> "claim", guest |-> g, member |-> m, listed |-> rowsOf, todo |-> rowsOf,
                   loaded |-> loaded, moved |-> {}, stamped |-> {}, dropped |-> {},
                   stale |-> FALSE, rival |-> FALSE]
<1>3. visits' = [visits EXCEPT ![v] = new]
  BY <1>1, <1>2 DEF Begin
<1>4. rowsOf \subseteq Present /\ \A r \in rowsOf : recent[r].owner = g
  BY <1>2 DEF RowsOf
<1>5. /\ \A r \in Rows : loaded[r] = IF r \in rowsOf THEN recent[r] ELSE NoRecent
      /\ \A r \in rowsOf : r \in Rows /\ loaded[r] = recent[r] /\ loaded[r] # NoRecent
      /\ loaded \in [Rows -> RecentRow \cup {NoRecent}]
  BY <1>2, <1>4, RowShape DEF RecentInv, Present
<1>6. new \in ClaimVisit
  BY <1>5 DEF ClaimVisit
<1>7. /\ new.op = "claim" /\ new.guest = g /\ new.member = m
      /\ new.listed = rowsOf /\ new.todo = rowsOf /\ new.loaded = loaded
      /\ new.moved = {} /\ new.stamped = {} /\ new.dropped = {} /\ ~new.stale
  OBVIOUS
<1>8. m \in Owners
  BY DEF Owners
<1> HIDE DEF new
<1>9. ClaimShape(new) /\ ClaimOwned(new) /\ ClaimKeeps(new)
  BY <1>4, <1>5, <1>7 DEF ClaimShape, ClaimOwned, ClaimKeeps, RecentInv, TimesTrue
<1>10. ASSUME m \notin overlapped, NEW p \in Products
       PROVE  OneLeft(new, p)
  <2>1. MemberRows(new, p) = RowsFor(m, p) /\ Done(new, p) = {}
    BY <1>7 DEF MemberRows, RowsFor, RowsOf, Done
  <2>2. IF last[m][p] = 0 THEN RowsFor(m, p) = {}
        ELSE \E r \in Rows : RowsFor(m, p) = {r} /\ recent[r].at = last[m][p]
    BY <1>8, <1>10 DEF RecentInv, HistoryExact
  <2>3. last[m][p] \in Nat
    BY <1>8 DEF RecentInv, RecentTypeOK
  <2>4. CASE last[m][p] = 0
    BY <1>7, <2>1, <2>2, <2>4 DEF OneLeft
  <2>5. CASE last[m][p] # 0
    <3>1. PICK e \in Rows : RowsFor(m, p) = {e} /\ recent[e].at = last[m][p]
      BY <2>2, <2>5
    <3>2. AtOf(new, e) = last[m][p]
      BY <1>7, <3>1 DEF AtOf
    <3>. QED  BY <1>7, <2>1, <2>3, <3>1, <3>2 DEF OneLeft
  <2>. QED  BY <2>4, <2>5
<1>11. ClaimExact(new)
  <2>1. \A r \in Rows : loaded[r] # NoRecent => r \in RowsOf(g) /\ loaded[r].at = AtOf(new, r)
    BY <1>2, <1>5, <1>7 DEF AtOf
  <2>. QED  BY <1>2, <1>7, <1>10, <2>1 DEF ClaimExact
<1>12. VisitTrue(new)'
  <2>1. VisitTrue(new)
    BY <1>7, <1>9, <1>11 DEF VisitTrue
  <2>. QED
    BY <1>1, <2>1 DEF VisitTrue, ViewExact, ClaimShape, ClaimOwned, ClaimKeeps, ClaimExact,
       OneLeft, AtOf, Done, MemberRows, RowsFor, RowsOf, Present, recentHistory
<1>13. \A w \in Viewers \ {v} :
         visits[w].op = "claim" /\ visits[w].listed \cap new.listed # {}
           => visits[w].guest = new.guest
  BY <1>2, <1>7, ListedByGuest
<1>14. clock <= clock' /\ clock' \in 0..LastView
  BY <1>1 DEF RecentInv, RecentTypeOK
<1>. QED  BY <1>1, <1>3, <1>6, <1>12, <1>13, <1>14, OneVisit DEF Visit

\* What giving a row to the member changes in a claim.
LEMMA GivenIs ==
  ASSUME RecentTypeOK, NEW c \in ClaimVisit, NEW r \in Rows, c.loaded[r] # NoRecent
  PROVE  /\ Given(c, r) \in ClaimVisit
         /\ Given(c, r).op = "claim"
         /\ Given(c, r).guest = c.guest /\ Given(c, r).member = c.member
         /\ Given(c, r).listed = c.listed /\ Given(c, r).todo = c.todo \ {r}
         /\ Given(c, r).moved = c.moved \cup {r}
         /\ Given(c, r).stamped = c.stamped /\ Given(c, r).dropped = c.dropped
         /\ Given(c, r).stale = c.stale /\ Given(c, r).rival = c.rival
         /\ \A q \in Rows :
              /\ Given(c, r).loaded[q] = NoRecent <=> c.loaded[q] = NoRecent
              /\ c.loaded[q] # NoRecent =>
                   /\ Given(c, r).loaded[q].product = c.loaded[q].product
                   /\ Given(c, r).loaded[q].at = c.loaded[q].at
<1> DEFINE x == [c.loaded[r] EXCEPT !.owner = c.member]
           loaded == [c.loaded EXCEPT ![r] = x]
<1>1. c.loaded[r] \in RecentRow /\ c.member \in Owners /\ c.loaded \in [Rows -> RecentRow \cup {NoRecent}]
  BY DEF ClaimVisit, Owners
<1>2. x \in RecentRow /\ x.product = c.loaded[r].product /\ x.at = c.loaded[r].at
  BY <1>1 DEF RecentRow
<1>3. x # NoRecent
  BY <1>2, RowShape
<1>4. Given(c, r) = [c EXCEPT !.todo = c.todo \ {r}, !.moved = c.moved \cup {r}, !.loaded = loaded]
  BY DEF Given, ClaimVisit
<1> HIDE DEF x
<1>5. /\ loaded \in [Rows -> RecentRow \cup {NoRecent}]
      /\ \A q \in Rows : loaded[q] = IF q = r THEN x ELSE c.loaded[q]
  BY <1>1, <1>2
<1> HIDE DEF loaded
<1>6. PICK new, todo, moved : /\ new = Given(c, r) /\ todo = c.todo \ {r} /\ moved = c.moved \cup {r}
  OBVIOUS
<1>7. new = [c EXCEPT !.todo = todo, !.moved = moved, !.loaded = loaded]
  BY <1>4, <1>6
<1>8. todo \subseteq Rows /\ moved \subseteq Rows
  BY <1>6 DEF ClaimVisit
<1>9. /\ new \in ClaimVisit /\ new.op = "claim" /\ new.loaded = loaded
      /\ new.guest = c.guest /\ new.member = c.member
      /\ new.listed = c.listed /\ new.todo = todo /\ new.moved = moved
      /\ new.stamped = c.stamped /\ new.dropped = c.dropped
      /\ new.stale = c.stale /\ new.rival = c.rival
  BY <1>5, <1>7, <1>8 DEF ClaimVisit
<1>. QED  BY <1>2, <1>3, <1>5, <1>6, <1>9

\* The member has no row of the product yet: the guest's becomes that row.
LEMMA GivenTrue ==
  ASSUME RecentInv, NEW c \in ClaimVisit, VisitTrue(c), NEW r \in c.todo,
         MemberRows(c, c.loaded[r].product) = {}
  PROVE  Given(c, r) \in ClaimVisit /\ VisitTrue(Given(c, r))
<1>1. /\ ClaimShape(c) /\ ClaimOwned(c) /\ ClaimKeeps(c) /\ ClaimExact(c)
      /\ r \in Rows /\ c.listed \subseteq Rows /\ c.moved \subseteq Rows /\ c.dropped \subseteq Rows
      /\ c.stamped \subseteq Rows /\ c.op = "claim"
  BY DEF VisitTrue, ClaimVisit
<1>2. /\ r \in c.listed /\ r \notin c.moved /\ r \notin c.dropped
      /\ c.loaded[r] # NoRecent
  BY <1>1 DEF ClaimShape
<1>3. PICK new, p : new = Given(c, r) /\ p = c.loaded[r].product
  OBVIOUS
<1>4. /\ new \in ClaimVisit /\ new.op = "claim"
      /\ new.guest = c.guest /\ new.member = c.member
      /\ new.listed = c.listed /\ new.todo = c.todo \ {r}
      /\ new.moved = c.moved \cup {r}
      /\ new.stamped = c.stamped /\ new.dropped = c.dropped
      /\ new.stale = c.stale /\ new.rival = c.rival
  BY <1>1, <1>2, <1>3, GivenIs DEF RecentInv
<1>5. \A q \in Rows : /\ new.loaded[q] = NoRecent <=> c.loaded[q] = NoRecent
                      /\ c.loaded[q] # NoRecent =>
                           /\ new.loaded[q].product = c.loaded[q].product
                           /\ new.loaded[q].at = c.loaded[q].at
  BY <1>1, <1>2, <1>3, GivenIs DEF RecentInv
<1>6. ClaimShape(new)
  BY <1>1, <1>2, <1>4, <1>5 DEF ClaimShape
<1>7. ClaimOwned(new)
  BY <1>1, <1>4 DEF ClaimOwned
<1>8. ClaimKeeps(new)
  <2>1. \A q \in c.moved \cup c.dropped : new.loaded[q].product = c.loaded[q].product
    BY <1>1, <1>5 DEF ClaimShape
  <2>. QED  BY <1>1, <1>4, <2>1 DEF ClaimKeeps
<1>9. ASSUME ~c.stale
      PROVE  ClaimExact(new)
  <2>1. /\ c.listed = RowsOf(c.guest) /\ c.todo \cap c.stamped = {}
        /\ \A q \in Rows : c.loaded[q] # NoRecent =>
             q \in RowsOf(c.guest) \cup RowsOf(c.member) /\ c.loaded[q].at = AtOf(c, q)
        /\ c.member \notin overlapped => \A q \in Products : OneLeft(c, q)
    BY <1>1, <1>9 DEF ClaimExact
  <2>2. r \in Present /\ recent[r].product = p
    BY <1>1, <1>2, <1>3, <2>1 DEF ClaimShape, RowsOf
  <2>3. \A q \in Rows : c.loaded[q] # NoRecent => AtOf(new, q) = AtOf(c, q)
    BY <1>4, <1>5 DEF AtOf
  <2>4. ASSUME c.member \notin overlapped, NEW q \in Products
        PROVE  OneLeft(new, q)
    <3>1. OneLeft(c, q)
      BY <2>1, <2>4
    <3>2. Done(new, q) = Done(c, q) \cup (IF q = p THEN {r} ELSE {})
      <4>1. \A k \in c.listed : new.loaded[k].product = c.loaded[k].product
        BY <1>1, <1>5 DEF ClaimShape
      <4>2. Done(new, q) = {k \in c.listed \ (c.todo \ {r}) : c.loaded[k].product = q}
        BY <1>4, <4>1 DEF Done
      <4>. QED  BY <1>2, <1>3, <4>2 DEF Done
    <3>3. MemberRows(new, q) = MemberRows(c, q) \cup (IF q = p THEN {r} ELSE {})
      BY <1>2, <1>4, <2>2 DEF MemberRows
    <3>4. CASE q = p
      <4>1. MemberRows(c, p) = {} /\ Done(c, p) = {} /\ last[c.member][p] = 0
        BY <1>3, <3>1, <3>4 DEF OneLeft
      <4>2. MemberRows(new, p) = {r} /\ Done(new, p) = {r}
        BY <3>2, <3>3, <3>4, <4>1
      <4>3. AtOf(new, r) = recent[r].at /\ recent[r].at \in Nat
        BY <1>4, <2>1, <2>2, RowShape DEF AtOf, RecentInv
      <4>. QED  BY <1>1, <1>4, <3>4, <4>1, <4>2, <4>3 DEF OneLeft
    <3>5. CASE q # p
      <4>1. Done(new, q) = Done(c, q) /\ MemberRows(new, q) = MemberRows(c, q)
        BY <3>2, <3>3, <3>5
      <4>2. \A e \in Rows : AtOf(new, e) = AtOf(c, e)
        BY <1>1, <1>4, <1>5 DEF AtOf, ClaimShape
      <4>. QED  BY <1>4, <3>1, <4>1, <4>2 DEF OneLeft
    <3>. QED  BY <3>4, <3>5
  <2>. QED  BY <1>4, <1>5, <2>1, <2>3, <2>4 DEF ClaimExact
<1>10. ClaimExact(new)
  BY <1>4, <1>9 DEF ClaimExact
<1>. QED  BY <1>3, <1>4, <1>6, <1>7, <1>8, <1>10 DEF VisitTrue

\* What merging a row into one of the member's changes in a claim.
LEMMA MergedIs ==
  ASSUME RecentTypeOK, NEW c \in ClaimVisit, NEW r \in Rows, c.loaded[r] # NoRecent,
         NEW e \in Present
  PROVE  /\ Merged(c, r, e) \in ClaimVisit
         /\ Merged(c, r, e).op = "claim"
         /\ Merged(c, r, e).guest = c.guest /\ Merged(c, r, e).member = c.member
         /\ Merged(c, r, e).listed = c.listed /\ Merged(c, r, e).todo = c.todo \ {r}
         /\ Merged(c, r, e).moved = c.moved /\ Merged(c, r, e).dropped = c.dropped \cup {r}
         /\ Merged(c, r, e).stale = c.stale /\ Merged(c, r, e).rival = c.rival
         /\ \A q \in Rows \ {e} : Merged(c, r, e).loaded[q] = c.loaded[q]
         /\ Merged(c, r, e).loaded[e] \in RecentRow
         /\ Merged(c, r, e).loaded[e].product = Loaded(c, e).product
         /\ \/ /\ c.loaded[r].at > Loaded(c, e).at
               /\ Merged(c, r, e).stamped = c.stamped \cup {e}
               /\ Merged(c, r, e).loaded[e].at = c.loaded[r].at
            \/ /\ c.loaded[r].at <= Loaded(c, e).at
               /\ Merged(c, r, e).stamped = c.stamped
               /\ Merged(c, r, e).loaded[e].at = Loaded(c, e).at
<1>1. PICK row, old : row = c.loaded[r] /\ old = Loaded(c, e)
  OBVIOUS
<1>2. row \in RecentRow /\ old \in RecentRow /\ e \in Rows
  BY <1>1, RowShape DEF ClaimVisit, Loaded
<1>3. row.at \in Nat /\ old.at \in Nat /\ row.at \in 1..LastView
  BY <1>2, RecentAssumption DEF RecentRow
<1>4. PICK x, todo, dropped, stamped :
        /\ x = IF row.at > old.at THEN [old EXCEPT !.at = row.at] ELSE old
        /\ todo = c.todo \ {r} /\ dropped = c.dropped \cup {r}
        /\ stamped = IF row.at > old.at THEN c.stamped \cup {e} ELSE c.stamped
  OBVIOUS
<1>5. PICK loaded : loaded = [c.loaded EXCEPT ![e] = x]
  OBVIOUS
<1>6. Merged(c, r, e) = [c EXCEPT !.todo = todo, !.dropped = dropped, !.loaded = loaded,
                                  !.stamped = stamped]
  BY <1>1, <1>4, <1>5 DEF Merged, ClaimVisit
<1>7. /\ x \in RecentRow /\ x.product = old.product
      /\ x.at = IF row.at > old.at THEN row.at ELSE old.at
  BY <1>2, <1>3, <1>4 DEF RecentRow
<1>8. /\ loaded \in [Rows -> RecentRow \cup {NoRecent}]
      /\ \A q \in Rows : loaded[q] = IF q = e THEN x ELSE c.loaded[q]
  BY <1>5, <1>7 DEF ClaimVisit
<1>9. todo \subseteq Rows /\ dropped \subseteq Rows /\ stamped \subseteq Rows
  BY <1>2, <1>4 DEF ClaimVisit
<1>10. PICK new : new = Merged(c, r, e)
  OBVIOUS
<1>11. new = [c EXCEPT !.todo = todo, !.dropped = dropped, !.loaded = loaded,
                       !.stamped = stamped]
  BY <1>6, <1>10
<1>12. /\ new \in ClaimVisit /\ new.op = "claim" /\ new.loaded = loaded
       /\ new.guest = c.guest /\ new.member = c.member
       /\ new.listed = c.listed /\ new.todo = todo /\ new.moved = c.moved
       /\ new.stamped = stamped /\ new.dropped = dropped
       /\ new.stale = c.stale /\ new.rival = c.rival
  BY <1>8, <1>9, <1>11 DEF ClaimVisit
<1>13. \/ row.at > old.at /\ new.stamped = c.stamped \cup {e} /\ x.at = row.at
       \/ row.at <= old.at /\ new.stamped = c.stamped /\ x.at = old.at
  BY <1>3, <1>4, <1>7, <1>12
<1>. QED  BY <1>1, <1>2, <1>4, <1>7, <1>8, <1>10, <1>12, <1>13

\* The member has a row of the product: the later time goes there.
LEMMA MergedTrue ==
  ASSUME RecentInv, NEW c \in ClaimVisit, VisitTrue(c), NEW r \in c.todo,
         NEW e \in MemberRows(c, c.loaded[r].product)
  PROVE  Merged(c, r, e) \in ClaimVisit /\ VisitTrue(Merged(c, r, e))
<1>1. /\ ClaimShape(c) /\ ClaimOwned(c) /\ ClaimKeeps(c) /\ ClaimExact(c)
      /\ r \in Rows /\ c.listed \subseteq Rows /\ c.moved \subseteq Rows /\ c.dropped \subseteq Rows
      /\ c.stamped \subseteq Rows /\ c.op = "claim"
      /\ c.guest \in Guests /\ c.member \in Members
  BY DEF VisitTrue, ClaimVisit
<1>2. /\ r \in c.listed /\ r \notin c.moved /\ r \notin c.dropped
      /\ c.loaded[r] # NoRecent
  BY <1>1 DEF ClaimShape
<1>3. PICK new, p : new = Merged(c, r, e) /\ p = c.loaded[r].product
  OBVIOUS
<1>4. /\ e \in Present /\ e \in Rows /\ e \notin c.dropped /\ recent[e].product = p
      /\ e \in c.moved \/ recent[e].owner = c.member
  BY <1>3 DEF MemberRows, Present
<1>5. PICK x, old : x = new.loaded[e] /\ old = Loaded(c, e)
  OBVIOUS
<1>6. /\ new \in ClaimVisit /\ new.op = "claim"
      /\ new.guest = c.guest /\ new.member = c.member
      /\ new.listed = c.listed /\ new.todo = c.todo \ {r}
      /\ new.moved = c.moved /\ new.dropped = c.dropped \cup {r}
      /\ new.stale = c.stale /\ new.rival = c.rival
      /\ \A q \in Rows \ {e} : new.loaded[q] = c.loaded[q]
      /\ x \in RecentRow /\ x.product = old.product
  BY <1>1, <1>2, <1>3, <1>4, <1>5, MergedIs DEF RecentInv
<1>7. \/ c.loaded[r].at > old.at /\ new.stamped = c.stamped \cup {e} /\ x.at = c.loaded[r].at
      \/ c.loaded[r].at <= old.at /\ new.stamped = c.stamped /\ x.at = old.at
  BY <1>1, <1>2, <1>3, <1>4, <1>5, MergedIs DEF RecentInv
<1>8. /\ old.product = p
      /\ c.loaded[e] # NoRecent => old = c.loaded[e]
      /\ c.loaded[e] = NoRecent => old = recent[e]
  BY <1>1, <1>4, <1>5 DEF Loaded, ClaimShape
<1>9. x # NoRecent /\ \A q \in c.listed : new.loaded[q].product = c.loaded[q].product
  BY <1>1, <1>5, <1>6, <1>8, RowShape DEF ClaimShape, RecentInv
<1>10. x.at <= clock
  BY <1>1, <1>2, <1>4, <1>7, <1>8 DEF ClaimShape, RecentInv, TimesTrue
<1>11. ClaimShape(new)
  <2>1. \A q \in Rows : new.loaded[q] # NoRecent =>
          /\ q \in used /\ new.loaded[q].at <= clock
          /\ q \in Present => new.loaded[q].product = recent[q].product
    BY <1>1, <1>4, <1>5, <1>6, <1>8, <1>10 DEF ClaimShape, RecentInv, TimesTrue
  <2>2. \A q \in new.listed \cup new.stamped : new.loaded[q] # NoRecent
    BY <1>1, <1>5, <1>6, <1>7, <1>9 DEF ClaimShape
  <2>. QED  BY <1>1, <1>2, <1>6, <2>1, <2>2 DEF ClaimShape
<1>12. ClaimOwned(new)
  BY <1>1, <1>6 DEF ClaimOwned
<1>13. ClaimKeeps(new)
  <2>1. c.moved \subseteq c.listed /\ c.dropped \subseteq c.listed
    BY <1>1 DEF ClaimShape
  <2>2. \/ \E k \in c.moved : new.loaded[k].product = new.loaded[r].product
        \/ RowsFor(c.member, new.loaded[r].product) # {}
    <3>1. new.loaded[r].product = p
      BY <1>2, <1>3, <1>9
    <3>2. CASE e \in c.moved
      BY <1>4, <1>5, <1>6, <1>8, <3>1, <3>2
    <3>3. CASE recent[e].owner = c.member
      BY <1>4, <3>1, <3>3 DEF RowsFor, RowsOf
    <3>. QED  BY <1>4, <3>2, <3>3
  <2>. QED  BY <1>1, <1>6, <1>9, <2>1, <2>2 DEF ClaimKeeps
<1>14. ASSUME ~c.stale
       PROVE  ClaimExact(new)
  <2>1. /\ c.listed = RowsOf(c.guest) /\ c.todo \cap c.stamped = {}
        /\ \A q \in Rows : c.loaded[q] # NoRecent =>
             q \in RowsOf(c.guest) \cup RowsOf(c.member) /\ c.loaded[q].at = AtOf(c, q)
        /\ c.member \notin overlapped => \A q \in Products : OneLeft(c, q)
    BY <1>1, <1>14 DEF ClaimExact
  <2>2. r \in Present /\ recent[r].product = p /\ recent[r].owner = c.guest
    BY <1>1, <1>2, <1>3, <2>1 DEF ClaimShape, RowsOf
  <2>3. c.loaded[r].at = recent[r].at /\ recent[r].at \in Nat
    BY <1>1, <1>2, <2>1, <2>2, RowShape DEF AtOf, RecentInv
  <2>4. c.guest # c.member
    BY <1>1, RecentAssumption
  <2>5. e \notin c.todo /\ e # r
    BY <1>1, <1>4, <2>1, <2>4 DEF ClaimShape, RowsOf
  <2>6. e \in RowsOf(c.guest) \cup RowsOf(c.member)
    BY <1>1, <1>4, <2>1 DEF ClaimShape, RowsOf
  <2>7. old.at = AtOf(c, e) /\ AtOf(c, e) \in Nat
    <3>1. CASE c.loaded[e] = NoRecent
      BY <1>1, <1>4, <1>8, <3>1, RowShape DEF ClaimShape, AtOf, RecentInv
    <3>2. CASE c.loaded[e] # NoRecent
      <4>1. c.loaded[e] \in RecentRow /\ c.loaded[e].at \in Nat
        BY <1>4, <3>2 DEF ClaimVisit, RecentRow
      <4>. QED  BY <1>4, <1>8, <2>1, <3>2, <4>1
    <3>. QED  BY <3>1, <3>2
  <2>8. \A q \in Rows \ {e} : AtOf(new, q) = AtOf(c, q)
    BY <1>6, <1>7 DEF AtOf
  <2>9. /\ AtOf(new, e) = x.at
        /\ AtOf(new, e) = AtOf(c, e) \/ AtOf(new, e) = recent[r].at
        /\ AtOf(c, e) <= AtOf(new, e) /\ recent[r].at <= AtOf(new, e)
    <3>1. CASE c.loaded[r].at > old.at /\ new.stamped = c.stamped \cup {e}
                 /\ x.at = c.loaded[r].at
      <4>1. AtOf(new, e) = x.at
        BY <1>5, <3>1 DEF AtOf
      <4>. QED  BY <2>3, <2>7, <3>1, <4>1
    <3>2. CASE c.loaded[r].at <= old.at /\ new.stamped = c.stamped /\ x.at = old.at
      <4>1. AtOf(new, e) = x.at
        <5>1. CASE e \in c.stamped
          BY <1>5, <3>2, <5>1 DEF AtOf
        <5>2. CASE e \notin c.stamped
          BY <2>7, <3>2, <5>2 DEF AtOf
        <5>. QED  BY <5>1, <5>2
      <4>. QED  BY <2>3, <2>7, <3>2, <4>1
    <3>. QED  BY <1>7, <3>1, <3>2
  <2>10. ASSUME c.member \notin overlapped, NEW q \in Products
         PROVE  OneLeft(new, q)
    <3>1. OneLeft(c, q)
      BY <2>1, <2>10
    <3>2. Done(new, q) = Done(c, q) \cup (IF q = p THEN {r} ELSE {})
      <4>1. Done(new, q) = {k \in c.listed \ (c.todo \ {r}) : c.loaded[k].product = q}
        BY <1>6, <1>9 DEF Done
      <4>. QED  BY <1>2, <1>3, <4>1 DEF Done
    <3>3. MemberRows(new, q) = MemberRows(c, q)
      BY <1>2, <1>6, <2>2, <2>4 DEF MemberRows
    <3>4. CASE q = p
      <4>1. /\ MemberRows(c, p) = {e}
            /\ \/ AtOf(c, e) = last[c.member][p]
               \/ \E k \in Done(c, p) : AtOf(c, e) = recent[k].at
            /\ last[c.member][p] <= AtOf(c, e)
            /\ \A k \in Done(c, p) : recent[k].at <= AtOf(c, e)
        BY <1>3, <3>1, <3>4 DEF OneLeft
      <4>2. last[c.member][p] \in Nat
        BY <1>1, <3>4 DEF RecentInv, RecentTypeOK, Owners
      <4>3. \A k \in Done(c, p) : recent[k].at \in Nat
        BY <1>1, <2>1, RowShape DEF Done, RowsOf, RecentInv
      <4>4. \A k \in Done(new, p) : recent[k].at <= AtOf(new, e)
        <5> SUFFICES ASSUME NEW k \in Done(c, p)
                     PROVE  recent[k].at <= AtOf(new, e)
          BY <2>9, <3>2, <3>4
        <5>1. AtOf(new, e) \in Nat
          BY <2>3, <2>7, <2>9
        <5>. QED  BY <2>7, <2>9, <4>1, <4>3, <5>1
      <4>5. last[c.member][p] <= AtOf(new, e)
        BY <2>3, <2>7, <2>9, <4>1, <4>2
      <4>6. \/ AtOf(new, e) = last[c.member][p]
            \/ \E k \in Done(new, p) : AtOf(new, e) = recent[k].at
        BY <2>9, <3>2, <3>4, <4>1
      <4>. QED  BY <1>4, <1>6, <3>3, <3>4, <4>1, <4>4, <4>5, <4>6 DEF OneLeft
    <3>5. CASE q # p
      <4>1. Done(new, q) = Done(c, q)
        BY <3>2, <3>5
      <4>2. \A k \in MemberRows(c, q) : AtOf(new, k) = AtOf(c, k)
        BY <1>4, <2>8, <3>5 DEF MemberRows, Present
      <4>. QED  BY <1>6, <3>1, <3>3, <4>1, <4>2 DEF OneLeft
    <3>. QED  BY <3>4, <3>5
  <2>11. \A q \in Rows : new.loaded[q] # NoRecent =>
           q \in RowsOf(c.guest) \cup RowsOf(c.member) /\ new.loaded[q].at = AtOf(new, q)
    BY <1>5, <1>6, <2>1, <2>6, <2>8, <2>9
  <2>12. new.todo \cap new.stamped = {}
    BY <1>6, <1>7, <2>1, <2>5
  <2>. QED  BY <1>6, <2>1, <2>10, <2>11, <2>12 DEF ClaimExact
<1>15. ClaimExact(new)
  BY <1>6, <1>14 DEF ClaimExact
<1>. QED  BY <1>3, <1>6, <1>11, <1>12, <1>13, <1>15 DEF VisitTrue

LEMMA ClaimRowInv ==
  ASSUME RecentInv, NEW v \in Viewers, ClaimRow(v)
  PROVE  RecentInv'
<1>1. PICK c : c = visits[v]
  OBVIOUS
<1>2. c \in ClaimVisit /\ VisitTrue(c)
  BY <1>1, VisitShape DEF ClaimRow, RecentInv, RecentTypeOK
<1>3. UNCHANGED <<guests, recent, used, clock, recentHistory>>
  BY DEF ClaimRow
<1>4. PICK r \in c.todo :
        visits' \in IF MemberRows(c, c.loaded[r].product) = {}
                    THEN {[visits EXCEPT ![v] = Given(c, r)]}
                    ELSE {[visits EXCEPT ![v] = Merged(c, r, e)] :
                            e \in MemberRows(c, c.loaded[r].product)}
  BY <1>1 DEF ClaimRow
<1>5. r \in Rows /\ c.loaded[r] # NoRecent
  BY <1>2 DEF ClaimVisit, VisitTrue, ClaimShape
<1>6. \E new \in ClaimVisit :
        /\ visits' = [visits EXCEPT ![v] = new] /\ VisitTrue(new)
        /\ new.guest = c.guest /\ new.listed = c.listed
  <2>1. CASE MemberRows(c, c.loaded[r].product) = {}
    <3>1. visits' = [visits EXCEPT ![v] = Given(c, r)]
      BY <1>4, <2>1
    <3>2. Given(c, r).guest = c.guest /\ Given(c, r).listed = c.listed
      BY <1>2, <1>5, GivenIs DEF RecentInv
    <3>. QED  BY <1>2, <2>1, <3>1, <3>2, GivenTrue
  <2>2. CASE MemberRows(c, c.loaded[r].product) # {}
    <3>1. PICK e \in MemberRows(c, c.loaded[r].product) :
            visits' = [visits EXCEPT ![v] = Merged(c, r, e)]
      BY <1>4, <2>2
    <3>2. Merged(c, r, e).guest = c.guest /\ Merged(c, r, e).listed = c.listed
      BY <1>2, <1>5, MergedIs DEF RecentInv, MemberRows
    <3>. QED  BY <1>2, <3>1, <3>2, MergedTrue
  <2>. QED  BY <2>1, <2>2
<1>7. PICK new \in ClaimVisit :
        /\ visits' = [visits EXCEPT ![v] = new] /\ VisitTrue(new)
        /\ new.guest = c.guest /\ new.listed = c.listed
  BY <1>6
<1>8. VisitTrue(new)'
  BY <1>3, <1>7 DEF VisitTrue, ViewExact, ClaimShape, ClaimOwned, ClaimKeeps, ClaimExact,
     OneLeft, AtOf, Done, MemberRows, RowsFor, RowsOf, Present, recentHistory
<1>9. \A w \in Viewers \ {v} :
        visits[w].op = "claim" /\ new.op = "claim" /\ visits[w].listed \cap new.listed # {}
          => visits[w].guest = new.guest
  BY <1>1, <1>2, <1>7, VisitShape DEF RecentInv, GuestsApart, Visit
<1>10. clock <= clock' /\ clock' \in 0..LastView /\ new \in Visit
  BY <1>3 DEF RecentInv, RecentTypeOK, Visit
<1>. QED  BY <1>3, <1>7, <1>8, <1>9, <1>10, OneVisit

-----------------------------------------------------------------------------
(***************************************************************************)
(* The steps that commit.                                                  *)
(***************************************************************************)
\* Every other request goes on as it was, or is overtaken.
LEMMA VisitsAfter ==
  ASSUME RecentInv, NEW owners, TablesKeep(owners), visits' = [w \in Viewers |-> visits'[w]],
         \A w \in Viewers :
            \/ visits'[w] = NoVisit
            \/ /\ Overtaken(w, owners)
               /\ visits[w].op = "claim" => OwnersKeep(visits[w], visits'[w])
  PROVE  /\ visits' \in [Viewers -> Visit]
         /\ \A w \in Viewers : VisitTrue(visits[w])'
         /\ GuestsApart'
<1>1. NoVisit \in Visit /\ NoVisit.op = "idle" /\ VisitTrue(NoVisit)'
  BY DEF Visit, NoVisit, VisitTrue
<1>2. ASSUME NEW w \in Viewers
      PROVE  /\ visits'[w] \in Visit /\ VisitTrue(visits[w])'
             /\ visits'[w].op = "claim" => /\ visits[w].op = "claim"
                                           /\ visits'[w].guest = visits[w].guest
                                           /\ visits'[w].listed = visits[w].listed
  <2>1. CASE visits'[w] = NoVisit
    BY <1>1, <2>1 DEF VisitTrue
  <2>2. CASE Overtaken(w, owners) /\ (visits[w].op = "claim" => OwnersKeep(visits[w], visits'[w]))
    BY <2>2, KeptVisit DEF SameClaim
  <2>. QED  BY <2>1, <2>2
<1>3. visits' \in [Viewers -> Visit]
  BY <1>2
<1>4. GuestsApart'
  BY <1>2 DEF RecentInv, GuestsApart
<1>. QED  BY <1>2, <1>3, <1>4

LEMMA EndedOver ==
  ASSUME RecentInv, NEW owners, NEW v \in Viewers, EndOver(v, owners)
  PROVE  /\ visits' = [w \in Viewers |-> visits'[w]] /\ visits'[v] = NoVisit
         /\ \A w \in Viewers \ {v} :
              /\ Overtaken(w, owners)
              /\ /\ visits[w].op = "claim" /\ visits[v].op = "claim"
                 /\ visits[w].guest = visits[v].guest /\ visits[v].guest \in owners
                 => visits'[w].rival
<1>1. /\ visits' = [w \in Viewers |-> visits'[w]] /\ visits'[v] = NoVisit
      /\ \A w \in Viewers \ {v} : visits'[w] =
           IF Touches(visits[w]) \cap owners = {} THEN visits[w]
           ELSE IF visits[w].op = "claim" /\ visits[v].op = "claim" /\ visits[w].guest = visits[v].guest
                THEN [visits[w] EXCEPT !.stale = TRUE, !.rival = TRUE]
           ELSE [visits[w] EXCEPT !.stale = TRUE]
  BY DEF EndOver
<1>2. ASSUME NEW w \in Viewers \ {v}
      PROVE  /\ Overtaken(w, owners)
             /\ /\ visits[w].op = "claim" /\ visits[v].op = "claim"
                /\ visits[w].guest = visits[v].guest /\ visits[v].guest \in owners
                => visits'[w].rival
  <2>1. visits[w] \in Visit
    BY DEF RecentInv, RecentTypeOK
  <2>2. visits[w].op = "claim" => visits[w] \in ClaimVisit /\ visits[w].guest \in Touches(visits[w])
    BY <2>1, VisitShape, TouchesIs
  <2>3. visits[w] = NoVisit => Touches(visits[w]) = {}
    BY <2>1, VisitShape, TouchesIs
  <2>4. CASE Touches(visits[w]) \cap owners = {}
    BY <1>1, <2>2, <2>4 DEF Overtaken
  <2>5. CASE /\ Touches(visits[w]) \cap owners # {}
             /\ visits[w].op = "claim" /\ visits[v].op = "claim"
             /\ visits[w].guest = visits[v].guest
    <3>1. visits'[w] = [visits[w] EXCEPT !.stale = TRUE, !.rival = TRUE]
      BY <1>1, <2>5
    <3>. QED  BY <2>2, <2>5, <3>1, StaleClaim DEF Overtaken
  <2>6. CASE /\ Touches(visits[w]) \cap owners # {}
             /\ ~(/\ visits[w].op = "claim" /\ visits[v].op = "claim"
                  /\ visits[w].guest = visits[v].guest)
    <3>1. visits'[w] = [visits[w] EXCEPT !.stale = TRUE]
      BY <1>1, <2>6
    <3>. QED  BY <2>3, <2>6, <3>1 DEF Overtaken
  <2>. QED  BY <2>4, <2>5, <2>6
<1>. QED  BY <1>1, <1>2

\* HistoryExact and HistoryKept for one owner and product.
ExactFor(o, p) ==
    IF last[o][p] = 0 THEN RowsFor(o, p) = {}
    ELSE \E r \in Rows : RowsFor(o, p) = {r} /\ recent[r].at = last[o][p]

LEMMA ExactKept ==
  ASSUME NEW o, NEW p, ExactFor(o, p), RowsFor(o, p)' = RowsFor(o, p),
         \A r \in RowsFor(o, p) : recent'[r].at = recent[r].at,
         last'[o][p] = last[o][p]
  PROVE  ExactFor(o, p)'
BY DEF ExactFor

LEMMA OthersExact ==
  ASSUME NEW owners, TablesKeep(owners), NEW o \in Owners \ owners, NEW p, ExactFor(o, p)
  PROVE  ExactFor(o, p)'
<1>1. RowsOf(o)' = RowsOf(o) /\ last'[o] = last[o] /\ \A r \in RowsOf(o) : recent'[r] = recent[r]
  BY DEF TablesKeep
<1>2. RowsFor(o, p)' = RowsFor(o, p)
  BY <1>1 DEF RowsFor
<1>. QED  BY <1>1, <1>2 DEF ExactFor, RowsFor

LEMMA SeenIs ==
  ASSUME RecentTypeOK, NEW o \in Owners, NEW p \in Products, NEW at \in 1..LastView,
         last' = Seen(o, p, at)
  PROVE  /\ last' \in [Owners -> [Products -> 0..LastView]]
         /\ last'[o][p] = IF last[o][p] > at THEN last[o][p] ELSE at
         /\ \A k \in Owners \ {o} : last'[k] = last[k]
         /\ \A q \in Products \ {p} : last'[o][q] = last[o][q]
<1>1. PICK t : t = Later(last[o][p], at)
  OBVIOUS
<1>2. last[o][p] \in 0..LastView /\ t \in 0..LastView
  BY <1>1, RecentAssumption DEF RecentTypeOK, Later
<1>3. last' = [last EXCEPT ![o][p] = t]
  BY <1>1 DEF Seen
<1>. QED  BY <1>1, <1>2, <1>3 DEF RecentTypeOK, Later

LEMMA ViewUpdateInv ==
  ASSUME RecentInv, NEW v \in Viewers, ViewUpdate(v)
  PROVE  RecentInv'
<1>1. PICK c, r, o, p, owners :
        /\ c = visits[v] /\ r = c.found /\ o = recent[r].owner /\ p = recent[r].product
        /\ owners = {c.owner, o}
  OBVIOUS
<1>2. /\ c \in ViewVisit /\ VisitTrue(c) /\ RecentTypeOK
      /\ c.op = "view" /\ r \in Present
  BY <1>1, VisitShape DEF ViewUpdate, RecentInv, RecentTypeOK
<1>3. /\ recent' = [recent EXCEPT ![r].at = c.at]
      /\ last' = Seen(o, p, c.at)
      /\ NoteOverlap(v, owners) /\ EndOver(v, owners)
      /\ UNCHANGED <<guests, used, clock, claimers, contested>>
  BY <1>1 DEF ViewUpdate
<1>4. /\ r \in Rows /\ recent[r] \in RecentRow /\ o \in Owners /\ p \in Products
      /\ c.owner \in Owners /\ c.at \in 1..LastView /\ c.at <= clock /\ clock \in 0..LastView
  BY <1>1, <1>2, RowShape DEF ViewVisit, VisitTrue, RecentTypeOK
<1>5. /\ recent'[r] \in RecentRow /\ recent'[r].at = c.at
      /\ recent'[r].owner = o /\ recent'[r].product = p
      /\ \A k \in Rows \ {r} : recent'[k] = recent[k]
      /\ recent' \in [Rows -> RecentRow \cup {NoRecent}]
  <2>1. PICK x : x = [recent[r] EXCEPT !.at = c.at]
    OBVIOUS
  <2>2. x \in RecentRow /\ x.at = c.at /\ x.owner = o /\ x.product = p
    BY <1>1, <1>4, <2>1 DEF RecentRow
  <2>3. recent' = [recent EXCEPT ![r] = x]
    BY <1>3, <2>1
  <2>. QED  BY <1>2, <1>4, <2>2, <2>3 DEF RecentTypeOK
<1>6. /\ Present' = Present
      /\ \A k \in Present : recent'[k].owner = recent[k].owner /\ recent'[k].product = recent[k].product
  BY <1>1, <1>2, <1>5, RowShape DEF Present
<1>7. \A k : RowsOf(k)' = RowsOf(k)
  BY <1>6 DEF RowsOf
<1>8. \A k, q : RowsFor(k, q)' = RowsFor(k, q)
  BY <1>6, <1>7 DEF RowsFor, RowsOf
<1>9. /\ last' \in [Owners -> [Products -> 0..LastView]]
      /\ last'[o][p] = IF last[o][p] > c.at THEN last[o][p] ELSE c.at
      /\ \A k \in Owners \ {o} : last'[k] = last[k]
      /\ \A q \in Products \ {p} : last'[o][q] = last[o][q]
  BY <1>2, <1>3, <1>4, SeenIs
<1>10. overlapped' = IF c.stale THEN overlapped \cup owners ELSE overlapped
  BY <1>1, <1>3 DEF NoteOverlap
<1>11. TablesKeep(owners)
  <2>1. clock <= clock' /\ clock' \in 0..LastView
    BY <1>3, <1>4
  <2>2. \A k \in Owners \ owners :
          /\ RowsOf(k)' = RowsOf(k) /\ last'[k] = last[k]
          /\ \A q \in RowsOf(k) : recent'[q] = recent[q]
    BY <1>1, <1>5, <1>7, <1>9 DEF RowsOf, Present
  <2>. QED  BY <1>3, <1>6, <1>8, <1>10, <2>1, <2>2 DEF TablesKeep
<1>12. RecentTypeOK'
  <2>1. visits' \in [Viewers -> Visit]
    <3>1. \A w \in Viewers : visits[w].op = "claim" => OwnersKeep(visits[w], visits'[w])
      BY <1>6 DEF OwnersKeep
    <3>. QED  BY <1>3, <1>11, <3>1, EndedOver, VisitsAfter
  <2>2. overlapped' \subseteq Owners
    BY <1>1, <1>2, <1>4, <1>10 DEF RecentTypeOK
  <2>. QED  BY <1>2, <1>3, <1>5, <1>9, <2>1, <2>2 DEF RecentTypeOK
<1>13. /\ \A w \in Viewers : VisitTrue(visits[w])'
       /\ GuestsApart'
  <2>1. \A w \in Viewers : visits[w].op = "claim" => OwnersKeep(visits[w], visits'[w])
    BY <1>6 DEF OwnersKeep
  <2>. QED  BY <1>3, <1>11, <2>1, EndedOver, VisitsAfter
<1>14. TimesTrue'
  <2>1. \A k \in Present' : recent'[k].at <= clock'
    BY <1>3, <1>4, <1>5, <1>6 DEF RecentInv, TimesTrue, Present
  <2>2. ASSUME NEW k \in Owners, NEW q \in Products
        PROVE  last'[k][q] <= clock'
    BY <1>3, <1>4, <1>9 DEF RecentInv, TimesTrue
  <2>. QED  BY <1>3, <1>6, <2>1, <2>2 DEF RecentInv, TimesTrue
<1>15. r \in RowsFor(o, p)
  BY <1>1, <1>2 DEF RowsFor, RowsOf
<1>16. HistoryKept'
  BY <1>3, <1>8, <1>9, <1>15 DEF RecentInv, HistoryKept
<1>17. HistoryExact'
  <2> SUFFICES ASSUME NEW k \in Owners \ overlapped', NEW q \in Products
               PROVE  ExactFor(k, q)'
    BY DEF HistoryExact, ExactFor
  <2>1. ExactFor(k, q)
    BY <1>10 DEF RecentInv, HistoryExact, ExactFor
  <2>2. CASE k \notin owners
    BY <1>11, <2>1, <2>2, OthersExact
  <2>3. CASE k \in owners
    <3>1. ~c.stale /\ k = o /\ last[o][p] <= c.at
      BY <1>1, <1>2, <1>10, <2>3, RecentAssumption DEF VisitTrue, ViewExact, RowsFor, RowsOf, Present
    <3>2. CASE q = p
      <4>1. RowsFor(o, p) = {r}
        BY <1>15, <2>1, <3>1, <3>2 DEF ExactFor
      <4>2. last'[o][p] = c.at /\ c.at # 0
        BY <1>2, <1>4, <1>9, <3>1 DEF RecentTypeOK
      <4>. QED  BY <1>4, <1>5, <1>8, <3>1, <3>2, <4>1, <4>2 DEF ExactFor
    <3>3. CASE q # p
      <4>1. \A x \in RowsFor(o, q) : recent'[x].at = recent[x].at
        BY <1>1, <1>5, <3>3 DEF RowsFor, RowsOf, Present
      <4>. QED  BY <1>8, <1>9, <2>1, <3>1, <3>3, <4>1, ExactKept
    <3>. QED  BY <3>2, <3>3
  <2>. QED  BY <2>2, <2>3
<1>. QED  BY <1>12, <1>13, <1>14, <1>16, <1>17 DEF RecentInv

LEMMA ViewInsertInv ==
  ASSUME RecentInv, NEW v \in Viewers, ViewInsert(v)
  PROVE  RecentInv'
<1>1. PICK c, o, p, owners :
        c = visits[v] /\ o = c.owner /\ p = c.product /\ owners = {o}
  OBVIOUS
<1>2. /\ c \in ViewVisit /\ VisitTrue(c) /\ RecentTypeOK
      /\ c.op = "view" /\ c.found = NoRecent /\ Touches(c) = owners
  BY <1>1, VisitShape, TouchesIs DEF ViewInsert, RecentInv, RecentTypeOK
<1>3. PICK r \in Rows \ used :
        /\ recent' = [recent EXCEPT ![r] = [owner |-> o, product |-> p, at |-> c.at]]
        /\ used' = used \cup {r}
  BY <1>1 DEF ViewInsert
<1>4. /\ last' = Seen(o, p, c.at)
      /\ NoteOverlap(v, owners) /\ EndOver(v, owners)
      /\ UNCHANGED <<guests, clock, claimers, contested>>
  BY <1>1, <1>2 DEF ViewInsert
<1>5. /\ o \in Owners /\ p \in Products
      /\ c.at \in 1..LastView /\ c.at <= clock /\ clock \in 0..LastView
  BY <1>1, <1>2 DEF ViewVisit, VisitTrue, RecentTypeOK
<1>6. /\ recent'[r] \in RecentRow /\ recent'[r].at = c.at
      /\ recent'[r].owner = o /\ recent'[r].product = p
      /\ \A k \in Rows \ {r} : recent'[k] = recent[k]
      /\ recent' \in [Rows -> RecentRow \cup {NoRecent}]
  <2>1. PICK x : x = [owner |-> o, product |-> p, at |-> c.at]
    OBVIOUS
  <2>2. x \in RecentRow /\ x.at = c.at /\ x.owner = o /\ x.product = p
    BY <1>5, <2>1 DEF RecentRow
  <2>3. recent' = [recent EXCEPT ![r] = x]
    BY <1>3, <2>1
  <2>. QED  BY <1>2, <2>2, <2>3 DEF RecentTypeOK
<1>7. /\ r \notin Present /\ Present' = Present \cup {r}
      /\ \A k \in used : recent'[k] = recent[k]
      /\ Present \subseteq used
  <2>1. r \notin Present
    BY DEF RecentInv, TimesTrue
  <2>2. recent'[r] # NoRecent
    BY <1>2, <1>6, RowShape
  <2>. QED  BY <1>2, <1>6, <2>1, <2>2 DEF Present, RecentInv, TimesTrue, RecentTypeOK
<1>8. \A k : RowsOf(k)' = RowsOf(k) \cup (IF k = o THEN {r} ELSE {})
  BY <1>6, <1>7 DEF RowsOf
<1>9. \A k, q : RowsFor(k, q)' = RowsFor(k, q) \cup (IF k = o /\ q = p THEN {r} ELSE {})
  BY <1>6, <1>7, <1>8 DEF RowsFor, RowsOf
<1>10. /\ last' \in [Owners -> [Products -> 0..LastView]]
       /\ last'[o][p] = IF last[o][p] > c.at THEN last[o][p] ELSE c.at
       /\ \A k \in Owners \ {o} : last'[k] = last[k]
       /\ \A q \in Products \ {p} : last'[o][q] = last[o][q]
  BY <1>2, <1>4, <1>5, SeenIs
<1>11. overlapped' = IF c.stale THEN overlapped \cup owners ELSE overlapped
  BY <1>1, <1>4 DEF NoteOverlap
<1>12. TablesKeep(owners)
  <2>1. clock <= clock' /\ clock' \in 0..LastView
    BY <1>4, <1>5
  <2>2. \A k \in Owners \ owners :
          /\ RowsOf(k)' = RowsOf(k) /\ last'[k] = last[k]
          /\ \A q \in RowsOf(k) : recent'[q] = recent[q]
    BY <1>1, <1>7, <1>8, <1>10 DEF RowsOf
  <2>3. \A q \in used : q \in Present' => q \in Present /\ recent'[q].product = recent[q].product
    BY <1>3, <1>7
  <2>4. \A m \in Members, q \in Products : RowsFor(m, q) # {} => RowsFor(m, q)' # {}
    BY <1>9
  <2>. QED  BY <1>3, <1>4, <1>11, <2>1, <2>2, <2>3, <2>4 DEF TablesKeep
<1>13. /\ visits' \in [Viewers -> Visit]
       /\ \A w \in Viewers : VisitTrue(visits[w])'
       /\ GuestsApart'
  <2>1. \A w \in Viewers : visits[w].op = "claim" => OwnersKeep(visits[w], visits'[w])
    <3> SUFFICES ASSUME NEW w \in Viewers, visits[w].op = "claim"
                 PROVE  visits[w].listed \subseteq used
      BY <1>7 DEF OwnersKeep
    <3>1. visits[w] \in ClaimVisit /\ ClaimShape(visits[w])
      BY <1>2, VisitShape DEF RecentInv, RecentTypeOK, VisitTrue
    <3>. QED  BY <3>1 DEF ClaimShape, ClaimVisit
  <2>. QED  BY <1>4, <1>12, <2>1, EndedOver, VisitsAfter
<1>14. RecentTypeOK'
  <2>1. overlapped' \subseteq Owners /\ used' \subseteq Rows
    BY <1>1, <1>2, <1>3, <1>5, <1>11 DEF RecentTypeOK
  <2>. QED  BY <1>2, <1>4, <1>6, <1>10, <1>13, <2>1 DEF RecentTypeOK
<1>15. TimesTrue'
  <2>1. \A k \in Present' : recent'[k].at <= clock'
    BY <1>4, <1>5, <1>6, <1>7 DEF RecentInv, TimesTrue, Present
  <2>2. ASSUME NEW k \in Owners, NEW q \in Products
        PROVE  last'[k][q] <= clock'
    BY <1>4, <1>5, <1>10 DEF RecentInv, TimesTrue
  <2>. QED  BY <1>3, <1>7, <2>1, <2>2 DEF RecentInv, TimesTrue
<1>16. HistoryKept'
  BY <1>4, <1>9, <1>10 DEF RecentInv, HistoryKept
<1>17. HistoryExact'
  <2> SUFFICES ASSUME NEW k \in Owners \ overlapped', NEW q \in Products
               PROVE  ExactFor(k, q)'
    BY DEF HistoryExact, ExactFor
  <2>1. ExactFor(k, q)
    BY <1>11 DEF RecentInv, HistoryExact, ExactFor
  <2>2. CASE k \notin owners
    BY <1>12, <2>1, <2>2, OthersExact
  <2>3. CASE k \in owners
    <3>1. k = o /\ last[o][p] <= c.at /\ RowsFor(o, p) = {}
      BY <1>1, <1>2, <1>11, <2>3 DEF VisitTrue, ViewExact
    <3>2. CASE q = p
      <4>1. RowsFor(o, p)' = {r}
        BY <1>9, <3>1
      <4>2. last'[o][p] = c.at /\ c.at # 0
        BY <1>2, <1>5, <1>10, <3>1 DEF RecentTypeOK
      <4>. QED  BY <1>3, <1>6, <3>1, <3>2, <4>1, <4>2 DEF ExactFor
    <3>3. CASE q # p
      <4>1. \A x \in RowsFor(o, q) : recent'[x].at = recent[x].at
        BY <1>7 DEF RowsFor, RowsOf
      <4>. QED  BY <1>9, <1>10, <2>1, <3>1, <3>3, <4>1, ExactKept
    <3>. QED  BY <3>2, <3>3
  <2>. QED  BY <2>2, <2>3
<1>. QED  BY <1>13, <1>14, <1>15, <1>16, <1>17 DEF RecentInv

\* The expired guests go with their rows: nobody else's history changes.
LEMMA CleanGuestsInv ==
  ASSUME RecentInv, CleanGuests
  PROVE  RecentInv'
<1>1. PICK over : over = {g \in Guests : guests[g] = "expired"}
  OBVIOUS
<1>2. /\ guests' = [g \in Guests |-> IF g \in over THEN "deleted" ELSE guests[g]]
      /\ recent' = [r \in Rows |-> IF r \in Present /\ recent[r].owner \in over
                                   THEN NoRecent ELSE recent[r]]
      /\ last' = [o \in Owners |-> [p \in Products |-> IF o \in over THEN 0 ELSE last[o][p]]]
      /\ visits' = [v \in Viewers |-> IF Touches(visits[v]) \cap over = {} THEN visits[v]
                                      ELSE [visits[v] EXCEPT !.stale = TRUE]]
      /\ UNCHANGED <<used, clock, overlapped, claimers, contested>>
  BY <1>1 DEF CleanGuests
<1>3. RecentTypeOK /\ over \subseteq Guests /\ \A m \in Members : m \notin over
  BY <1>1, RecentAssumption DEF RecentInv
<1>4. /\ Present' = {r \in Present : recent[r].owner \notin over}
      /\ \A r \in Present' : recent'[r] = recent[r]
  BY <1>2 DEF Present
<1>5. /\ \A o : o \in over => RowsOf(o)' = {}
      /\ \A o : o \notin over => RowsOf(o)' = RowsOf(o)
      /\ \A o : \A r \in RowsOf(o)' : recent'[r] = recent[r]
  BY <1>4 DEF RowsOf
<1>6. /\ \A o, p : o \in over => RowsFor(o, p)' = {}
      /\ \A o, p : o \notin over => RowsFor(o, p)' = RowsFor(o, p)
  BY <1>5 DEF RowsFor
<1>7. /\ last' \in [Owners -> [Products -> 0..LastView]]
      /\ \A o \in Owners, p \in Products : last'[o][p] = IF o \in over THEN 0 ELSE last[o][p]
      /\ \A o \in Owners \ over : last'[o] = last[o]
  BY <1>2, <1>3, RecentAssumption DEF RecentTypeOK
<1>8. TablesKeep(over)
  <2>1. clock <= clock' /\ clock' \in 0..LastView
    BY <1>2, <1>3 DEF RecentTypeOK
  <2>2. \A r \in used : r \in Present' => r \in Present /\ recent'[r].product = recent[r].product
    BY <1>4
  <2>3. \A m \in Members, p \in Products : RowsFor(m, p)' = RowsFor(m, p)
    BY <1>3, <1>6
  <2>4. UNCHANGED <<used, overlapped, claimers, contested>>
    BY <1>2
  <2>5. \A o \in Owners \ over :
          /\ RowsOf(o)' = RowsOf(o) /\ last'[o] = last[o]
          /\ \A r \in RowsOf(o) : recent'[r] = recent[r]
    BY <1>5, <1>7
  <2>. QED  BY <2>1, <2>2, <2>3, <2>4, <2>5 DEF TablesKeep
<1>9. /\ visits' \in [Viewers -> Visit]
      /\ \A w \in Viewers : VisitTrue(visits[w])'
      /\ GuestsApart'
  <2>1. \A w \in Viewers : visits[w].op = "claim" => OwnersKeep(visits[w], visits'[w])
    BY <1>4 DEF OwnersKeep
  <2>2. ASSUME NEW w \in Viewers
        PROVE  Overtaken(w, over)
    <3>1. visits[w] = NoVisit => Touches(visits[w]) = {}
      BY <1>3, VisitShape, TouchesIs DEF RecentTypeOK
    <3>2. visits'[w] = IF Touches(visits[w]) \cap over = {} THEN visits[w]
                       ELSE [visits[w] EXCEPT !.stale = TRUE]
      BY <1>2
    <3>3. CASE Touches(visits[w]) \cap over = {}
      BY <3>2, <3>3 DEF Overtaken
    <3>4. CASE Touches(visits[w]) \cap over # {}
      BY <3>1, <3>2, <3>4 DEF Overtaken
    <3>. QED  BY <3>3, <3>4
  <2>3. visits' = [w \in Viewers |-> visits'[w]]
    BY <1>2
  <2>. QED  BY <1>8, <2>1, <2>2, <2>3, VisitsAfter
<1>10. RecentTypeOK'
  <2>1. guests' \in [Guests -> GuestRow]
    BY <1>2, <1>3 DEF RecentTypeOK
  <2>2. recent' \in [Rows -> RecentRow \cup {NoRecent}]
    BY <1>2, <1>3 DEF RecentTypeOK
  <2>. QED  BY <1>2, <1>3, <1>7, <1>9, <2>1, <2>2 DEF RecentTypeOK
<1>11. TimesTrue'
  <2>1. clock \in Nat
    BY <1>3 DEF RecentTypeOK
  <2>. QED  BY <1>2, <1>4, <1>7, <2>1 DEF RecentInv, TimesTrue
<1>12. HistoryKept'
  BY <1>2, <1>6, <1>7 DEF RecentInv, HistoryKept
<1>13. HistoryExact'
  <2> SUFFICES ASSUME NEW o \in Owners \ overlapped', NEW p \in Products
               PROVE  ExactFor(o, p)'
    BY DEF HistoryExact, ExactFor
  <2>1. CASE o \in over
    BY <1>6, <1>7, <2>1 DEF ExactFor
  <2>2. CASE o \notin over
    <3>1. ExactFor(o, p)
      BY <1>2 DEF RecentInv, HistoryExact, ExactFor
    <3>. QED  BY <1>8, <2>2, <3>1, OthersExact
  <2>. QED  BY <2>1, <2>2
<1>. QED  BY <1>9, <1>10, <1>11, <1>12, <1>13 DEF RecentInv

-----------------------------------------------------------------------------
(***************************************************************************)
(* The commit of a claim.                                                  *)
(***************************************************************************)
\* The rows the UPDATEs and DELETEs leave.
LEMMA ClaimedIs ==
  ASSUME RecentTypeOK, NEW c \in ClaimVisit, ClaimShape(c), recent' = Claimed(c)
  PROVE  /\ recent' \in [Rows -> RecentRow \cup {NoRecent}]
         /\ Present' = Present \ c.dropped
         /\ \A r \in Present' :
              /\ recent'[r].product = recent[r].product
              /\ recent'[r].owner = IF r \in c.moved THEN c.member ELSE recent[r].owner
              /\ recent'[r].at = AtOf(c, r)
              /\ r \notin c.moved \cup c.stamped => recent'[r] = recent[r]
<1>1. /\ c.member \in Owners /\ c.stamped \subseteq Rows
      /\ \A r \in c.stamped : c.loaded[r] \in RecentRow /\ c.loaded[r].at \in 1..LastView
  BY DEF ClaimVisit, ClaimShape, Owners, RecentRow
<1>2. ASSUME NEW r \in Present \ c.dropped
      PROVE  /\ recent'[r] \in RecentRow
             /\ recent'[r].product = recent[r].product
             /\ recent'[r].owner = IF r \in c.moved THEN c.member ELSE recent[r].owner
             /\ recent'[r].at = AtOf(c, r)
             /\ r \notin c.moved \cup c.stamped => recent'[r] = recent[r]
  <2>1. PICK row, owner, at :
          /\ row = recent[r]
          /\ owner = IF r \in c.moved THEN c.member ELSE row.owner
          /\ at = IF r \in c.stamped THEN c.loaded[r].at ELSE row.at
    OBVIOUS
  <2>2. row \in RecentRow /\ r \in Rows /\ owner \in Owners /\ at \in 1..LastView
    BY <1>1, <2>1, RowShape
  <2>3. recent'[r] = [row EXCEPT !.owner = owner, !.at = at]
    BY <2>1, <2>2 DEF Claimed
  <2>4. /\ recent'[r] \in RecentRow /\ recent'[r].product = row.product
        /\ recent'[r].owner = owner /\ recent'[r].at = at
        /\ owner = row.owner /\ at = row.at => recent'[r] = row
    BY <2>2, <2>3 DEF RecentRow
  <2>. QED  BY <2>1, <2>4 DEF AtOf
<1>3. \A r \in Rows : r \in c.dropped \/ r \notin Present => recent'[r] = NoRecent
  BY DEF Claimed
<1>4. recent' = [r \in Rows |-> recent'[r]]
  BY DEF Claimed
<1>5. recent' \in [Rows -> RecentRow \cup {NoRecent}]
  <2>1. \A r \in Rows : recent'[r] \in RecentRow \cup {NoRecent}
    BY <1>2, <1>3
  <2>. QED  BY <1>4, <2>1
<1>6. Present' = Present \ c.dropped
  <2>1. \A r \in Rows : recent'[r] # NoRecent <=> r \in Present \ c.dropped
    BY <1>2, <1>3, RowShape
  <2>2. Present \subseteq Rows /\ Present' = {r \in Rows : recent'[r] # NoRecent}
    BY DEF Present
  <2>. QED  BY <2>1, <2>2
<1>. QED  BY <1>2, <1>5, <1>6

\* When the claim commits, everyone has seen what they had seen.
LEMMA SeenByClaimIs ==
  ASSUME RecentTypeOK, TimesTrue, NEW c \in ClaimVisit, last' = SeenByClaim(c)
  PROVE  /\ last' \in [Owners -> [Products -> 0..LastView]]
         /\ \A o \in Owners, p \in Products : last'[o][p] <= clock
         /\ \A o \in Owners \ {c.guest, c.member} : last'[o] = last[o]
         /\ \A p \in Products :
              /\ Brought(c, p) = {} => last'[c.guest][p] = last[c.guest][p]
                                       /\ last'[c.member][p] = last[c.member][p]
              /\ Brought(c, p) # {} => /\ last'[c.guest][p] = 0
                                       /\ last'[c.member][p] = Latest(TimesOf(c, p))
              /\ TimesOf(c, p) \subseteq 0..clock
<1>1. /\ c.guest \in Owners /\ c.member \in Owners /\ c.guest # c.member
      /\ clock \in Nat /\ clock <= LastView /\ LastView \in Nat
  BY RecentAssumption DEF ClaimVisit, Owners, RecentTypeOK
<1>2. ASSUME NEW p \in Products
      PROVE  /\ TimesOf(c, p) \subseteq 0..clock /\ TimesOf(c, p) # {}
             /\ Latest(TimesOf(c, p)) \in 0..clock
  <2>1. last[c.member][p] \in 0..clock
    BY <1>1 DEF RecentTypeOK, TimesTrue
  <2>2. \A r \in Present : recent[r].at \in 0..clock
    BY <1>1, RowShape DEF TimesTrue
  <2>3. TimesOf(c, p) \subseteq 0..clock /\ TimesOf(c, p) # {}
    BY <2>1, <2>2 DEF TimesOf
  <2>. QED  BY <1>1, <2>3, LatestIs
<1>3. \A o \in Owners, p \in Products :
        last'[o][p] = IF Brought(c, p) = {} THEN last[o][p]
                      ELSE IF o = c.member THEN Latest(TimesOf(c, p))
                      ELSE IF o = c.guest THEN 0 ELSE last[o][p]
  BY DEF SeenByClaim
<1>4. last' = [o \in Owners |-> [p \in Products |-> last'[o][p]]]
  BY DEF SeenByClaim
<1>5. \A o \in Owners, p \in Products : last[o][p] \in 0..LastView /\ last[o][p] <= clock
  BY DEF RecentTypeOK, TimesTrue
<1>6. ASSUME NEW o \in Owners, NEW p \in Products
      PROVE  last'[o][p] \in 0..LastView /\ last'[o][p] <= clock
  <2>1. last'[o][p] \in {last[o][p], Latest(TimesOf(c, p)), 0}
    BY <1>3
  <2>. QED  BY <1>1, <1>2, <1>5, <2>1
<1>7. last' \in [Owners -> [Products -> 0..LastView]]
  <2>1. \A o \in Owners : [p \in Products |-> last'[o][p]] \in [Products -> 0..LastView]
    BY <1>6
  <2>. QED  BY <1>4, <2>1
<1>8. ASSUME NEW o \in Owners \ {c.guest, c.member}
      PROVE  last'[o] = last[o]
  <2>1. last'[o] \in [Products -> 0..LastView] /\ last[o] \in [Products -> 0..LastView]
    BY <1>7 DEF RecentTypeOK
  <2>2. \A p \in Products : last'[o][p] = last[o][p]
    BY <1>3
  <2>. QED  BY <2>1, <2>2
<1>9. \A p \in Products :
        /\ Brought(c, p) = {} => last'[c.guest][p] = last[c.guest][p]
                                 /\ last'[c.member][p] = last[c.member][p]
        /\ Brought(c, p) # {} => /\ last'[c.guest][p] = 0
                                 /\ last'[c.member][p] = Latest(TimesOf(c, p))
  BY <1>1, <1>3
<1>. QED  BY <1>2, <1>6, <1>7, <1>8, <1>9

\* A claim that commits, without what it does to other requests.
ClaimEnds(c, owners) ==
    /\ c \in ClaimVisit /\ VisitTrue(c) /\ c.op = "claim" /\ c.todo = {} /\ Flushable(c)
    /\ owners = {c.guest, c.member}
                \cup {recent[r].owner : r \in (c.listed \cup c.stamped) \cap Present}
    /\ recent' = Claimed(c) /\ last' = SeenByClaim(c)
    /\ claimers' = [claimers EXCEPT ![c.guest] = @ \cup {c.member}]
    /\ contested' = IF c.rival THEN contested \cup {c.member} \cup claimers[c.guest] ELSE contested
    /\ overlapped' = IF c.stale THEN overlapped \cup owners ELSE overlapped
    /\ UNCHANGED <<guests, used, clock>>

LEMMA ClaimEndsIs ==
  ASSUME RecentInv, NEW c, NEW owners, ClaimEnds(c, owners)
  PROVE  /\ RecentTypeOK /\ TimesTrue
         /\ ClaimShape(c) /\ ClaimOwned(c) /\ ClaimKeeps(c) /\ ClaimExact(c)
         /\ c.guest \in Guests /\ c.member \in Members /\ c.guest # c.member
         /\ c.guest \in Owners /\ c.member \in Owners
         /\ c.listed = c.moved \cup c.dropped /\ c.listed \subseteq Rows /\ c.stamped \subseteq Rows
         /\ \A r \in c.moved : r \in Present /\ r \notin c.dropped
         /\ owners \subseteq Owners /\ c.guest \in owners /\ c.member \in owners
         /\ claimers' \in [Guests -> SUBSET Members] /\ contested' \subseteq Members
         /\ \A g \in Guests : claimers[g] \subseteq claimers'[g]
         /\ c.member \in claimers'[c.guest]
         /\ \A p \in Products, r \in Present : r \in c.listed =>
              (r \in Brought(c, p) <=> recent[r].product = p)
<1>1. /\ RecentTypeOK /\ TimesTrue
      /\ ClaimShape(c) /\ ClaimOwned(c) /\ ClaimKeeps(c) /\ ClaimExact(c)
      /\ c.guest \in Guests /\ c.member \in Members /\ c.listed \subseteq Rows
      /\ c.stamped \subseteq Rows
  BY DEF ClaimEnds, VisitTrue, ClaimVisit, RecentInv
<1>2. c.guest # c.member /\ c.guest \in Owners /\ c.member \in Owners
  BY <1>1, RecentAssumption DEF Owners
<1>3. /\ c.listed = c.moved \cup c.dropped
      /\ \A r \in c.moved : r \in Present /\ r \notin c.dropped
  BY <1>1 DEF ClaimEnds, ClaimShape, Flushable
<1>4. owners \subseteq Owners /\ c.guest \in owners /\ c.member \in owners
  BY <1>1, <1>2, RowShape DEF ClaimEnds
<1>5. /\ claimers' \in [Guests -> SUBSET Members] /\ contested' \subseteq Members
      /\ \A g \in Guests : claimers[g] \subseteq claimers'[g]
      /\ c.member \in claimers'[c.guest]
  BY <1>1 DEF ClaimEnds, RecentTypeOK
<1>6. \A p \in Products, r \in Present : r \in c.listed =>
        (r \in Brought(c, p) <=> recent[r].product = p)
  BY <1>1 DEF Brought, ClaimShape
<1>. QED  BY <1>1, <1>2, <1>3, <1>4, <1>5, <1>6

\* A row of an owner who is not the guest is in the claim's list only when a
\* rival claim has given it away.
LEMMA ListedAway ==
  ASSUME RecentInv, NEW c, NEW owners, ClaimEnds(c, owners),
         NEW r \in c.listed \cap Present, recent[r].owner # c.guest
  PROVE  recent[r].owner \in Members /\ recent[r].owner \in contested'
<1>1. c.rival /\ recent[r].owner \in claimers[c.guest]
  BY ClaimEndsIs DEF ClaimOwned
<1>2. claimers[c.guest] \subseteq Members /\ claimers[c.guest] \subseteq contested'
  BY <1>1, ClaimEndsIs DEF ClaimEnds, RecentTypeOK
<1>. QED  BY <1>1, <1>2

LEMMA ClaimTables ==
  ASSUME RecentInv, NEW c, NEW owners, ClaimEnds(c, owners)
  PROVE  TablesKeep(owners)
<1>1. /\ RecentTypeOK /\ TimesTrue /\ ClaimShape(c)
      /\ c.guest \in Guests /\ c.member \in Members
      /\ c.listed = c.moved \cup c.dropped
      /\ \A g \in Guests : claimers[g] \subseteq claimers'[g]
      /\ c.guest \in owners /\ c.member \in owners
  BY ClaimEndsIs
<1>2. /\ Present' = Present \ c.dropped
      /\ \A r \in Present' :
           /\ recent'[r].product = recent[r].product
           /\ recent'[r].owner = IF r \in c.moved THEN c.member ELSE recent[r].owner
           /\ r \notin c.moved \cup c.stamped => recent'[r] = recent[r]
  BY <1>1, ClaimedIs DEF ClaimEnds
<1>3. \A o \in Owners \ {c.guest, c.member} : last'[o] = last[o]
  BY <1>1, SeenByClaimIs DEF ClaimEnds
<1>4. used \subseteq used' /\ clock <= clock' /\ clock' \in 0..LastView
  BY <1>1 DEF ClaimEnds, RecentTypeOK
<1>5. contested \subseteq contested' /\ overlapped \subseteq overlapped'
  BY DEF ClaimEnds
<1>6. ASSUME NEW m \in Members, NEW p \in Products, RowsFor(m, p) # {}
      PROVE  RowsFor(m, p)' # {} \/ m \in contested'
  <2>1. PICK r \in RowsFor(m, p) : TRUE
    BY <1>6
  <2>2. r \in Present /\ recent[r].owner = m /\ recent[r].product = p /\ m # c.guest
    BY <1>1, <2>1, RecentAssumption DEF RowsFor, RowsOf
  <2>3. CASE r \in c.listed
    BY <2>2, <2>3, ListedAway
  <2>4. CASE r \notin c.listed
    <3>1. r \in RowsFor(m, p)'
      BY <1>1, <1>2, <2>2, <2>4 DEF RowsFor, RowsOf
    <3>. QED  BY <3>1
  <2>. QED  BY <2>3, <2>4
<1>7. ASSUME NEW o \in Owners \ owners
      PROVE  /\ RowsOf(o)' = RowsOf(o) /\ last'[o] = last[o]
             /\ \A r \in RowsOf(o) : recent'[r] = recent[r]
  <2>1. \A r \in RowsOf(o) : r \in Present /\ r \notin c.listed \cup c.stamped
    BY DEF RowsOf, ClaimEnds
  <2>2. \A r \in RowsOf(o) : r \in Present' /\ recent'[r] = recent[r]
    BY <1>1, <1>2, <2>1
  <2>3. ASSUME NEW r \in RowsOf(o)'
        PROVE  r \in RowsOf(o)
    <3>1. r \in Present' /\ recent'[r].owner = o /\ o # c.member
      BY <1>1 DEF RowsOf
    <3>. QED  BY <1>2, <3>1 DEF RowsOf
  <2>4. \A r \in RowsOf(o) : r \in RowsOf(o)'
    BY <2>2 DEF RowsOf
  <2>. QED  BY <1>1, <1>3, <2>2, <2>3, <2>4
<1>8. \A r \in used : r \in Present' => r \in Present /\ recent'[r].product = recent[r].product
  BY <1>2
<1>. QED  BY <1>1, <1>4, <1>5, <1>6, <1>7, <1>8 DEF TablesKeep

\* What others have listed stays with its owner, or this claim was their rival.
LEMMA ClaimOwnersKeep ==
  ASSUME RecentInv, NEW v \in Viewers, NEW owners, ClaimEnds(visits[v], owners),
         EndOver(v, owners), NEW w \in Viewers \ {v}, visits[w].op = "claim"
  PROVE  OwnersKeep(visits[w], visits'[w])
<1>1. PICK c : c = visits[v] /\ ClaimEnds(c, owners)
  OBVIOUS
<1>2. /\ Present' = Present \ c.dropped
      /\ \A r \in Present' :
           recent'[r].owner = IF r \in c.moved THEN c.member ELSE recent[r].owner
  <2>1. RecentTypeOK /\ ClaimShape(c)
    BY <1>1, ClaimEndsIs
  <2>. QED  BY <1>1, <2>1, ClaimedIs DEF ClaimEnds
<1>3. /\ c.guest \in owners /\ c.member \in claimers'[c.guest] /\ c.moved \subseteq c.listed
      /\ c.op = "claim"
  <2>1. c.op = "claim"
    BY <1>1 DEF ClaimEnds
  <2>. QED  BY <1>1, <2>1, ClaimEndsIs
<1>4. ASSUME NEW r \in visits[w].listed, r \in c.moved
      PROVE  visits'[w].rival /\ visits[w].guest = c.guest
  <2>1. visits[w].guest = c.guest
    BY <1>1, <1>3, <1>4 DEF RecentInv, GuestsApart
  <2>. QED  BY <1>1, <1>3, <2>1, EndedOver
<1>. QED  BY <1>2, <1>3, <1>4 DEF OwnersKeep

LEMMA ClaimHistoryKept ==
  ASSUME RecentInv, NEW c, NEW owners, ClaimEnds(c, owners)
  PROVE  HistoryKept'
<1>1. /\ RecentTypeOK /\ TimesTrue /\ ClaimShape(c) /\ ClaimKeeps(c)
      /\ c.guest \in Guests /\ c.member \in Members /\ c.guest # c.member
      /\ c.listed = c.moved \cup c.dropped
      /\ \A r \in c.moved : r \in Present /\ r \notin c.dropped
  BY ClaimEndsIs
<1>2. /\ Present' = Present \ c.dropped
      /\ \A r \in Present' :
           /\ recent'[r].product = recent[r].product
           /\ recent'[r].owner = IF r \in c.moved THEN c.member ELSE recent[r].owner
  BY <1>1, ClaimedIs DEF ClaimEnds
<1>3. /\ \A o \in Owners \ {c.guest, c.member} : last'[o] = last[o]
      /\ \A p \in Products :
           /\ Brought(c, p) = {} => last'[c.guest][p] = last[c.guest][p]
                                    /\ last'[c.member][p] = last[c.member][p]
           /\ Brought(c, p) # {} => last'[c.guest][p] = 0
  BY <1>1, SeenByClaimIs DEF ClaimEnds
<1>4. \A m \in Members, p \in Products :
        RowsFor(m, p) # {} => RowsFor(m, p)' # {} \/ m \in contested'
  BY ClaimTables DEF TablesKeep
<1>5. ASSUME NEW o \in Owners, NEW p \in Products, last'[o][p] > 0, last'[o][p] = last[o][p],
             o = c.guest => Brought(c, p) = {}
      PROVE  RowsFor(o, p)' # {} \/ o \in contested'
  <2>1. RowsFor(o, p) # {} \/ o \in contested
    BY <1>5 DEF RecentInv, HistoryKept
  <2>2. CASE o \in contested
    BY <2>2 DEF ClaimEnds
  <2>3. CASE o \in Members /\ RowsFor(o, p) # {}
    BY <1>4, <2>3
  <2>4. CASE o \in Guests /\ RowsFor(o, p) # {}
    <3>1. PICK r \in RowsFor(o, p) : TRUE
      BY <2>4
    <3>2. r \in Present /\ recent[r].owner = o /\ recent[r].product = p /\ o \notin Members
      BY <2>4, <3>1, RecentAssumption DEF RowsFor, RowsOf
    <3>3. r \notin c.listed
      <4>1. CASE o = c.guest
        BY <1>5, <3>2, <4>1, ClaimEndsIs
      <4>2. CASE o # c.guest
        BY <3>2, <4>2, ListedAway
      <4>. QED  BY <4>1, <4>2
    <3>4. r \in RowsFor(o, p)'
      BY <1>1, <1>2, <3>2, <3>3 DEF RowsFor, RowsOf
    <3>. QED  BY <3>4
  <2>. QED  BY <2>1, <2>2, <2>3, <2>4 DEF Owners
<1>6. ASSUME NEW p \in Products, NEW b \in Brought(c, p)
      PROVE  RowsFor(c.member, p)' # {} \/ c.member \in contested'
  <2>1. b \in c.listed /\ c.loaded[b].product = p
    BY DEF Brought
  <2>2. ASSUME NEW e \in c.moved, c.loaded[e].product = p
        PROVE  RowsFor(c.member, p)' # {}
    <3>1. e \in Present /\ recent[e].product = p /\ e \notin c.dropped
      BY <1>1, <2>2 DEF ClaimShape, Present
    <3>2. e \in RowsFor(c.member, p)'
      BY <1>2, <3>1 DEF RowsFor, RowsOf
    <3>. QED  BY <3>2
  <2>3. CASE b \in c.moved
    BY <2>1, <2>2, <2>3
  <2>4. CASE b \in c.dropped
    <3>1. \/ c.rival \/ c.member \in contested
          \/ \E e \in c.moved : c.loaded[e].product = p
          \/ RowsFor(c.member, p) # {}
      BY <1>1, <2>1, <2>4 DEF ClaimKeeps
    <3>2. c.rival \/ c.member \in contested => c.member \in contested'
      BY DEF ClaimEnds
    <3>. QED  BY <1>1, <1>4, <2>2, <3>1, <3>2
  <2>. QED  BY <1>1, <2>1, <2>3, <2>4
<1>. SUFFICES ASSUME NEW o \in Owners, NEW p \in Products, last'[o][p] > 0
              PROVE  RowsFor(o, p)' # {} \/ o \in contested'
  BY DEF HistoryKept
<1>7. CASE Brought(c, p) = {}
  BY <1>3, <1>5, <1>7
<1>8. CASE Brought(c, p) # {}
  <2>1. CASE o = c.guest
    BY <1>3, <1>8, <2>1
  <2>2. CASE o = c.member
    BY <1>6, <1>8, <2>2
  <2>3. CASE o \notin {c.guest, c.member}
    BY <1>3, <1>5, <2>3
  <2>. QED  BY <2>1, <2>2, <2>3
<1>. QED  BY <1>7, <1>8

\* A claim that was not overtaken leaves the member one row of every product.
LEMMA ClaimHistoryExact ==
  ASSUME RecentInv, NEW c, NEW owners, ClaimEnds(c, owners)
  PROVE  HistoryExact'
<1>1. /\ RecentTypeOK /\ TimesTrue /\ ClaimShape(c) /\ ClaimExact(c)
      /\ c.guest \in Guests /\ c.member \in Members /\ c.guest # c.member
      /\ c.guest \in Owners /\ c.member \in Owners
      /\ c.listed = c.moved \cup c.dropped /\ c.listed \subseteq Rows
      /\ c.stamped \subseteq Rows
      /\ \A r \in c.moved : r \in Present /\ r \notin c.dropped
      /\ owners \subseteq Owners /\ c.guest \in owners /\ c.member \in owners
  BY ClaimEndsIs
<1>2. /\ Present' = Present \ c.dropped
      /\ \A r \in Present' :
           /\ recent'[r].product = recent[r].product
           /\ recent'[r].owner = IF r \in c.moved THEN c.member ELSE recent[r].owner
           /\ recent'[r].at = AtOf(c, r)
           /\ recent'[r] \in RecentRow
  BY <1>1, ClaimedIs, RowShape DEF ClaimEnds, Present
<1>3. \A p \in Products :
        /\ Brought(c, p) = {} => last'[c.guest][p] = last[c.guest][p]
                                 /\ last'[c.member][p] = last[c.member][p]
        /\ Brought(c, p) # {} => /\ last'[c.guest][p] = 0
                                 /\ last'[c.member][p] = Latest(TimesOf(c, p))
        /\ TimesOf(c, p) \subseteq 0..clock
  BY <1>1, SeenByClaimIs DEF ClaimEnds
<1>. SUFFICES ASSUME NEW o \in Owners \ overlapped', NEW p \in Products
              PROVE  ExactFor(o, p)'
  BY DEF HistoryExact, ExactFor
<1>4. o \notin overlapped /\ (c.stale => o \notin owners)
  BY DEF ClaimEnds
<1>5. ExactFor(o, p)
  BY <1>4 DEF RecentInv, HistoryExact, ExactFor
<1>6. CASE o \notin owners
  BY <1>5, <1>6, ClaimTables, OthersExact
<1>7. CASE o \in owners
  <2>1. ~c.stale
    BY <1>4, <1>7
  <2>2. /\ c.listed = RowsOf(c.guest)
        /\ \A r \in Rows : c.loaded[r] # NoRecent => r \in RowsOf(c.guest) \cup RowsOf(c.member)
        /\ c.member \notin overlapped => \A q \in Products : OneLeft(c, q)
    BY <1>1, <2>1 DEF ClaimExact
  <2>3. o = c.guest \/ o = c.member
    <3>1. \A r \in c.listed \cup c.stamped : r \in RowsOf(c.guest) \cup RowsOf(c.member)
      BY <1>1, <2>2 DEF ClaimShape
    <3>2. \A r \in (c.listed \cup c.stamped) \cap Present : recent[r].owner \in {c.guest, c.member}
      BY <3>1 DEF RowsOf
    <3>. QED  BY <1>7, <3>2 DEF ClaimEnds
  <2>4. Brought(c, p) = RowsFor(c.guest, p) /\ Done(c, p) = Brought(c, p)
    <3>1. \A r \in c.listed : r \in Present /\ c.loaded[r].product = recent[r].product
      BY <1>1, <2>2 DEF ClaimShape, RowsOf
    <3>2. Brought(c, p) = {r \in c.listed : recent[r].product = p}
      BY <3>1 DEF Brought
    <3>. QED  BY <2>2, <3>2 DEF RowsFor, Done, Brought, ClaimEnds
  <2>5. CASE o = c.guest
    <3>1. RowsFor(o, p)' = {}
      <4> SUFFICES ASSUME NEW r \in Present', recent'[r].owner = o
                   PROVE  FALSE
        BY DEF RowsFor, RowsOf
      <4>1. r \notin c.moved /\ recent[r].owner = c.guest /\ r \in Present
        BY <1>1, <1>2, <2>5
      <4>2. r \in c.listed
        BY <2>2, <4>1 DEF RowsOf
      <4>. QED  BY <1>1, <1>2, <4>1, <4>2
    <3>2. last'[o][p] = 0
      <4>1. CASE Brought(c, p) = {}
        <5>1. last[o][p] = 0
          BY <1>5, <2>4, <2>5, <4>1 DEF ExactFor
        <5>. QED  BY <1>3, <2>5, <4>1, <5>1
      <4>2. CASE Brought(c, p) # {}
        BY <1>3, <2>5, <4>2
      <4>. QED  BY <4>1, <4>2
    <3>. QED  BY <3>1, <3>2 DEF ExactFor
  <2>6. CASE o = c.member
    <3>1. OneLeft(c, p)
      BY <1>4, <2>2, <2>6
    <3>2. RowsFor(o, p)' = MemberRows(c, p)
      <4>1. Present' = Present \ c.dropped
        BY <1>2
      <4>2. ASSUME NEW r
            PROVE  r \in RowsFor(o, p)' <=> r \in MemberRows(c, p)
        <5>1. r \in RowsFor(o, p)' <=> r \in Present' /\ recent'[r].owner = o
                                                     /\ recent'[r].product = p
          BY DEF RowsFor, RowsOf
        <5>2. r \in MemberRows(c, p) <=>
                r \in Present' /\ recent[r].product = p
                /\ (r \in c.moved \/ recent[r].owner = c.member)
          BY <4>1 DEF MemberRows
        <5>. QED  BY <1>2, <2>6, <5>1, <5>2
      <4>. QED  BY <4>2
    <3>3. CASE MemberRows(c, p) = {} /\ Done(c, p) = {} /\ last[c.member][p] = 0
      BY <1>3, <2>4, <2>6, <3>2, <3>3 DEF ExactFor
    <3>4. CASE \E e \in Rows :
                 /\ MemberRows(c, p) = {e}
                 /\ \/ AtOf(c, e) = last[c.member][p]
                    \/ \E r \in Done(c, p) : AtOf(c, e) = recent[r].at
                 /\ last[c.member][p] <= AtOf(c, e)
                 /\ \A r \in Done(c, p) : recent[r].at <= AtOf(c, e)
      <4>1. PICK e \in Rows :
              /\ MemberRows(c, p) = {e}
              /\ \/ AtOf(c, e) = last[c.member][p]
                 \/ \E r \in Done(c, p) : AtOf(c, e) = recent[r].at
              /\ last[c.member][p] <= AtOf(c, e)
              /\ \A r \in Done(c, p) : recent[r].at <= AtOf(c, e)
        BY <3>4
      <4>2. e \in Present'
        BY <3>2, <4>1 DEF RowsFor, RowsOf
      <4>3. recent'[e].at = AtOf(c, e) /\ AtOf(c, e) \in 1..LastView
        BY <1>2, <4>2 DEF RecentRow
      <4>4. last'[o][p] = AtOf(c, e)
        <5>1. CASE Brought(c, p) = {}
          BY <1>3, <2>4, <2>6, <4>1, <5>1
        <5>2. CASE Brought(c, p) # {}
          <6>1. TimesOf(c, p) = {last[c.member][p]} \cup {recent[r].at : r \in Done(c, p)}
            <7>1. Done(c, p) \subseteq Present
              BY <2>4 DEF RowsFor, RowsOf
            <7>. QED  BY <2>4, <7>1 DEF TimesOf
          <6>2. AtOf(c, e) \in TimesOf(c, p) /\ \A t \in TimesOf(c, p) : t <= AtOf(c, e)
            BY <4>1, <6>1
          <6>3. clock \in Nat /\ TimesOf(c, p) \in SUBSET (0..clock) /\ TimesOf(c, p) # {}
            BY <1>1, <1>3, <6>2 DEF RecentTypeOK
          <6>4. Latest(TimesOf(c, p)) = AtOf(c, e)
            BY <6>2, <6>3, LatestIs
          <6>. QED  BY <1>3, <2>6, <5>2, <6>4
        <5>. QED  BY <5>1, <5>2
      <4>5. last'[o][p] # 0
        BY <1>1, <4>3, <4>4 DEF RecentTypeOK
      <4>. QED  BY <3>2, <4>1, <4>3, <4>4, <4>5 DEF ExactFor
    <3>. QED  BY <3>1, <3>3, <3>4 DEF OneLeft
  <2>. QED  BY <2>3, <2>5, <2>6
<1>. QED  BY <1>6, <1>7

LEMMA ClaimCommitInv ==
  ASSUME RecentInv, NEW v \in Viewers, ClaimCommit(v)
  PROVE  RecentInv'
<1>1. PICK c, owners :
        /\ c = visits[v]
        /\ owners = {c.guest, c.member}
                    \cup {recent[r].owner : r \in (c.listed \cup c.stamped) \cap Present}
  OBVIOUS
<1>2. /\ c \in Visit /\ c \in ClaimVisit /\ VisitTrue(c) /\ RecentTypeOK /\ TimesTrue
      /\ Touches(c) = {c.guest, c.member}
  BY <1>1, VisitShape, TouchesIs DEF ClaimCommit, RecentInv, RecentTypeOK
<1>3. ClaimEnds(c, owners) /\ EndOver(v, owners)
  <2>1. /\ c.op = "claim" /\ c.todo = {} /\ Flushable(c)
        /\ recent' = Claimed(c) /\ last' = SeenByClaim(c)
        /\ claimers' = [claimers EXCEPT ![c.guest] = @ \cup {c.member}]
        /\ contested' = IF c.rival THEN contested \cup {c.member} \cup claimers[c.guest]
                        ELSE contested
        /\ NoteOverlap(v, owners) /\ EndOver(v, owners)
        /\ UNCHANGED <<guests, used, clock>>
    BY <1>1, <1>2 DEF ClaimCommit
  <2>2. overlapped' = IF c.stale THEN overlapped \cup owners ELSE overlapped
    BY <1>1, <2>1 DEF NoteOverlap
  <2>. QED  BY <1>1, <1>2, <2>1, <2>2 DEF ClaimEnds
<1>4. TablesKeep(owners)
  BY <1>3, ClaimTables
<1>5. /\ visits' \in [Viewers -> Visit]
      /\ \A w \in Viewers : VisitTrue(visits[w])'
      /\ GuestsApart'
  <2>1. ClaimEnds(visits[v], owners)
    BY <1>1, <1>3
  <2>2. \A w \in Viewers \ {v} : visits[w].op = "claim" => OwnersKeep(visits[w], visits'[w])
    BY <1>3, <2>1, ClaimOwnersKeep
  <2>. QED  BY <1>3, <1>4, <2>2, EndedOver, VisitsAfter
<1>6. /\ recent' \in [Rows -> RecentRow \cup {NoRecent}]
      /\ Present' = Present \ c.dropped
      /\ \A r \in Present' : recent'[r].at = AtOf(c, r)
  <2>1. ClaimShape(c)
    BY <1>3, ClaimEndsIs
  <2>. QED  BY <1>2, <1>3, <2>1, ClaimedIs DEF ClaimEnds
<1>7. /\ last' \in [Owners -> [Products -> 0..LastView]]
      /\ \A o \in Owners, p \in Products : last'[o][p] <= clock
  BY <1>2, <1>3, SeenByClaimIs DEF ClaimEnds
<1>8. RecentTypeOK'
  <2>1. claimers' \in [Guests -> SUBSET Members] /\ contested' \subseteq Members
    BY <1>3, ClaimEndsIs
  <2>2. overlapped' \subseteq Owners
    <3>1. owners \subseteq Owners
      BY <1>3, ClaimEndsIs
    <3>. QED  BY <1>2, <1>3, <3>1 DEF ClaimEnds, RecentTypeOK
  <2>3. UNCHANGED <<guests, used, clock>>
    BY <1>3 DEF ClaimEnds
  <2>. QED  BY <1>2, <1>5, <1>6, <1>7, <2>1, <2>2, <2>3 DEF RecentTypeOK
<1>9. TimesTrue'
  <2>1. UNCHANGED <<used, clock>>
    BY <1>3 DEF ClaimEnds
  <2>2. ASSUME NEW r \in Present'
        PROVE  recent'[r].at <= clock
    <3>1. ClaimShape(c) /\ c.stamped \subseteq Rows
      BY <1>3, ClaimEndsIs
    <3>. QED  BY <1>2, <1>6, <3>1 DEF AtOf, ClaimShape, TimesTrue
  <2>. QED  BY <1>2, <1>6, <1>7, <2>1, <2>2 DEF TimesTrue
<1>10. HistoryKept' /\ HistoryExact'
  BY <1>3, ClaimHistoryKept, ClaimHistoryExact
<1>. QED  BY <1>5, <1>8, <1>9, <1>10 DEF RecentInv

-----------------------------------------------------------------------------
(***************************************************************************)
(* The theorems.                                                           *)
(***************************************************************************)
LEMMA RecentInitInv == RecentInit => RecentInv
<1> SUFFICES ASSUME RecentInit  PROVE RecentInv
  OBVIOUS
<1>1. RecentTypeOK
  BY RecentAssumption DEF RecentInit, RecentTypeOK, Visit
<1>2. Present = {} /\ \A o, p : RowsFor(o, p) = {}
  BY DEF RecentInit, Present, RowsFor, RowsOf
<1>3. \A o \in Owners, p \in Products : last[o][p] = 0
  BY DEF RecentInit
<1>4. \A v \in Viewers : visits[v].op = "idle"
  BY DEF RecentInit, NoVisit
<1>5. TimesTrue /\ HistoryKept /\ HistoryExact
  BY <1>2, <1>3 DEF TimesTrue, HistoryKept, HistoryExact, RecentInit
<1>. QED  BY <1>1, <1>4, <1>5 DEF RecentInv, VisitTrue, GuestsApart

LEMMA RecentNextInv ==
  ASSUME RecentInv, [RecentNext]_recentVars
  PROVE  RecentInv'
<1>1. CASE UNCHANGED recentVars
  <2>1. UNCHANGED <<guests, recent, used, clock, visits, recentHistory>>
    BY <1>1 DEF recentVars
  <2>2. clock <= clock' /\ clock' \in 0..LastView
    BY <2>1 DEF RecentInv, RecentTypeOK
  <2>3. /\ GuestsApart' /\ visits' \in [Viewers -> Visit]
        /\ guests' \in [Guests -> GuestRow]
    BY <2>1 DEF RecentInv, RecentTypeOK, GuestsApart
  <2>. QED  BY <2>1, <2>2, <2>3, LocalStep
<1>2. ASSUME NEW v \in Viewers, VisitStep(v)
      PROVE  RecentInv'
  <2>1. CASE ViewRead(v)
    BY <2>1, ViewReadInv
  <2>2. CASE ViewUpdate(v)
    BY <2>2, ViewUpdateInv
  <2>3. CASE ViewInsert(v)
    BY <2>3, ViewInsertInv
  <2>4. CASE ClaimList(v)
    BY <2>4, ClaimListInv
  <2>5. CASE ClaimRow(v)
    BY <2>5, ClaimRowInv
  <2>6. CASE ClaimCommit(v)
    BY <2>6, ClaimCommitInv
  <2>7. CASE VisitLost(v)
    BY <2>7, VisitLostInv
  <2>. QED  BY <1>2, <2>1, <2>2, <2>3, <2>4, <2>5, <2>6, <2>7 DEF VisitStep
<1>3. CASE CreateGuest \/ GuestExpires
  BY <1>3, GuestStepInv
<1>4. CASE CleanGuests
  BY <1>4, CleanGuestsInv
<1>. QED  BY <1>1, <1>2, <1>3, <1>4 DEF RecentNext

\* Every reachable state satisfies the inductive invariant: what a view or a
\* claim in progress has read is still true of the tables, or the request is
\* marked as overtaken by a commit on rows of its owners.
THEOREM RecentCorrect == RecentSpec => []RecentInv
<1>1. RecentInv /\ [RecentNext]_recentVars => RecentInv'
  BY RecentNextInv
<1>. QED  BY <1>1, RecentInitInv, PTL DEF RecentSpec

\* Rows, requests and histories keep their types: an UPDATE or a claim leaves a
\* whole row of recentProduct or none.
THEOREM RecentTypeCorrect == RecentSpec => []RecentTypeOK
<1>1. RecentInv => RecentTypeOK
  BY DEF RecentInv
<1>. QED  BY <1>1, RecentCorrect, PTL

\* Through any number of views, claims and clean-ups, an owner none of whose
\* requests overlapped has exactly one row for every product seen, with the
\* time of the last view.
THEOREM HistoryIsExact == RecentSpec => []HistoryExact
<1>1. RecentInv => HistoryExact
  BY DEF RecentInv
<1>. QED  BY <1>1, RecentCorrect, PTL

\* However requests overlap, a committed view stays in the history of its owner
\* or of the member who claimed it, unless two claims of a guest overlapped.
THEOREM HistoryIsKept == RecentSpec => []HistoryKept
<1>1. RecentInv => HistoryKept
  BY DEF RecentInv
<1>. QED  BY <1>1, RecentCorrect, PTL
=============================================================================
