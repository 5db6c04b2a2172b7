---------------------------- MODULE MemberRecords ----------------------------
(***************************************************************************)
(* What a member has one of: the registration of a serial number           *)
(* (app/modules/owned_products) and the avatar (app/modules/avatars),      *)
(* whose parameters a guest keeps on the guest session.                    *)
(*                                                                         *)
(* Both are looked up first and written later.  avatar.userId is unique,   *)
(* registeredProduct has no unique constraint.  An UPDATE writes only the  *)
(* parameters that differ from the row the request had read.               *)
(***************************************************************************)
EXTENDS Naturals

CONSTANTS
    Holders,     \* members and guests
    Visitors,    \* the guests among them
    Serials,     \* serial numbers of existing products (a Product.productCode)
    Heights, Weights,
    Asks,        \* requests in progress at a time
    MaxCopies,   \* bound on the registrations of one serial
    NoBody       \* no parameters yet

ASSUME RecordsAssumption ==
    /\ Visitors \subseteq Holders
    /\ MaxCopies \in Nat
    /\ NoBody \notin [height : Heights, weight : Weights]

VARIABLES
    registered,  \* number of registrations of each member and serial
    bodies,      \* avatar row of a member, parameters of a guest
    asks         \* what each request in progress has read

VARIABLES
    doubled,     \* member and serial for which a request committed between another's look-up and insert
    sent,        \* the parameters of the last PUT or POST that succeeded
    mingled      \* holders for whom one such request overtook another

recordsVars == <<registered, bodies, asks, doubled, sent, mingled>>

Body == [height : Heights, weight : Weights]
NoAsk == [op |-> "idle"]
RegisterAsk == [op : {"register"}, holder : Holders, serial : Serials, stale : BOOLEAN]
BodyAsk ==
    [op : {"insert", "update"}, holder : Holders, read : Body \cup {NoBody},
     body : Body, stale : BOOLEAN]
Ask == {NoAsk} \cup RegisterAsk \cup BodyAsk

\* How many rows of a member have a serial: the table has no constraint on it.
Copies == 0..MaxCopies

RecordsTypeOK ==
    /\ registered \in [Holders \X Serials -> Copies]
    /\ bodies \in [Holders -> Body \cup {NoBody}]
    /\ asks \in [Asks -> Ask]
    /\ doubled \subseteq Holders \X Serials
    /\ sent \in [Holders -> Body \cup {NoBody}]
    /\ mingled \subseteq Holders

RecordsInit ==
    /\ registered = [hs \in Holders \X Serials |-> 0]
    /\ bodies = [h \in Holders |-> NoBody]
    /\ asks = [a \in Asks |-> NoAsk]
    /\ doubled = {} /\ mingled = {}
    /\ sent = [h \in Holders |-> NoBody]

Open(a, ask) == asks[a] = NoAsk /\ asks' = [asks EXCEPT ![a] = ask]

\* The request ends; those of the same kind that had read the same are stale.
Close(a, overtaken) ==
    asks' = [b \in Asks |-> IF b = a THEN NoAsk
                            ELSE IF b \in overtaken THEN [asks[b] EXCEPT !.stale = TRUE]
                            ELSE asks[b]]

\* Mutant: the look-up of the serial is left out.
UnregisteredAssumed(h, s) == TRUE

Unregistered(h, s) == registered[<<h, s>>] = 0

\* A serial that is no product's, or registered by this member, is refused.
RegisterRead(a) ==
    \E h \in Holders \ Visitors, s \in Serials :
        /\ Unregistered(h, s)
        /\ Open(a, [op |-> "register", holder |-> h, serial |-> s, stale |-> FALSE])
        /\ UNCHANGED <<registered, bodies, doubled, sent, mingled>>

RegisterInsert(a) ==
    /\ asks[a].op = "register"
    /\ LET h == asks[a].holder
           s == asks[a].serial
           alike == {b \in Asks : asks[b].op = "register" /\ asks[b].holder = h
                                                         /\ asks[b].serial = s}
       IN  /\ registered[<<h, s>>] < MaxCopies
           /\ registered' = [registered EXCEPT ![<<h, s>>] = @ + 1]
           /\ doubled' = IF asks[a].stale THEN doubled \cup {<<h, s>>} ELSE doubled
           /\ Close(a, alike)
    /\ UNCHANGED <<bodies, sent, mingled>>

\* POST /me/avatar refuses when there is a row, PUT updates it; a guest's
\* session is there and is updated.
BodyRead(a) ==
    \E h \in Holders, body \in Body :
        /\ Open(a, [op |-> IF h \in Visitors \/ bodies[h] # NoBody THEN "update" ELSE "insert",
                    holder |-> h, read |-> bodies[h], body |-> body, stale |-> FALSE])
        /\ UNCHANGED <<registered, bodies, doubled, sent, mingled>>

BodyDone(a) ==
    LET h == asks[a].holder
        alike == {b \in Asks : asks[b].op \in {"insert", "update"} /\ asks[b].holder = h}
    IN  /\ sent' = [sent EXCEPT ![h] = asks[a].body]
        /\ mingled' = IF asks[a].stale THEN mingled \cup {h} ELSE mingled
        /\ Close(a, alike)
        /\ UNCHANGED <<registered, doubled>>

\* The unique constraint on avatar.userId: the second insert fails.
AvatarInsertable(h) == bodies[h] = NoBody

AvatarInsert(a) ==
    /\ asks[a].op = "insert" /\ AvatarInsertable(asks[a].holder)
    /\ bodies' = [bodies EXCEPT ![asks[a].holder] = asks[a].body]
    /\ BodyDone(a)

\* Mutant: a parameter equal to the stored one is taken for an absent one.
ChangedHeightOnly(row, read, body) ==
    IF read = NoBody THEN body ELSE [row EXCEPT !.height = body.height]

\* The columns that differ from those read are written.
Changed(row, read, body) ==
    IF read = NoBody THEN body
    ELSE [height |-> IF body.height = read.height THEN row.height ELSE body.height,
          weight |-> IF body.weight = read.weight THEN row.weight ELSE body.weight]

BodyUpdate(a) ==
    /\ asks[a].op = "update"
    /\ bodies' = [bodies EXCEPT ![asks[a].holder] = Changed(@, asks[a].read, asks[a].body)]
    /\ BodyDone(a)

\* An insert the constraint refuses, a crash, a lost connection.
AskLost(a) ==
    /\ asks[a] # NoAsk
    /\ asks' = [asks EXCEPT ![a] = NoAsk]
    /\ UNCHANGED <<registered, bodies, doubled, sent, mingled>>

AskStep(a) ==
    \/ RegisterRead(a) \/ RegisterInsert(a)
    \/ BodyRead(a) \/ AvatarInsert(a) \/ BodyUpdate(a) \/ AskLost(a)

RecordsNext == \E a \in Asks : AskStep(a)

RecordsSpec == RecordsInit /\ [][RecordsNext]_recordsVars

-----------------------------------------------------------------------------
\* A member registers a serial once (ALREADY_REGISTERED), unless one of the
\* requests committed between the look-up and the insert of another.
RegisteredOnce ==
    \A h \in Holders, s \in Serials : registered[<<h, s>>] > 1 => <<h, s>> \in doubled

\* An avatar, or a guest's parameters, are those of the last request that
\* succeeded; only requests that overlap leave a mixture nobody sent.  The
\* unique constraint keeps two first requests of a member from mingling.
BodyAsSent ==
    \A h \in Holders : bodies[h] # sent[h] => h \in mingled
=============================================================================
