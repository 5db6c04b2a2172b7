--------------------------- MODULE Recommendations ---------------------------
(***************************************************************************)
(* Products that go with a product: app/modules/recommendations over       *)
(* app/providers/recommendations/rule_based.py and the product details of  *)
(* app/modules/products.                                                   *)
(*                                                                         *)
(* A request lists the first active products by name and reads the details *)
(* of each in queries of its own, so orders and restocking change the      *)
(* stock between them.  Products are numbered in the order of their names. *)
(***************************************************************************)
EXTENDS Integers, FiniteSets, Sequences, Functions

CONSTANTS
    Shown,          \* products: 1..n in the order of their names
    CategoryOf, ColorsOf, StylesOf, SeasonsOf,
    CodeRank,       \* position of each product in the order of the product codes
    CandidateLimit, \* RECOMMENDATION_CANDIDATE_LIMIT
    GuestLimit, MemberLimit,
    AskedLimits     \* limits clients ask for

ASSUME RecommendationsAssumption ==
    /\ Shown \subseteq Nat /\ IsFiniteSet(Shown)
    /\ CandidateLimit \in Nat /\ MemberLimit \in Nat /\ GuestLimit \in 1..MemberLimit
    /\ AskedLimits \subseteq Int
    /\ \A p \in Shown : CodeRank[p] \in Int
    /\ \A p, q \in Shown : CodeRank[p] = CodeRank[q] => p = q

VARIABLES
    inStock,  \* products with stock
    ask,      \* the request in progress
    listed    \* the answer

VARIABLES ever, always \* products in stock at some moment, and throughout, of the request

recommendVars == <<inStock, ask, listed, ever, always>>

NoRequest == [op |-> "idle"]
RecommendTypeOK ==
    /\ inStock \subseteq Shown
    /\ ask \in {NoRequest}
         \cup [op : {"read", "done"}, base : Shown, limit : 1..MemberLimit,
               todo : SUBSET Shown, stocked : SUBSET Shown]
    /\ listed \in Seq(Shown)
    /\ ever \subseteq Shown /\ always \subseteq Shown

RecommendInit ==
    /\ inStock \in SUBSET Shown
    /\ ask = NoRequest /\ listed = <<>>
    /\ ever = {} /\ always = {}

-----------------------------------------------------------------------------
Complements(category) ==
    CASE category = "bag"       -> {"apparel", "accessory"}
      [] category = "apparel"   -> {"bag", "accessory", "shoes"}
      [] category = "accessory" -> {"bag", "apparel"}
      [] category = "shoes"     -> {"apparel"}
      [] OTHER -> {}

Harmonies(color) ==
    CASE color = "black" -> {"black", "white", "gray", "beige", "brown"}
      [] color = "white" -> {"white", "black", "gray", "navy", "beige"}
      [] color = "gray"  -> {"gray", "black", "white", "navy"}
      [] color = "navy"  -> {"navy", "white", "gray", "beige"}
      [] color = "beige" -> {"beige", "brown", "white", "black", "navy"}
      [] color = "brown" -> {"brown", "beige", "black", "cream"}
      [] color = "cream" -> {"cream", "brown", "beige", "white"}
      [] OTHER -> {}

CategoryMatch(p, q) ==
    \/ CategoryOf[q] \in Complements(CategoryOf[p])
    \/ CategoryOf[p] \in Complements(CategoryOf[q])

Goes(colors, others) == \E c \in colors : (Harmonies(c) \cup {c}) \cap others # {}
ColorMatch(p, q) == Goes(ColorsOf[p], ColorsOf[q]) \/ Goes(ColorsOf[q], ColorsOf[p])

Points(match, weight) == IF match THEN weight ELSE 0

\* RecommendationWeights
Score(p, q) ==
    Points(CategoryMatch(p, q), 40)
    + Points(StylesOf[p] \cap StylesOf[q] # {}, 30)
    + Points(ColorMatch(p, q), 20)
    + Points(SeasonsOf[p] \cap SeasonsOf[q] # {}, 10)

\* Mutant: scores are sorted in ascending order.
AheadAscending(base, p, q) ==
    \/ Score(base, p) < Score(base, q)
    \/ Score(base, p) = Score(base, q) /\ CodeRank[p] < CodeRank[q]

\* A higher score first, then the order of the product codes.
Ahead(base, p, q) ==
    \/ Score(base, p) > Score(base, q)
    \/ Score(base, p) = Score(base, q) /\ CodeRank[p] < CodeRank[q]

Matching(base, candidates) == {p \in candidates : Score(base, p) > 0}

\* Its enumeration in which every product is ahead of the later ones.
Rank(base, candidates) ==
    LET places == 1..Cardinality(Matching(base, candidates)) IN
    CHOOSE ranked \in [places -> Matching(base, candidates)] :
        \A i, j \in places : i < j => Ahead(base, ranked[i], ranked[j])

\* The first products by name, without the one asked about.
Considered(base) ==
    {p \in Shown \ {base} :
        Cardinality({q \in Shown \ {base} : q < p}) < CandidateLimit}

Effective(kind, limit) ==
    LET most == IF kind = "member" THEN MemberLimit ELSE GuestLimit
        asked == IF limit < 1 THEN 1 ELSE limit
    IN  IF asked < most THEN asked ELSE most

-----------------------------------------------------------------------------
AskRecommendations ==
    /\ ask = NoRequest
    /\ \E base \in Shown, limit \in AskedLimits, kind \in {"member", "guest"} :
         ask' = [op |-> "read", base |-> base, limit |-> Effective(kind, limit),
                 todo |-> Considered(base), stocked |-> {}]
    /\ ever' = inStock /\ always' = inStock
    /\ UNCHANGED <<inStock, listed>>

\* The details of the next product, in the order of the names.
ReadDetails ==
    /\ ask.op = "read"
    /\ \E p \in ask.todo :
         /\ \A other \in ask.todo : p <= other
         /\ ask' = [ask EXCEPT !.todo = @ \ {p},
                               !.stocked = IF p \in inStock THEN @ \cup {p} ELSE @]
    /\ UNCHANGED <<inStock, listed, ever, always>>

Recommend ==
    /\ ask.op = "read" /\ ask.todo = {}
    /\ LET ranked == Rank(ask.base, ask.stocked) IN
         listed' = SubSeq(ranked, 1, IF Len(ranked) < ask.limit THEN Len(ranked) ELSE ask.limit)
    /\ ask' = [ask EXCEPT !.op = "done"]
    /\ UNCHANGED <<inStock, ever, always>>

Answered ==
    /\ ask.op = "done"
    /\ ask' = NoRequest /\ listed' = <<>> /\ ever' = {} /\ always' = {}
    /\ UNCHANGED inStock

\* An order takes the last piece of a product, or the seed script restocks it.
StockChanges ==
    \E p \in Shown :
        /\ inStock' = IF p \in inStock THEN inStock \ {p} ELSE inStock \cup {p}
        /\ IF ask.op = "read" THEN ever' = ever \cup inStock' /\ always' = always \cap inStock'
                              ELSE UNCHANGED <<ever, always>>
        /\ UNCHANGED <<ask, listed>>

RecommendNext == AskRecommendations \/ ReadDetails \/ Recommend \/ Answered \/ StockChanges

RecommendSpec == RecommendInit /\ [][RecommendNext]_recommendVars

-----------------------------------------------------------------------------
\* However the stock moves while the details are read, the list keeps to its
\* limit with the best first, a recommended product was in stock during the
\* request and has something in common with the base, nothing is listed twice,
\* and a candidate in stock throughout is left out only when the list is full
\* of products at least as good; a product matches another whenever the other
\* matches it.
RecommendsBest ==
    ask.op = "done" =>
        LET names == Range(listed) IN
        /\ Len(listed) = Cardinality(names) /\ Len(listed) <= ask.limit
        /\ \A i, j \in DOMAIN listed :
             i < j => Score(ask.base, listed[i]) >= Score(ask.base, listed[j])
        /\ names \subseteq ever \ {ask.base}
        /\ \A p \in names : Score(ask.base, p) > 0 /\ Score(p, ask.base) = Score(ask.base, p)
        /\ \A p \in (Considered(ask.base) \cap always) \ names :
             Score(ask.base, p) > 0 =>
                /\ Len(listed) = ask.limit
                /\ \A q \in names : Score(ask.base, q) >= Score(ask.base, p)
=============================================================================
