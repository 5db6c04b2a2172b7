----------------------------- MODULE MCCatalogue -----------------------------
(***************************************************************************)
(* Instance of the smaller modules for TLC: Coordis, Paging, MemberRecords,*)
(* Recognition, Recommendations and Seeding.                               *)
(*                                                                         *)
(* They share no table, so that interleaving them would only multiply      *)
(* their states: a behaviour moves one of them, its focus, while the       *)
(* others stay where they began.                                           *)
(***************************************************************************)
EXTENDS Coordis, Paging, MemberRecords, Recognition, Recommendations, Seeding, TLC

CONSTANTS BagPicture, CoatPicture

VARIABLE focus

\* A bag in two variants, and two products with no variant, one with no picture.
MCGarments == {<<"bag", "red">>, <<"bag", "blue">>, <<"coat", "none">>, <<"scarf", "none">>}
MCPictures == {BagPicture, CoatPicture}
MCPictureOf ==
    [g \in MCGarments |-> CASE g[1] = "bag" -> BagPicture
                            [] g[1] = "coat" -> CoatPicture
                            [] OTHER -> NoPicture]

\* Codes and texts of the photos: a dash parts the segments.
A == << <<"A">> >>
Ten == << <<"1", "0">> >>
A10 == << <<"A">>, <<"1", "0">> >>
A18 == << <<"A">>, <<"1", "8">> >>
A1O == << <<"A">>, <<"1", "O">> >>
A1B == << <<"A">>, <<"1", "B">> >>
MCTexts == {<<>>, A, Ten, A10, A1O, A1B}
MCCatalogueCodes == {A10, A18}

\* Five products that complement, match and miss each other.
MCCategory == <<"bag", "apparel", "shoes", "bag", "accessory">>
MCColors == << {"black"}, {"brown", "navy"}, {"cream"}, {"black"}, {} >>
MCStyles == << {"casual"}, {"casual"}, {"formal"}, {"formal"}, {"casual"} >>
MCSeasons == << {"all"}, {}, {"all"}, {"spring"}, {"all"} >>
MCRank == <<2, 5, 1, 3, 4>>

vars == <<coordiVars, pagingVars, recordsVars, recognitionVars, recommendVars, seedVars, focus>>

\* A component out of focus has one initial state.
Init ==
    /\ CoordiInit /\ PagingInit /\ RecordsInit /\ RecognitionInit /\ RecommendInit /\ SeedInit
    /\ focus \in {"coordis", "pages", "records", "photos", "recommendations", "seeds"}
    /\ focus # "pages" => Listed = {}
    /\ focus # "recommendations" => inStock = {}
    /\ focus # "seeds" => StoreMissing

Next ==
    /\ UNCHANGED focus
    /\ \/ /\ focus = "coordis" /\ CoordiNext
          /\ UNCHANGED <<pagingVars, recordsVars, recognitionVars, recommendVars, seedVars>>
       \/ /\ focus = "pages" /\ PagingNext
          /\ UNCHANGED <<coordiVars, recordsVars, recognitionVars, recommendVars, seedVars>>
       \/ /\ focus = "records" /\ RecordsNext
          /\ UNCHANGED <<coordiVars, pagingVars, recognitionVars, recommendVars, seedVars>>
       \/ /\ focus = "photos" /\ RecognitionNext
          /\ UNCHANGED <<coordiVars, pagingVars, recordsVars, recommendVars, seedVars>>
       \/ /\ focus = "recommendations" /\ RecommendNext
          /\ UNCHANGED <<coordiVars, pagingVars, recordsVars, recognitionVars, seedVars>>
       \/ /\ focus = "seeds" /\ SeedNext
          /\ UNCHANGED <<coordiVars, pagingVars, recordsVars, recognitionVars, recommendVars>>

Spec == Init /\ [][Next]_vars

\* All take their requests from one set: TLC closes the permutations under
\* composition.
Symmetry == Permutations(Edits)

\* The tables and what requests hold of them are well typed: a thumbnail is a
\* file and an answer is a product.
TypesOK ==
    /\ CoordiTypeOK /\ PagingTypeOK /\ RecordsTypeOK
    /\ RecognitionTypeOK /\ RecommendTypeOK /\ SeedTypeOK
=============================================================================
