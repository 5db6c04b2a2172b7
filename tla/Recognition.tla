----------------------------- MODULE Recognition -----------------------------
(***************************************************************************)
(* Recognising a product code in a photo: app/modules/ocr and the output   *)
(* of app/providers/ocr/paddle.py.                                         *)
(*                                                                         *)
(* A text is a sequence of segments, each a sequence of characters: what   *)
(* _normalize leaves, which turns every separator into one dash between    *)
(* segments.  The provider reads the photo at most twice; a reading is the *)
(* detections it returns, with their confidence.                           *)
(***************************************************************************)
EXTENDS Integers, FiniteSets, SequencesExt

CONSTANTS
    Texts,      \* texts the provider may detect; <<>> has no letter and no digit
    Scores,     \* confidences, multiples of every number of detections
    Certain,    \* the confidence that stands for 1
    MaxDetections,
    Catalogue   \* codes of active products

ASSUME RecognitionAssumption ==
    /\ Texts # {}
    /\ Texts \subseteq Seq(Seq(STRING)) /\ Catalogue \subseteq Seq(Seq(STRING))
    /\ Certain \in Nat /\ Scores \subseteq 0..Certain
    /\ MaxDetections \in Nat
    /\ \A s \in Scores, n \in 1..MaxDetections : s % n = 0

VARIABLES
    phase,    \* step of the request, or its answer
    readings, \* of the first and of the second pass
    answer,   \* recognizedCode, <<>> if there is none
    stored    \* the photo is in temporary storage

recognitionVars == <<phase, readings, answer, stored>>

Detection == [text : Texts, score : Scores]
Readings == UNION {[1..n -> Detection] : n \in 0..MaxDetections}
Working == {"first", "second"}
Ends == {"answered", "ambiguous", "unknown", "undetected", "failed"}

RecognitionTypeOK ==
    /\ phase \in {"idle"} \cup Working \cup Ends
    /\ readings \in Seq(Readings) /\ Len(readings) <= 2
    /\ answer \in {<<>>} \cup Catalogue
    /\ stored \in BOOLEAN

RecognitionInit == phase = "idle" /\ readings = <<>> /\ answer = <<>> /\ stored = FALSE

-----------------------------------------------------------------------------
\* AMBIGUOUS_CHAR_MAP
Digit == {"0", "1", "2", "3", "4", "5", "6", "7", "8", "9"}
AsDigit(char) ==
    CASE char = "O" -> "0" [] char = "I" -> "1" [] char = "B" -> "8" [] OTHER -> char

\* Mutant: only the first character of a segment is looked up.
ReadFirst(segment) == [segment EXCEPT ![1] = AsDigit(@)]

Read(segment) == [i \in DOMAIN segment |-> AsDigit(segment[i])]
HasDigit(segment) == Range(segment) \cap Digit # {}

\* One segment that has a digit, its look-alike letters read as digits.
Alternatives(text) ==
    {[text EXCEPT ![i] = Read(@)] : i \in {j \in DOMAIN text : HasDigit(text[j])}}

\* A text as it is and with its segments joined, each with its alternatives; one
\* that nothing is left of makes no candidate, but counts in the mean.
CandidateTexts(text) ==
    LET forms == IF text = <<>> THEN {} ELSE {text, <<FlattenSeq(text)>>} IN
    forms \cup UNION {Alternatives(form) : form \in forms}

\* A detection counts as many points as its confidence.
PointsOf(reading) == UNION {{<<i, n>> : n \in 1..reading[i].score} : i \in DOMAIN reading}

\* The mean confidence of the detections, for all of them read as one text, exact
\* where the code's is a float: a tie that its rounding makes or breaks is left out.
Mean(reading) == Cardinality(PointsOf(reading)) \div Len(reading)

Sources(reading) ==
    IF reading = <<>> THEN {}
    ELSE Range(reading)
         \cup {[text |-> FlattenSeq([i \in DOMAIN reading |-> reading[i].text]),
                score |-> Mean(reading)]}

\* Mutant: a later offer of a code replaces a more confident one.
StrongestReversed(offers) ==
    {o \in offers : \A p \in offers : p.code = o.code => p.score >= o.score}

\* Of the sources that offer a code, the most confident counts.
Strongest(offers) ==
    {o \in offers : \A p \in offers : p.code = o.code => p.score <= o.score}

OffersOf(source) == {[code |-> c, score |-> source.score] : c \in CandidateTexts(source.text)}

Offers(reading) == Strongest(UNION {OffersOf(s) : s \in Sources(reading)})

Merge(first, second) == Strongest(first \cup second)

\* Candidates of active products.
Matches(offers) == {o \in offers : o.code \in Catalogue}

\* Later sort keys only order ties, which are ambiguous.
Foremost(best, matches) == \A m \in matches \ {best} : m.score < best.score

Ambiguous(matches) ==
    \E best, other \in matches :
        /\ best # other /\ best.score = other.score
        /\ \A m \in matches : m.score <= best.score

-----------------------------------------------------------------------------
\* A file that is no image is refused before it is saved.
Upload ==
    /\ phase = "idle"
    /\ phase' = "first" /\ stored' = TRUE
    /\ UNCHANGED <<readings, answer>>

\* The finally block deletes the photo on every way out.
End(result, code) == phase' = result /\ answer' = code /\ stored' = FALSE

Conclude(matches) ==
    \/ \E best \in matches : Foremost(best, matches) /\ End("answered", best.code)
    \/ Ambiguous(matches) /\ End("ambiguous", <<>>)

FirstPass ==
    /\ phase = "first"
    /\ \E reading \in Readings :
         LET matches == Matches(Offers(reading)) IN
         /\ readings' = <<reading>>
         /\ IF matches # {} THEN Conclude(matches)
            ELSE phase' = "second" /\ UNCHANGED <<answer, stored>>

SecondPass ==
    /\ phase = "second"
    /\ \E reading \in Readings :
         LET merged == Merge(Offers(readings[1]), Offers(reading))
             matches == Matches(merged)
         IN  /\ readings' = <<readings[1], reading>>
             /\ IF matches # {} THEN Conclude(matches)
                ELSE End(IF merged = {} THEN "undetected" ELSE "unknown", <<>>)

ProviderFails ==
    /\ phase \in Working
    /\ End("failed", <<>>)
    /\ UNCHANGED readings

\* A crash leaves the photo behind: only a finally block deletes it.
ProcessDies ==
    /\ phase \in Working
    /\ phase' = "failed"
    /\ UNCHANGED <<readings, answer, stored>>

NextPhoto ==
    /\ phase \in Ends
    /\ phase' = "idle" /\ readings' = <<>> /\ answer' = <<>> /\ stored' = FALSE

RecognitionNext == Upload \/ FirstPass \/ SecondPass \/ ProviderFails \/ ProcessDies \/ NextPhoto

RecognitionSpec == RecognitionInit /\ [][RecognitionNext]_recognitionVars

-----------------------------------------------------------------------------
\* The confidences with which the readings so far show a code.
ShownWith(code) ==
    {s.score : s \in {t \in UNION {Sources(r) : r \in Range(readings)} :
                          code \in CandidateTexts(t.text)}}

\* The answer is the product whose code the readings so far show with the most
\* confidence, alone with it: two products as sure as each other are never
\* decided between.
AnswerIsBest ==
    phase = "answered" =>
        \E sure \in ShownWith(answer) :
            \A code \in Catalogue \ {answer} : \A score \in ShownWith(code) : score < sure

LookAlike(seen, char) == char \in {seen, AsDigit(seen)}

\* seen shows code with letters in place of digits in one segment, in which a
\* digit is left and whose letters have no look-alikes of their own.
Misread(seen, code) ==
    /\ DOMAIN seen = DOMAIN code
    /\ \E i \in DOMAIN code :
         /\ \A j \in DOMAIN code \ {i} : seen[j] = code[j]
         /\ Len(seen[i]) = Len(code[i]) /\ HasDigit(seen[i])
         /\ Range(code[i]) \cap {"O", "I", "B"} = {}
         /\ \A k \in DOMAIN code[i] : LookAlike(seen[i][k], code[i][k])

\* A product whose code was misread in one segment is never reported missing.
MisreadRecovered ==
    phase \in {"unknown", "undetected"} =>
        \A r \in Range(readings), code \in Catalogue :
            \A d \in Range(r) : ~Misread(d.text, code)
=============================================================================
