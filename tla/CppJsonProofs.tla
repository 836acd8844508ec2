--------------------------- MODULE CppJsonProofs ----------------------------
(***************************************************************************)
(* What a Python client reads of the string a C++ responder echoes, for    *)
(* texts of any length and every way to write them.                        *)
(***************************************************************************)
EXTENDS CppJson, TLAPS

(* A character that is written without half a surrogate pair is one item,  *)
(* which the responder echoes as one item that reads the same.             *)
LEMMA OneItem ==
  ASSUME NEW c \in Chars, NEW w \in Writings(c),
         \A k \in DOMAIN w : w[k].of \notin Halves
  PROVE  /\ Len(w) = 1 /\ DOMAIN w = {1}
         /\ w[1].of = c /\ c \notin Halves
         /\ CppReads(w[1]) = c
         /\ CppWrites(CppReads(w[1])).of = c
         /\ CppWrites(CppReads(w[1])) # Raw("half")
<1>1. w \in {<<Raw(c)>>, <<Escape(c)>>, <<Code(c)>>}
  <2>1. CASE c = "astral"
    <3>1. w \in {<<Raw(c)>>, <<Code("high"), Code("low")>>}
      BY <2>1 DEF Writings
    <3>2. ASSUME w = <<Code("high"), Code("low")>> PROVE FALSE
      <4>1. 1 \in DOMAIN w /\ w[1] = Code("high") /\ w[1].of = "high"
        BY <3>2 DEF Code
      <4> QED
        BY <4>1 DEF Halves
    <3> QED
      BY <3>1, <3>2
  <2>2. CASE c = "lone"
    <3>1. PICK half \in Halves : w = <<Code(half)>>
      BY <2>2 DEF Writings
    <3>2. 1 \in DOMAIN w /\ w[1].of = half
      BY <3>1 DEF Code
    <3> QED
      BY <3>2
  <2>3. CASE c \notin {"astral", "lone"}
    BY <2>3 DEF Writings
  <2> QED
    BY <2>1, <2>2, <2>3
<1>2. w[1] \in {Raw(c), Escape(c), Code(c)} /\ Len(w) = 1 /\ DOMAIN w = {1}
  BY <1>1
<1>3. w[1].of = c
  BY <1>2 DEF Raw, Escape, Code
<1>4. CppReads(w[1]) = c /\ c \notin Halves
  BY <1>2, <1>3 DEF CppReads
<1>5. CppWrites(c) \in {Raw(c), Escape(c), Code(c)}
  BY DEF CppWrites
<1>6. CppWrites(c).of = c
  BY <1>5 DEF Raw, Escape, Code
<1>7. Raw("half").of = "half" /\ c # "half"
  BY DEF Raw, Chars
<1> QED
  BY <1>2, <1>3, <1>4, <1>6, <1>7

(* The client that sent a qid gets it back, whatever is in it and however  *)
(* it was written, unless some character of it was written with surrogates *)
(* (parse_string, write_string, decode).                                   *)
THEOREM EchoReadsBack ==
  ASSUME NEW text \in Seq(Chars), NEW json, DOMAIN json = DOMAIN text,
         \A i \in DOMAIN text : json[i] \in Writings(text[i]),
         ~HasHalf(json)
  PROVE  PythonReads(Echo(json)) = text
<1>1. \A i \in DOMAIN text : text[i] \in Chars
  OBVIOUS
<1>2. \A i \in DOMAIN json :
        /\ Len(json[i]) = 1 /\ DOMAIN json[i] = {1}
        /\ CppWrites(CppReads(json[i][1])).of = text[i]
        /\ CppWrites(CppReads(json[i][1])) # Raw("half")
        /\ text[i] \notin Halves
  <2>1. \A i \in DOMAIN json : \A k \in DOMAIN json[i] :
          json[i][k].of \notin Halves
    BY DEF HasHalf
  <2> QED
    BY <1>1, <2>1, OneItem
<1> DEFINE echo == Echo(json)
<1>3. /\ DOMAIN echo = DOMAIN text
      /\ \A i \in DOMAIN text :
           echo[i] = [k \in {1} |-> CppWrites(CppReads(json[i][k]))]
  BY <1>2 DEF Echo
<1>4. \A i \in DOMAIN text : /\ DOMAIN echo[i] = {1} /\ Len(echo[i]) = 1
                             /\ echo[i][1].of = text[i]
                             /\ echo[i][1] # Raw("half")
  <2> SUFFICES ASSUME NEW i \in DOMAIN text
               PROVE  /\ DOMAIN echo[i] = {1} /\ Len(echo[i]) = 1
                      /\ echo[i][1].of = text[i]
                      /\ echo[i][1] # Raw("half")
    OBVIOUS
  <2>1. /\ echo[i] = [k \in {1} |-> CppWrites(CppReads(json[i][k]))]
        /\ CppWrites(CppReads(json[i][1])).of = text[i]
        /\ CppWrites(CppReads(json[i][1])) # Raw("half")
    BY <1>2, <1>3
  <2>2. {1} = 1..1
    OBVIOUS
  <2> HIDE DEF echo
  <2>3. echo[i][1] = CppWrites(CppReads(json[i][1])) /\ DOMAIN echo[i] = 1..1
    BY <2>1, <2>2
  <2>4. Len(echo[i]) = 1
    <3>1. echo[i] = [k \in 1..1 |-> CppWrites(CppReads(json[i][k]))]
      BY <2>1, <2>2
    <3> QED
      BY <3>1
  <2> QED
    BY <2>1, <2>2, <2>3, <2>4
<1> HIDE DEF echo
<1>5. PythonReads(echo) = [i \in DOMAIN text |-> echo[i][1].of]
  <2>1. ~ \E i \in DOMAIN echo : \E k \in DOMAIN echo[i] : echo[i][k] = Raw("half")
    BY <1>3, <1>4
  <2>2. PythonReads(echo) = [i \in DOMAIN echo |->
          IF Len(echo[i]) = 2 THEN "astral"
          ELSE IF echo[i][1].of \in Halves THEN "lone" ELSE echo[i][1].of]
    BY <2>1, Zenon DEF PythonReads
  <2>3. ASSUME NEW i \in DOMAIN text PROVE Len(echo[i]) # 2
    <3>1. Len(echo[i]) = 1
      BY <1>4
    <3>2. 1 # 2
      OBVIOUS
    <3> QED
      BY <3>1, <3>2, Zenon
  <2>4. ASSUME NEW i \in DOMAIN text PROVE echo[i][1].of \notin Halves
    BY <1>2, <1>4
  <2> QED
    BY <1>3, <2>2, <2>3, <2>4
<1>6. PythonReads(echo) = [i \in DOMAIN text |-> text[i]]
  BY <1>4, <1>5
<1> QED
  BY <1>6 DEF echo

(* And where one was, pair or half, no Python client decodes the answer:   *)
(* the responder is not found (append_utf8).                               *)
THEOREM PairIsUnreadable ==
  ASSUME NEW json, HasHalf(json)
  PROVE  PythonReads(Echo(json)) = Unreadable
<1>1. PICK i \in DOMAIN json : \E k \in DOMAIN json[i] : json[i][k].of \in Halves
  BY DEF HasHalf
<1>2. PICK k \in DOMAIN json[i] : json[i][k].of \in Halves
  BY <1>1
<1>3. CppWrites(CppReads(json[i][k])) = Raw("half")
  BY <1>2 DEF CppReads, CppWrites
<1>4. k \in DOMAIN Echo(json)[i] /\ Echo(json)[i][k] = Raw("half")
        /\ i \in DOMAIN Echo(json)
  BY <1>3 DEF Echo
<1> QED
  BY <1>4 DEF PythonReads
=============================================================================
