------------------------------ MODULE CppJson -------------------------------
(***************************************************************************)
(* How Json.hpp reads and writes a string, beside Python's json at the     *)
(* other end of the wire.  Pure operators, no state.                       *)
(*                                                                         *)
(* A text is a sequence of characters, of which only the kind matters; its *)
(* JSON is, for each of them, the items it is written with: the character  *)
(* as it is in UTF-8, a backslash escape, or one or two \u codes.  Numbers *)
(* are left out: nothing in a query that the responder looks at is one.    *)
(***************************************************************************)
EXTENDS Naturals, Sequences

CONSTANT Unreadable   \* what bytes.decode() raises an exception on

(* ASCII; quote, backslash and what has a letter as its escape; other      *)
(* control characters; two bytes in UTF-8; three; four; and half of a      *)
(* surrogate pair by itself, which a Python string may hold.               *)
Chars  == {"plain", "special", "control", "accent", "wide", "astral", "lone"}
Halves == {"high", "low"}

Raw(unit)    == [form |-> "raw", of |-> unit]
Escape(unit) == [form |-> "escape", of |-> unit]
Code(unit)   == [form |-> "code", of |-> unit]

(* The JSON of a character.  json.dumps() keeps to ASCII; other programs   *)
(* may leave UTF-8 as it is, write a code for any character that one code  *)
(* can name, and escape a slash.                                           *)
Writings(c) ==
  (IF c \in {"special", "control", "lone"} THEN {} ELSE {<<Raw(c)>>})
  \cup (IF c \in {"special", "plain"} THEN {<<Escape(c)>>} ELSE {})
  \cup (IF c = "astral" THEN {<<Code("high"), Code("low")>>}
        ELSE {<<Code(u)>> : u \in IF c = "lone" THEN Halves ELSE {c}})

(* Some character is written with half a pair.                             *)
HasHalf(json) ==
  \E i \in DOMAIN json : \E k \in DOMAIN json[i] : json[i][k].of \in Halves

(* parse_string: append_utf8() makes three bytes of each half, which are   *)
(* no UTF-8.                                                               *)
CppReads(item) == IF item.of \in Halves THEN "half" ELSE item.of

(* write_string: quotes, backslashes and control characters are escaped,   *)
(* every other byte is written as it is.                                   *)
CppWrites(unit) ==
  IF unit = "special" THEN Escape(unit)
  ELSE IF unit = "control" THEN Code(unit)
  ELSE Raw(unit)

(* A string the responder parses and echoes: the qid.                      *)
Echo(json) ==
  [i \in DOMAIN json |->
     [k \in DOMAIN json[i] |-> CppWrites(CppReads(json[i][k]))]]

(* data.decode("utf-8") and json.loads(), which joins the halves of a pair *)
(* and keeps one that is by itself.                                        *)
PythonReads(json) ==
  IF \E i \in DOMAIN json : \E k \in DOMAIN json[i] : json[i][k] = Raw("half")
  THEN Unreadable
  ELSE [i \in DOMAIN json |->
          IF Len(json[i]) = 2 THEN "astral"
          ELSE IF json[i][1].of \in Halves THEN "lone" ELSE json[i][1].of]
=============================================================================
