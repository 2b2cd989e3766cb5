---------------------------- MODULE LocalNodes -----------------------------
(***************************************************************************)
(* Reading a /localnodes answer, a JSON array of strings:                  *)
(* ParseJsonStringArray of src/live_nodes.cpp.                             *)
(*                                                                         *)
(* A body is a sequence of characters: the JSON punctuation, a blank, the  *)
(* backslash, "n" (a letter that is also an escape code), "u" (one that is *)
(* an escape code of JSON but not of this parser), "newline", white space  *)
(* of JSON, and "formfeed", which JSON does not know but isspace does.     *)
(***************************************************************************)
EXTENDS Integers, Sequences, SequencesExt

Character == {"[", "]", "quote", "comma", "blank", "newline", "formfeed", "backslash", "n", "u"}

(***************************************************************************)
(* What skip_ws skips: the characters of std::isspace.                     *)
(***************************************************************************)
Blank == {"blank", "newline", "formfeed"}

(***************************************************************************)
(* The character an escape code stands for; none for an unknown code.      *)
(***************************************************************************)
Unescaped(code) ==
    CASE code \in {"quote", "backslash"} -> <<code>>
      [] code = "n" -> <<"newline">>
      [] OTHER -> <<>>

(***************************************************************************)
(* at is what the parser does next: expect the array's opening bracket     *)
(* ("Open"), a first element or the end ("First"), an element ("Element"), *)
(* the rest of a string ("Text"), an escape code ("Escape"), a comma or    *)
(* the end ("After"), nothing ("Closed"); or it has thrown.                *)
(***************************************************************************)
Parser == [at |-> "Open", out |-> <<>>, value |-> <<>>]

Threw(p) == [p EXCEPT !.at = "Threw"]

(***************************************************************************)
(* Mutant: after a comma the array may end.                                *)
(***************************************************************************)
AfterElementTrailingComma(p, ch) ==
    CASE ch = "]" -> [p EXCEPT !.at = "Closed"]
      [] ch = "comma" -> [p EXCEPT !.at = "First"]
      [] OTHER -> Threw(p)

(***************************************************************************)
(* Behind an element: the end of the array, or a comma and an element.     *)
(***************************************************************************)
AfterElement(p, ch) ==
    CASE ch = "]" -> [p EXCEPT !.at = "Closed"]
      [] ch = "comma" -> [p EXCEPT !.at = "Element"]
      [] OTHER -> Threw(p)

(***************************************************************************)
(* Where an element begins; the first may be the end instead.              *)
(***************************************************************************)
BeforeElement(p, ch) ==
    CASE ch = "quote" -> [p EXCEPT !.at = "Text", !.value = <<>>]
      [] ch = "]" /\ p.at = "First" -> [p EXCEPT !.at = "Closed"]
      [] OTHER -> Threw(p)

(***************************************************************************)
(* Inside a string: its end, a backslash or a character taken as it is.    *)
(***************************************************************************)
InText(p, ch) ==
    CASE ch = "quote" -> [p EXCEPT !.at = "After", !.out = Append(@, p.value), !.value = <<>>]
      [] ch = "backslash" -> [p EXCEPT !.at = "Escape"]
      [] OTHER -> [p EXCEPT !.value = Append(@, ch)]

InEscape(p, ch) ==
    IF Unescaped(ch) = <<>> THEN Threw(p)
    ELSE [p EXCEPT !.at = "Text", !.value = @ \o Unescaped(ch)]

ParseCharacter(p, ch) ==
    CASE p.at = "Threw" -> p
      [] p.at = "Text" -> InText(p, ch)
      [] p.at = "Escape" -> InEscape(p, ch)
      [] p.at \notin {"Threw", "Text", "Escape"} /\ ch \in Blank -> p
      [] p.at = "Open" /\ ch \notin Blank ->
            IF ch = "[" THEN [p EXCEPT !.at = "First"] ELSE Threw(p)
      [] p.at \in {"First", "Element"} /\ ch \notin Blank -> BeforeElement(p, ch)
      [] p.at = "After" /\ ch \notin Blank -> AfterElement(p, ch)
      [] OTHER -> Threw(p)

(***************************************************************************)
(* The strings of the array, or throws: a body that ends before the array  *)
(* does is refused.                                                        *)
(***************************************************************************)
ParseJsonStringArray(body) ==
    LET p == FoldLeft(ParseCharacter, Parser, body)
    IN  [throws |-> p.at # "Closed", nodes |-> IF p.at = "Closed" THEN p.out ELSE <<>>]
=============================================================================
