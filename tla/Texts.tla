------------------------------- MODULE Texts -------------------------------
(***************************************************************************)
(* Python strings as sequences of one-character strings, and the methods   *)
(* of `str' the code uses on numbers and codes.                            *)
(***************************************************************************)
EXTENDS Integers, SequencesExt

Digits == {"0", "1", "2", "3", "4", "5", "6", "7", "8", "9"}
Spaces == {" "}

\* s.lstrip(chars)
LStrip(s, chars) ==
    LET first == SelectInSeq(s, LAMBDA c : c \notin chars)
    IN  IF first = 0 THEN <<>> ELSE SubSeq(s, first, Len(s))

\* s.strip(chars)
Strip(s, chars) ==
    LET last == SelectLastInSeq(s, LAMBDA c : c \notin chars)
    IN  LStrip(SubSeq(s, 1, last), chars)

\* re.sub("[^chars]", "", s): what is left keeps its order.
Kept(s, chars) ==
    LET kept == {i \in 1..Len(s) : s[i] \in chars}
        place == [i \in kept |-> Cardinality({j \in kept : j <= i})]
    IN  [n \in 1..Cardinality(kept) |-> s[CHOOSE i \in kept : place[i] = n]]

\* s.isdigit()
IsDigit(s) == s # <<>> /\ ToSet(s) \subseteq Digits

\* s.startswith(prefix)
StartsWith(s, prefix) == IsPrefix(prefix, s)
=============================================================================
