------------------------------- MODULE Typing -------------------------------
(***************************************************************************)
(* Somebody types a text, one character after the other: every text of at  *)
(* most MaxTyped characters is a state.                                    *)
(***************************************************************************)
EXTENDS Texts

CONSTANTS
    Keyboard,   \* the characters that may be typed
    MaxTyped    \* bound: characters in a text

VARIABLE typed

Init == typed = <<>>

Type(c) ==
    /\ Len(typed) < MaxTyped
    /\ typed' = Append(typed, c)

Next == \E c \in Keyboard : Type(c)

Spec == Init /\ [][Next]_typed
=============================================================================
