---------------------------- MODULE MCTextEntry ----------------------------
(***************************************************************************)
(* Whatever somebody types, taken for a phone number and for an access     *)
(* code.                                                                   *)
(***************************************************************************)
EXTENDS PhoneEntry, CodeEntry

OneDigit == <<"1">>
TwoDigits == <<"1", "0">>
=============================================================================
