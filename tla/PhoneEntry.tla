----------------------------- MODULE PhoneEntry -----------------------------
(***************************************************************************)
(* What normalisation promises of whatever is typed.                       *)
(***************************************************************************)
EXTENDS PhoneNumbers, Typing

IDD == <<"0", "0">>
Trunk == <<"0">>

\* A national number without its trunk prefix.
Bare(number) == IsDigit(number) /\ number[1] # "0"

(***************************************************************************)
(* A number is normalised when it reaches the API (calls.py:55) and once   *)
(* more when it is dialled (plivo_call_service.py:84): the second pass     *)
(* must not touch it.                                                      *)
(***************************************************************************)
NormalizedOnce ==
    LET number == NormalizePhoneNumber(typed)
    IN  number # Invalid => NormalizePhoneNumber(number) = number

(***************************************************************************)
(* The ways to write a number agree, invalid ones included, and so do the  *)
(* separators put anywhere: or the caller's own number in another spelling *)
(* would pass the comparison at plivo_call_service.py:91.  A bare number   *)
(* may also be read as one that carries the country code, but not if that  *)
(* would leave it no subscriber number: national numbers that short are    *)
(* never swallowed.                                                        *)
(***************************************************************************)
SpellingsAgree ==
    Bare(typed) =>
        LET number == NormalizePhoneNumber(<<"+">> \o CountryCode \o typed)
        IN  /\ NormalizePhoneNumber(typed) \in {number, NormalizePhoneNumber(<<"+">> \o typed)}
            /\ \/ Len(typed) <= Len(CountryCode) + MinSubscriberDigits
               \/ ~StartsWith(typed, CountryCode)
               => NormalizePhoneNumber(typed) = number
            /\ NormalizePhoneNumber(IDD \o CountryCode \o typed) = number
            /\ NormalizePhoneNumber(Trunk \o typed) = number
            /\ \A i \in 1..Len(typed) :
                  NormalizePhoneNumber(Trunk \o InsertAt(typed, i, "-")) = number

(***************************************************************************)
(* What is logged of an accepted number hides all of a subscriber number   *)
(* but four digits, three digits for the 7 of the code                     *)
(* (phone_numbers.py:72, "safe logging").                                  *)
(***************************************************************************)
MaskHides ==
    LET number == NormalizePhoneNumber(typed)
        masked == MaskPhoneNumber(number)
    IN  number # Invalid =>
            /\ Len(masked) = Len(number)
            /\ Cardinality({i \in 1..Len(number) : masked[i] = "*"}) >= MinSubscriberDigits - 4
=============================================================================
