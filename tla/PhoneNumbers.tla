---------------------------- MODULE PhoneNumbers ----------------------------
(***************************************************************************)
(* Phone numbers as people type them and as Plivo wants them               *)
(* (app/core/phone_numbers.py).  A number is a text; an invalid one, for   *)
(* which the code raises InvalidPhoneNumberError, is the empty text, which *)
(* no valid one normalises to.                                             *)
(***************************************************************************)
EXTENDS Texts

CONSTANTS
    CountryCode,          \* settings.default_country_code
    MinSubscriberDigits,  \* 7 in the code
    MaxE164Digits         \* 15 in the code

ASSUME PhoneAssumption ==
    /\ CountryCode \in Seq(Digits)
    /\ MinSubscriberDigits \in Nat
    /\ MaxE164Digits \in Nat

Invalid == <<>>

\* re.sub("[^\d+]", "", raw)
Clean(raw) == Kept(raw, Digits \cup {"+"})

\* Bug: the plus sign is dropped like any other separator.
HasPlusForgotten(cleaned) == FALSE

HasPlus(cleaned) == StartsWith(cleaned, <<"+">>)

\* A national number in trunk format: leading zeros are dropped.
National(digits) == CountryCode \o LStrip(digits, {"0"})

\* Bug: off by one, a subscriber number may be too short.
CarriesCountryCodeShort(digits) ==
    /\ StartsWith(digits, CountryCode)
    /\ Len(digits) >= Len(CountryCode) + MinSubscriberDigits

\* A bare number that already starts with the country code: long enough for a
\* subscriber to follow it.
CarriesCountryCode(digits) ==
    /\ StartsWith(digits, CountryCode)
    /\ Len(digits) > Len(CountryCode) + MinSubscriberDigits

Internationalised(has_plus, digits) ==
    CASE has_plus -> digits
      [] ~has_plus /\ StartsWith(digits, <<"0", "0">>) -> SubSeq(digits, 3, Len(digits))
      [] ~has_plus /\ StartsWith(digits, <<"0">>) /\ ~StartsWith(digits, <<"0", "0">>)
            -> National(digits)
      [] ~has_plus /\ ~StartsWith(digits, <<"0">>) /\ CarriesCountryCode(digits) -> digits
      [] OTHER -> CountryCode \o digits

\* Bug: the shortest number allowed is one digit shorter.
ValidLengthShort(digits) == MinSubscriberDigits <= Len(digits) /\ Len(digits) <= MaxE164Digits

ValidLength(digits) == MinSubscriberDigits < Len(digits) /\ Len(digits) <= MaxE164Digits

NormalizePhoneNumber(raw) ==
    LET cleaned == Clean(Strip(raw, Spaces))
        digits == LStrip(cleaned, {"+"})
        normalized == Internationalised(HasPlus(cleaned), digits)
    IN  IF IsDigit(digits) /\ ValidLength(normalized)
        THEN <<"+">> \o normalized ELSE Invalid

ToPlivoFormat(e164) == LStrip(e164, {"+"})

\* Redacted for the logs: the first four characters and the last two stay.
MaskPhoneNumber(e164) ==
    [i \in 1..Len(e164) |->
        IF Len(e164) > 5 /\ (i <= 4 \/ i > Len(e164) - 2) THEN e164[i] ELSE "*"]
=============================================================================
