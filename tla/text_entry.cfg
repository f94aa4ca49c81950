SPECIFICATION Spec
CONSTANTS
    CountryCode <- OneDigit
    MinSubscriberDigits = 5
    MaxE164Digits = 7
    Code <- TwoDigits
    Keyboard = {"+", "0", "1", "#", " "}
    MaxTyped = 8
INVARIANTS
    NormalizedOnce
    SpellingsAgree
    MaskHides
    AcceptsExactly
    OwnCodeAccepted
CHECK_DEADLOCK FALSE
