\* A monthly limit over an endless time: see MCCalendar.
SPECIFICATION Spec
CONSTANTS
    U64 = 16
    SecondsPerDay = 1
    SecondsPerMonth = 2
    Address = "bot"
    LimitDenom = "axlusdc"
    Amount = 2
    Multiples <- MCMultiples
INVARIANT OnTheDot
PROPERTIES
    ComesBack
    OneMonthAtMost
