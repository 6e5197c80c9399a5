CONSTANTS
    Threads = {t1, t2}
    foxy = foxy
    newcomer = newcomer
    right = right
    wrong = wrong
    NoName = NoName
    NoPassword = NoPassword
    None = None
    Forged = Forged
    Names <- MCNames
    Passwords <- MCPasswords
    Defaults <- MCDefaults
    Calls <- MCCalls
    TIME_TO_LIVE = 1
    MaxClock = 2
    MaxOpen = 1

SPECIFICATION Spec

SYMMETRY MCSymmetry

INVARIANTS
    TypeOK
    OneAccountPerName
    WelcomeMeansAccount
    LoginNeedsAccount
    RightPasswordIsAccepted

PROPERTIES
    PrivateMeansLogin
    ImplementsBook

CHECK_DEADLOCK FALSE
