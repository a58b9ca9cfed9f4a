SPECIFICATION Spec
CONSTANTS
    Vars = {a, b, c}
    a = a
    b = b
    c = c
    Prop = Prop
    Page = Page
    MaxReads = 3
SYMMETRY Symmetry
INVARIANTS
    SignalsAreWhatThePageShows
    ShownDerivationsAreComputed
CHECK_DEADLOCK FALSE
