SPECIFICATION Spec
CONSTANTS
    a = a
    b = b
    c = c
    outer = outer
    inner = inner
    second = second
    third = third
    t1 = t1
    t2 = t2
    t3 = t3
    t4 = t4
    File = {a, b, c}
    Suite = {outer, inner, second, third}
    Test = {t1, t2, t3, t4}
    suites <- MCsuites
    tests <- MCtests
    hooks <- MChooks
    Matching = {t1, t2, t3, t4}
    Discovered <- MCDiscovered
    Worker = {w1, w2}
    Bail = TRUE
    HasTimeout = TRUE
    HasTypeTests = TRUE
    Markable = {outer, inner, t2}
    MaxModifiers = 2
    Flaky = {t4}
    MaxUpsets = 2
    None = None
INVARIANTS ProgramsAreOrderly EveryTestIsReported PassIsEarned CleanupComesLast SuccessIsEarned
PROPERTIES RunEnds
CHECK_DEADLOCK FALSE
