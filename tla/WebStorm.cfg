SPECIFICATION Spec
CONSTANTS
    h1 = h1
    h2 = h2
    h3 = h3
    h4 = h4
    Handlers = {h1, h2, h3}
    Concurrency = 2
    Names <- TwoNames
    Rune <- RuneOfTwo
    Phones = {"111", "222"}
    Codes = {"c1", "c2"}
    Bodies <- AnyBodies
    Budget <- Stormy
SYMMETRY Interchangeable
CHECK_DEADLOCK FALSE
INVARIANT TypeOK
INVARIANT AnswersTrue
INVARIANT TextsOwned
