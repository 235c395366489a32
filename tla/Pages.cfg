CONSTANTS
    u1 = u1
    u2 = u2
    h1 = h1
    h2 = h2
    all = all
    some = some
    NoOne = NoOne
    Users <- MCUsers
    Households <- MCHouseholds
    Filters <- MCFilters
    MaxSteps = 3
SPECIFICATION PagesSpec
SYMMETRY MCSymmetry
INVARIANTS NothingOfAFormerUser   DeletesWhatIsShown
CHECK_DEADLOCK FALSE
