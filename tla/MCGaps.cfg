SPECIFICATION GrowthSpec
CONSTANTS
    l1 = l1
    l2 = l2
    l3 = l3
    l4 = l4
    l5 = l5
    h1 = h1
    h2 = h2
    NoValue = NoValue
    SourceIds = {A, B}
    Lines <- MCLines
    Claims <- MCClaims
    ClaimOf <- MCClaimOf
    Attribute <- MCAttribute
    Earlier <- MCEarlier
    Params <- MCParams
INVARIANT FindingsExact
