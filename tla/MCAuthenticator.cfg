CONSTANTS
    i1 = i1
    i2 = i2
    n1 = n1
    n2 = n2
    Ids <- MCIds
    Contexts <- MCIds
    Nonces <- MCNonces
    Expire <- MCExpire
    Forged = Forged
    NoContext = NoContext
    MaxTime = 3
SPECIFICATION Spec
INVARIANT TypeOK
PROPERTY AbsSpec
