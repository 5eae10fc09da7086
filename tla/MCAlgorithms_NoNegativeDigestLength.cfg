CONSTANT Upper <- MCUpper
CONSTANTS DigestSize = 2
          IvSize = 1
          ShNone = ShNone
SPECIFICATION Spec
INVARIANT NoNegativeDigestLength
