CONSTANTS
    n1 = n1
    n2 = n2
    n3 = n3
    k1 = k1
    k2 = k2
    k3 = k3
    k4 = k4
    Nodes <- MCNodes2
    Keys <- MCKeys
    NoKey = NoKey
    MaxJoins = 2
SPECIFICATION Spec
INVARIANT TypeOK
PROPERTY FreshJoinAnswered
\* The system stops once every node has made its MaxJoins calls and every
\* packet and download is done; the threads then block in Read and Accept.
CHECK_DEADLOCK FALSE
