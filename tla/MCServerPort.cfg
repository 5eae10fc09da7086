CONSTANTS
    c = c
    m = m
    u = u
    Clients <- MCClients
    Trusted <- MCTrusted
    Admitted <- MCAdmitted
    KeyEntry = KeyEntry
    GroupFile = GroupFile
    PublicFile = PublicFile
    NoId = NoId
    MaxConns = 3
SPECIFICATION Spec
INVARIANT TypeOK
 
\* Clients stop connecting after MaxConns; the accept loop then blocks in
\* Accept and the PutThreads have exited.
CHECK_DEADLOCK FALSE
