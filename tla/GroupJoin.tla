----------------------------- MODULE GroupJoin -----------------------------
(***************************************************************************)
(* Joining a secure Trutella group (src/samples/trutella/trut.cpp):        *)
(* JoinGroup, the search for /secure/G/key it broadcasts, the peers'       *)
(* HandleSearchRequest that answers it from their collections, the reader  *)
(* thread's HandleSearchResponse and FindKey callback that fetch the key   *)
(* with Get, and the GetThread's FetchKey callback that installs it.       *)
(*                                                                         *)
(* One group name G; every node is connected to every other by one TCP     *)
(* connection (AddHost / PortThread), modelled as a FIFO channel in each   *)
(* direction.  Each node runs a console thread (JoinGroup, which sleeps    *)
(* while replies arrive), one reader thread per connection (HostThread)    *)
(* and one thread per key download (GetThread).  The group key is a model  *)
(* value; a collection entry /secure/G/key is represented by the key it    *)
(* holds.  The RSA-sealed key download and the mutual authentication that  *)
(* precedes it are modelled in MutualAuth; here a Get either reaches a     *)
(* server that holds the group key, or fails (connection or handshake      *)
(* failure, 404).                                                          *)
(***************************************************************************)
EXTENDS Naturals, Sequences, FiniteSets

CONSTANTS
    Nodes,      \* peers running Trut
    Keys,       \* group keys PTP::Key's constructor may generate
    NoKey,      \* m_key == NULL
    MaxJoins    \* JoinGroup calls per node

VARIABLES
    grp,        \* grp[n]: n's m_groups holds a Group for G
    key,        \* key[n]: that group's m_key
    responses,  \* responses[n]: its m_responses
    jpc,        \* jpc[n]: where n's JoinGroup call is ("idle", "sleep", "create")
    joins,      \* joins[n]: JoinGroup calls made by n
    searches,   \* searches[n]: guids in n's m_searches (the key searches of G)
    entries,    \* entries[n]: keys of the /secure/G/key entries in n's m_collect
    chan,       \* chan[<<a, b>>]: packets in flight on the connection from a to b
    rd,         \* rd[<<b, a>>]: "key" entries of the reply b's reader of a is delivering
    gets,       \* GetThreads in flight: [node, key]
    reported,   \* reported[n]: status of the last join callback at n, or "none"
    awaiting,   \* awaiting[n]: n's last JoinGroup call has had no callback yet
    fresh,      \* fresh[n]: that call started with no key
    created     \* keys generated by JoinGroup (history)

vars == <<grp, key, responses, jpc, joins, searches, entries, chan, rd, gets,
          reported, awaiting, fresh, created>>

Links == {l \in Nodes \X Nodes : l[1] # l[2]}

Guids == Nodes \X (1 .. MaxJoins)

\* A SEARCH_REQUEST for /secure/G/key and its SEARCH_RESPONSE.
Rqst(g) == [type |-> "rqst", guid |-> g]
Resp(g, ks) == [type |-> "resp", guid |-> g, keys |-> ks]

Msgs == {Rqst(g) : g \in Guids} \cup
        [type : {"resp"}, guid : Guids, keys : SUBSET Keys \ {{}}]

Status == {"JOIN_OK", "JOIN_CREATED", "JOIN_ERROR"}

TypeOK ==
    /\ grp \in [Nodes -> BOOLEAN]
    /\ key \in [Nodes -> Keys \cup {NoKey}]
    /\ responses \in [Nodes -> Nat]
    /\ jpc \in [Nodes -> {"idle", "sleep", "create"}]
    /\ joins \in [Nodes -> 0 .. MaxJoins]
    /\ searches \in [Nodes -> SUBSET Guids]
    /\ entries \in [Nodes -> SUBSET Keys]
    /\ chan \in [Links -> Seq(Msgs)]
    /\ rd \in [Links -> SUBSET Keys]
    /\ gets \subseteq [node : Nodes, key : Keys]
    /\ reported \in [Nodes -> Status \cup {"none"}]
    /\ awaiting \in [Nodes -> BOOLEAN]
    /\ fresh \in [Nodes -> BOOLEAN]
    /\ created \subseteq Keys

Init ==
    /\ grp = [n \in Nodes |-> FALSE]
    /\ key = [n \in Nodes |-> NoKey]
    /\ responses = [n \in Nodes |-> 0]
    /\ jpc = [n \in Nodes |-> "idle"]
    /\ joins = [n \in Nodes |-> 0]
    /\ searches = [n \in Nodes |-> {}]
    /\ entries = [n \in Nodes |-> {}]
    /\ chan = [l \in Links |-> <<>>]
    /\ rd = [l \in Links |-> {}]
    /\ gets = {}
    /\ reported = [n \in Nodes |-> "none"]
    /\ awaiting = [n \in Nodes |-> FALSE]
    /\ fresh = [n \in Nodes |-> FALSE]
    /\ created = {}

\* (*group->m_join)(group, status, group->m_context) at node n.
Report(n, status) ==
    /\ reported' = [reported EXCEPT ![n] = status]
    /\ awaiting' = [awaiting EXCEPT ![n] = FALSE]

(***************************************************************************)
(* Search(keyname, FindKey, group, NULL) at n: the new guid g is recorded  *)
(* in m_searches, and the request is written to every host while m_hosts   *)
(* is locked.                                                              *)
(***************************************************************************)
Search(n, g) ==
    /\ searches' = [searches EXCEPT ![n] = @ \cup {g}]
    /\ chan' = [l \in Links |->
                  IF l[1] = n THEN Append(chan[l], Rqst(g)) ELSE chan[l]]

\* SearchStop(group) at n: every search whose context is the group goes.
SearchStop(n) == searches' = [searches EXCEPT ![n] = {}]

(***************************************************************************)
(* JoinGroup up to its Sleep.  With no group, or a group that already has *)
(* a key, it (re)creates the group, resets m_responses, records a search  *)
(* for /secure/G/key with FindKey as callback and sends it to every host  *)
(* (Search), then sleeps.  A group without a key (a join in progress or   *)
(* one whose key fetch failed) is answered at once with JOIN_OK.          *)
(***************************************************************************)
JoinStart(n) ==
    /\ jpc[n] = "idle"
    /\ joins[n] < MaxJoins
    /\ joins' = [joins EXCEPT ![n] = @ + 1]
    /\ IF ~grp[n] \/ key[n] # NoKey
       THEN LET g == <<n, joins[n] + 1>> IN
            /\ grp' = [grp EXCEPT ![n] = TRUE]
            /\ responses' = [responses EXCEPT ![n] = 0]
            /\ Search(n, g)
            /\ jpc' = [jpc EXCEPT ![n] = "sleep"]
            /\ awaiting' = [awaiting EXCEPT ![n] = TRUE]
            /\ fresh' = [fresh EXCEPT ![n] = (key[n] = NoKey)]
            /\ UNCHANGED <<key, entries, rd, gets, reported, created>>
       ELSE /\ Report(n, "JOIN_OK")
            /\ fresh' = [fresh EXCEPT ![n] = FALSE]
            /\ UNCHANGED <<grp, key, responses, jpc, searches, entries, chan,
                           rd, gets, created>>

(***************************************************************************)
(* JoinGroup after Sleep(wait): if the key arrived or some reply was seen  *)
(* (m_responses > 0) it returns without a callback; otherwise it goes on   *)
(* to create the key.                                                      *)
(***************************************************************************)
JoinWake(n) ==
    /\ jpc[n] = "sleep"
    /\ jpc' = [jpc EXCEPT ![n] = IF key[n] # NoKey \/ responses[n] > 0
                                 THEN "idle" ELSE "create"]
    /\ UNCHANGED <<grp, key, responses, joins, searches, entries, chan, rd,
                   gets, reported, awaiting, fresh, created>>

(***************************************************************************)
(* The rest of JoinGroup: SearchStop(group) drops every search of G, a    *)
(* fresh PTP::Key becomes m_key, is exported into a /secure/G/key entry   *)
(* of the collection, and the callback reports JOIN_CREATED.              *)
(***************************************************************************)
JoinCreate(n) ==
    /\ jpc[n] = "create"
    /\ \E k \in Keys \ created :
         /\ key' = [key EXCEPT ![n] = k]
         /\ entries' = [entries EXCEPT ![n] = @ \cup {k}]
         /\ created' = created \cup {k}
    /\ SearchStop(n)
    /\ jpc' = [jpc EXCEPT ![n] = "idle"]
    /\ Report(n, "JOIN_CREATED")
    /\ UNCHANGED <<grp, responses, joins, chan, rd, gets, fresh>>


(***************************************************************************)
(* HostThread of b reading a SEARCH_REQUEST from a (HandleSearchRequest):  *)
(* the query /secure/G/key sets key and clears group, so every entry of    *)
(* b's collection named /secure/G/key with a NULL context matches, whether *)
(* or not b is a member; with at least one match b answers on the same     *)
(* connection, each entry listed under the name "key".                     *)
(***************************************************************************)
\* Mutant: the "if (!count) return 0" is lost and an empty reply is sent.
RecvRqstAlways(a, b) ==
    /\ rd[<<b, a>>] = {}
    /\ chan[<<a, b>>] # <<>>
    /\ Head(chan[<<a, b>>]).type = "rqst"
    /\ chan' = [chan EXCEPT
                  ![<<a, b>>] = Tail(@),
                  ![<<b, a>>] = Append(@, Resp(Head(chan[<<a, b>>]).guid,
                                               entries[b]))]
    /\ UNCHANGED <<grp, key, responses, jpc, joins, searches, entries, rd,
                   gets, reported, awaiting, fresh, created>>

RecvRqst(a, b) ==
    /\ rd[<<b, a>>] = {}
    /\ chan[<<a, b>>] # <<>>
    /\ Head(chan[<<a, b>>]).type = "rqst"
    /\ chan' = [chan EXCEPT
                  ![<<a, b>>] = Tail(@),
                  ![<<b, a>>] = IF entries[b] = {} THEN @
                                ELSE Append(@, Resp(Head(chan[<<a, b>>]).guid,
                                                    entries[b]))]
    /\ UNCHANGED <<grp, key, responses, jpc, joins, searches, entries, rd,
                   gets, reported, awaiting, fresh, created>>

(***************************************************************************)
(* HostThread of b reading a SEARCH_RESPONSE from a (HandleSearchResponse):*)
(* a reply whose guid is not in m_searches is dropped; otherwise the       *)
(* search is released from the lock and its entries are handed one by one *)
(* to FindKey.  The key search has no group, so nothing is decrypted.     *)
(***************************************************************************)
RecvResp(a, b) ==
    /\ rd[<<b, a>>] = {}
    /\ chan[<<a, b>>] # <<>>
    /\ Head(chan[<<a, b>>]).type = "resp"
    /\ LET m == Head(chan[<<a, b>>]) IN
       rd' = [rd EXCEPT ![<<b, a>>] = IF m.guid \in searches[b] THEN m.keys
                                      ELSE {}]
    /\ chan' = [chan EXCEPT ![<<a, b>>] = Tail(@)]
    /\ UNCHANGED <<grp, key, responses, jpc, joins, searches, entries, gets,
                   reported, awaiting, fresh, created>>

(***************************************************************************)
(* PutThread of a serving GET /gets/G/<ref>: it answers 404 unless a has a *)
(* group G with a key; the entry found by ref is a key entry, so it is     *)
(* sent sealed to the client (the accept callback of the console admits    *)
(* every member).                                                          *)
(***************************************************************************)
ServesKey(a) == grp[a] /\ key[a] # NoKey

\* Mutant: a failed Get does not call back with GET_ERROR.
GetSilent(a, b, k) ==
    \/ /\ ServesKey(a)
       /\ gets' = gets \cup {[node |-> b, key |-> k]}
       /\ UNCHANGED <<reported, awaiting>>
    \/ UNCHANGED <<gets, reported, awaiting>>

(***************************************************************************)
(* Get(file, NULL, FetchKey, group) by b for the entry k advertised by a:  *)
(* when the authenticated request is answered with 200 and a size, a       *)
(* GetThread is started; when the connection, GetAuth or the status fails  *)
(* the callback FetchKey runs at once with GET_ERROR and reports           *)
(* JOIN_ERROR.                                                             *)
(***************************************************************************)
Get(a, b, k) ==
    \/ /\ ServesKey(a)
       /\ gets' = gets \cup {[node |-> b, key |-> k]}
       /\ UNCHANGED <<reported, awaiting>>
    \/ /\ Report(b, "JOIN_ERROR")
       /\ UNCHANGED gets

(***************************************************************************)
(* FindKey at b for one "key" entry advertised by a: while b's group has  *)
(* no key it counts the response and calls Get on the reader thread.      *)
(***************************************************************************)
FindKey(a, b, k) ==
    /\ k \in rd[<<b, a>>]
    /\ rd' = [rd EXCEPT ![<<b, a>>] = @ \ {k}]
    /\ IF key[b] = NoKey
       THEN /\ responses' = [responses EXCEPT ![b] = @ + 1]
            /\ Get(a, b, k)
       ELSE UNCHANGED <<responses, gets, reported, awaiting>>
    /\ UNCHANGED <<grp, key, jpc, joins, searches, entries, chan, fresh,
                   created>>

(***************************************************************************)
(* GetThread ending with GET_DONE: FetchKey makes the received bytes the   *)
(* group's m_key (whatever it held before), publishes them as another      *)
(* /secure/G/key entry and reports JOIN_OK.                                *)
(***************************************************************************)
FetchKey(g) ==
    /\ key' = [key EXCEPT ![g.node] = g.key]
    /\ entries' = [entries EXCEPT ![g.node] = @ \cup {g.key}]
    /\ gets' = gets \ {g}
    /\ Report(g.node, "JOIN_OK")
    /\ UNCHANGED <<grp, responses, jpc, joins, searches, chan, rd, fresh,
                   created>>

Next ==
    \/ \E n \in Nodes : JoinStart(n) \/ JoinWake(n) \/ JoinCreate(n)
    \/ \E l \in Links : RecvRqst(l[1], l[2]) \/ RecvResp(l[1], l[2])
    \/ \E l \in Links, k \in Keys : FindKey(l[1], l[2], k)
    \/ \E g \in gets : FetchKey(g)

(***************************************************************************)
(* Fairness: JoinGroup's Sleep ends; TCP delivers every packet and each    *)
(* reader thread keeps reading; a GetThread runs to its callback.          *)
(***************************************************************************)
Fairness ==
    /\ \A n \in Nodes : WF_vars(JoinWake(n)) /\ WF_vars(JoinCreate(n))
    /\ \A l \in Links : WF_vars(RecvRqst(l[1], l[2]))
                        /\ WF_vars(RecvResp(l[1], l[2]))
                        /\ WF_vars(\E k \in Keys : FindKey(l[1], l[2], k))
    /\ WF_vars(\E g \in gets : FetchKey(g))

Spec == Init /\ [][Next]_vars /\ Fairness

=============================================================================
