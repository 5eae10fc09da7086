---------------------------- MODULE MCServerPort ----------------------------
(***************************************************************************)
(* Model-checking instance of ServerPort: a member c whose certificate is  *)
(* trusted and whom the accept callback admits, a peer m whose certificate *)
(* is trusted but who is not admitted to G, and a peer u the store does    *)
(* not know.                                                               *)
(***************************************************************************)
EXTENDS ServerPort

CONSTANTS c, m, u

MCClients == {c, m, u}
MCTrusted == {c, m}
MCAdmitted == {c}

\* p can read entry e from what was written to p's connections.
Learns(p, e) ==
    \E s \in sent :
        /\ s.to = p
        /\ s.item \in {Plain(e), Sealed(p, e)}

\* The connections up to the x-th on which client p sent kind k, and the
\* second-round ones among them that PutAuth handed to a PutThread.
SentUpTo(p, k, x) == {y \in 1 .. x : conns[y].client = p /\ conns[y].rq.kind = k}
AuthedUpTo(p, x) == {y \in SentUpTo(p, "gets2", x) : threads[y].pc # "none"}

KeySecrecy ==
    \A p \in Clients : Learns(p, KeyEntry) => p \in Admitted

(***************************************************************************)
(* A GET /gets/ request is answered only on a connection whose client     *)
(* passed PutAuth, i.e. whose certificate is in the store: the PutThread   *)
(* serving a connection is the one started for it.                         *)
(***************************************************************************)
GetsNeedAuth ==
    \A s \in sent : conns[s.conn].rq.kind = "gets2" => s.to \in Trusted
====
