----------------------------- MODULE ServerPort -----------------------------
(***************************************************************************)
(* The serving side of one Trutella node (src/samples/trutella/trut.cpp):  *)
(* the accept loop PortThread, which runs PutAuth inline and hands each   *)
(* authenticated HTTP connection to a PutThread through the address of its *)
(* loop-local PutContext, and PutThread, which answers GET /get/<ref> and  *)
(* GET /gets/G/<ref> from the collection.                                  *)
(*                                                                         *)
(* The node is a member of one group G whose key is published as the data *)
(* entry /secure/G/key; its collection also holds a file shared with G and *)
(* a public file.  Clients open connections and send one request each:     *)
(* a plain /get/, the first round of the secure handshake (Identity, which *)
(* is answered 401 with a challenge), or the second round (Response and    *)
(* Challenge), which PutAuth accepts when Verify finds the response to a   *)
(* pending challenge.  Only the holder of an identity's private key can    *)
(* answer a challenge sealed to it (MCAuthenticator checks this of         *)
(* Authenticator), so a second round from client p verifies exactly when  *)
(* p is in the store and has a pending challenge.                          *)
(***************************************************************************)
EXTENDS Naturals, Sequences, FiniteSets

CONSTANTS
    Clients,    \* peers that connect to the port
    Trusted,    \* clients whose certificates are in the node's store
    Admitted,   \* clients G's accept callback admits
    KeyEntry,   \* the data entry /secure/G/key
    GroupFile,  \* a file of a directory shared with G
    PublicFile, \* a file of a public shared directory
    NoId,       \* ctx.m_id == NULL
    MaxConns    \* connections accepted in a run

Entries == {KeyEntry, GroupFile, PublicFile}

\* Requests a client may send on a new connection.
Requests == [kind : {"get", "gets2"}, entry : Entries] \cup
            [kind : {"gets1"}, entry : {KeyEntry}]

VARIABLES
    conns,      \* conns[c]: [client, rq, live] of the c-th connection
    acc,        \* connections the accept loop has taken
    lpc,        \* PortThread: "accept", or "auth" while in PutAuth
    slot,       \* the loop-local PutContext ctx: [host, id]
    chal,       \* clients with a challenge pending in m_auth
    threads,    \* threads[t]: the PutThread started for connection t
    sent        \* replies PutThreads wrote: [conn, to, item]

vars == <<conns, acc, lpc, slot, chal, threads, sent>>

Conn == 1 .. MaxConns

\* What a reply body carries: the entry in clear, sealed to an identity
\* (Identity::Encrypt), or encrypted under G's key (Key::Encrypt).
Plain(e) == [form |-> "plain", entry |-> e]
Sealed(p, e) == [form |-> "sealed", to |-> p, entry |-> e]
Enc(e) == [form |-> "enc", entry |-> e]
NotFound == [form |-> "404"]

Items == {Plain(e) : e \in Entries} \cup {Enc(e) : e \in Entries} \cup
         {Sealed(p, e) : p \in Clients, e \in Entries} \cup {NotFound}

TypeOK ==
    /\ conns \in Seq([client : Clients, rq : Requests, live : BOOLEAN])
    /\ Len(conns) <= MaxConns
    /\ acc \in 0 .. Len(conns)
    /\ lpc \in {"accept", "auth"}
    /\ slot \in [host : 0 .. MaxConns, id : Clients \cup {NoId}]
    /\ chal \subseteq Clients
    /\ threads \in [Conn -> [pc : {"none", "start", "serve", "done"},
                             host : 0 .. MaxConns]]
    /\ sent \subseteq [conn : Conn, to : Clients, item : Items]

Init ==
    /\ conns = <<>>
    /\ acc = 0
    /\ lpc = "accept"
    /\ slot = [host |-> 0, id |-> NoId]
    /\ chal = {}
    /\ threads = [t \in Conn |-> [pc |-> "none", host |-> 0]]
    /\ sent = {}

\* A client opens a connection to the port and sends its request.
Connect(p, r) ==
    /\ Len(conns) < MaxConns
    /\ conns' = Append(conns, [client |-> p, rq |-> r, live |-> TRUE])
    /\ UNCHANGED <<acc, lpc, slot, chal, threads, sent>>

(***************************************************************************)
(* PortThread: Accept(1) takes the next connection and classifies it as   *)
(* HTTP from its first bytes; a new Host is made for it and the loop-local *)
(* PutContext is filled in: m_host, a fresh m_resp, m_id = NULL.           *)
(***************************************************************************)
Accept ==
    /\ lpc = "accept"
    /\ acc < Len(conns)
    /\ acc' = acc + 1
    /\ slot' = [host |-> acc + 1, id |-> NoId]
    /\ lpc' = "auth"
    /\ UNCHANGED <<conns, chal, threads, sent>>

\* host->m_thread.Start(PutThread, &ctx) for connection c.
Start(c) == threads' = [threads EXCEPT ![c] = [pc |-> "start", host |-> 0]]

\* PutAuth returns -1: the Host, and with it the connection, is deleted.
Drop(c) == conns' = [conns EXCEPT ![c].live = FALSE]

PutAuth ==
    /\ lpc = "auth"
    /\ LET c == acc
           p == conns[c].client
           k == conns[c].rq.kind
       IN  CASE k = "get" ->
                  /\ Start(c)
                  /\ UNCHANGED <<conns, slot, chal>>
             [] k = "gets1" ->
                  /\ chal' = IF p \in Trusted THEN chal \cup {p} ELSE chal
                  /\ Drop(c)
                  /\ UNCHANGED <<slot, threads>>
             [] k = "gets2" /\ p \in chal ->
                  /\ chal' = chal \ {p}
                  /\ slot' = [slot EXCEPT !.id = p]
                  /\ Start(c)
                  /\ UNCHANGED conns
             [] OTHER ->
                  /\ Drop(c)
                  /\ UNCHANGED <<slot, chal, threads>>
    /\ lpc' = "accept"
    /\ UNCHANGED <<acc, sent>>

\* PutThread begins: host = ctx->m_host, read through the pointer to ctx.
ThreadStart(t) ==
    /\ threads[t].pc = "start"
    /\ threads' = [threads EXCEPT ![t] = [pc |-> "serve", host |-> slot.host]]
    /\ UNCHANGED <<conns, acc, lpc, slot, chal, sent>>

(***************************************************************************)
(* The body PutThread writes for entry e, given ctx->m_id and whether key  *)
(* (the group key) is set: a file is copied through Key::Encrypt when key  *)
(* is set and through Transfer otherwise; a data entry is sealed to m_id   *)
(* when m_id is set, else encrypted under key, else written as is.        *)
(***************************************************************************)
\* Mutant: the "if (ctx->m_id)" test before Identity::Encrypt is lost.
BodyNoIdCheck(e, id, haskey) ==
    IF e # KeyEntry THEN IF haskey THEN Enc(e) ELSE Plain(e)
    ELSE Sealed(id, e)

Body(e, id, haskey) ==
    IF e # KeyEntry THEN IF haskey THEN Enc(e) ELSE Plain(e)
    ELSE IF id # NoId THEN Sealed(id, e)
    ELSE IF haskey THEN Enc(e) ELSE Plain(e)

(***************************************************************************)
(* The reply to request r with ctx->m_id = id.  /get/<ref> finds the entry *)
(* and sends it with key NULL.  /gets/G/<ref> takes G's key, drops it for  *)
(* the /secure/G/key entry, and for that entry answers 404 when m_id is    *)
(* set and the accept callback refuses it.                                 *)
(***************************************************************************)
Reply(r, id) ==
    IF r.kind = "get" THEN Body(r.entry, id, FALSE)
    ELSE IF r.entry = KeyEntry /\ id # NoId /\ id \notin Admitted THEN NotFound
    ELSE Body(r.entry, id, r.entry # KeyEntry)

(***************************************************************************)
(* PutThread serves its host: ReadHttpHdr returns the request pushed back  *)
(* by PutAuth, the reply is written with ctx->m_id as it is now, and the   *)
(* host is deleted.  A host that was deleted already yields nothing.       *)
(***************************************************************************)
Serve(t) ==
    /\ threads[t].pc = "serve"
    /\ LET h == threads[t].host IN
       IF conns[h].live
       THEN /\ sent' = sent \cup {[conn |-> h, to |-> conns[h].client,
                                   item |-> Reply(conns[h].rq, slot.id)]}
            /\ Drop(h)
       ELSE UNCHANGED <<conns, sent>>
    /\ threads' = [threads EXCEPT ![t].pc = "done"]
    /\ UNCHANGED <<acc, lpc, slot, chal>>

Next ==
    \/ \E p \in Clients, r \in Requests : Connect(p, r)
    \/ Accept
    \/ PutAuth
    \/ \E t \in Conn : ThreadStart(t) \/ Serve(t)

\* The accept loop and every PutThread keep running.
Fairness ==
    /\ WF_vars(Accept) /\ WF_vars(PutAuth)
    /\ \A t \in Conn : WF_vars(ThreadStart(t)) /\ WF_vars(Serve(t))

Spec == Init /\ [][Next]_vars /\ Fairness

====
