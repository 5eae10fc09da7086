--------------------------------- MODULE Sfs ---------------------------------
(***************************************************************************)
(* The sfs sample (src/samples/sfs/sfs.cpp): client processes running     *)
(* HandleCmds' "search URL STRING" and "get ID PATH", and one server      *)
(* process in Share's accept loop, which handles one connection at a time *)
(* with HandleAuth, HandleResp, HandleSearch and HandleGet.  Every HTTP   *)
(* exchange opens its own connection (WriteHttp reopens the closed one),  *)
(* and the single-threaded server handles it whole, so an exchange is one *)
(* step; between the exchanges of one command other clients' exchanges    *)
(* and restarts interleave.  A request may be lost, or its reply lost     *)
(* after the server has acted on it.                                       *)
(*                                                                         *)
(* Identities are names; the envelopes and the client's own challenge of  *)
(* the server always succeed between honest processes.  A session key is  *)
(* a fresh number km (PTP::Random::Fill); Decrypt under km succeeds only  *)
(* on what was encrypted under km, thanks to the digest.  Addresses are   *)
(* hosts or "lo", a literal 127.0.0.1 (Lookup of "localhost" resolves the *)
(* host name, so it gives the host's own address).                         *)
(***************************************************************************)
EXTENDS Integers, Sequences, FiniteSets, Bitwise, SequencesExt

CONSTANTS Clients,      \* client processes
          Ident,        \* Ident[c]: the name of c's local identity
          ClientHost,   \* ClientHost[c]: the host c runs on
          SrvHost,      \* the host of the Share process
          Files,        \* the shared files
          FileId,       \* FileId[f]: its Collection id
          MaxCmds,      \* commands per client
          MaxRestarts,  \* process restarts in a behaviour
          MaxKm         \* session keys the server draws

VARIABLES skeys,    \* the server's keys list, head first
          snext,    \* CreateKey's static keyid counter
          spend,    \* the server Authenticator's pending challenges
          ckeys,    \* ckeys[c]: the client's keys list
          cresps,   \* cresps[c]: the client's responses list
          pc,       \* pc[c]: where c is in its command
          cmd,      \* cmd[c]: the command in progress
          ncmd,     \* commands run by each client
          kmctr,    \* session keys drawn so far
          owner,    \* owner[km]: the identity the server made km for
          got,      \* got[c]: [want, file] for each file c wrote
          printed,  \* the results ShowResponses has printed
          restarts

vars == <<skeys, snext, spend, ckeys, cresps, pc, cmd, ncmd, kmctr, owner, got, printed,
          restarts>>

(***************************************************************************)
(* CreateKey's shadow, RAND_bytes XORed with RAND_bytes: a random 32-bit  *)
(* word.  Two draws either agree or differ, and when they differ the XOR  *)
(* of a small entry id with both almost never names another entry (the   *)
(* chance is the number of entries over 2^32).  ShadowBit, a bit above    *)
(* every FileId, stands for the random high bits.                          *)
(***************************************************************************)
ShadowBit == 256

Shadows == {0, ShadowBit}
NoCmd == [op |-> "none"]

(***************************************************************************)
(* Connect(url): "lo" is the client's own host.  The server sees the      *)
(* connection come from 127.0.0.1 over loopback and from the client's     *)
(* host otherwise.  Only SrvHost has a server listening.                   *)
(***************************************************************************)
Target(c, a) == IF a = "lo" THEN ClientHost[c] ELSE a
SourceIp(c, a) == IF a = "lo" THEN "lo" ELSE ClientHost[c]

\* static FindKey(keys, ident, ip, port): the first key of the list with
\* that address and, unless ident is NULL, that identity; 0 when none.
FindAddr(l, id, ip) ==
    LET k == {i \in 1 .. Len(l) : l[i].ip = ip /\ (id = "NULL" \/ l[i].id = id)}
    IN  IF k = {} THEN 0 ELSE CHOOSE i \in k : \A j \in k : i <= j

\* static FindKey(keys, keyid).
FindKeyId(l, kid) ==
    LET k == {i \in 1 .. Len(l) : l[i].keyid = kid}
    IN  IF k = {} THEN 0 ELSE CHOOSE i \in k : \A j \in k : i <= j

\* FindResponse(resps, id): responses are numbered from 1 in list order.
FindResponse(l, i) == IF i \in 1 .. Len(l) THEN l[i] ELSE NoCmd

\* Collection::Find(id).
FindFile(id) == {f \in Files : FileId[f] = id}

(***************************************************************************)
(* HandleCmds' "search" and "get": Connect, then Auth, whose first step is *)
(* the FindKey of a key cached for the address.  A get of an unknown      *)
(* response number is skipped; its URL's host is the server's localIp,    *)
(* Lookup("localhost"), which is SrvHost.                                  *)
(***************************************************************************)
StartCmd(c, k) ==
    LET a == k.addr
    IN  IF Target(c, a) # SrvHost
        THEN pc' = pc /\ cmd' = cmd                     \* Connect fails
        ELSE /\ pc' = [pc EXCEPT ![c] = IF FindAddr(ckeys[c], "NULL", a) # 0
                                         THEN "cmd" ELSE "auth"]
             /\ cmd' = [cmd EXCEPT ![c] = k]

Command(c) ==
    /\ pc[c] = "idle" /\ ncmd[c] < MaxCmds
    /\ ncmd' = [ncmd EXCEPT ![c] = @ + 1]
    /\ \/ \E a \in {"lo", SrvHost} : StartCmd(c, [op |-> "search", addr |-> a])
       \/ \E i \in 1 .. Cardinality(Files) :
            LET r == FindResponse(cresps[c], i)
            IN  IF r = NoCmd THEN UNCHANGED <<pc, cmd>>
                ELSE StartCmd(c, [op |-> "get", addr |-> SrvHost, url |-> r.url, want |-> r.file])
    /\ UNCHANGED <<skeys, snext, spend, ckeys, cresps, kmctr, owner, got, printed, restarts>>

\* HandleOpts' "--get URL PATH": the URL is one a search printed, in any
\* process.
CommandOpt(c) ==
    /\ pc[c] = "idle" /\ ncmd[c] < MaxCmds
    /\ ncmd' = [ncmd EXCEPT ![c] = @ + 1]
    /\ \E r \in printed :
         StartCmd(c, [op |-> "get", addr |-> SrvHost, url |-> r.url, want |-> r.file])
    /\ UNCHANGED <<skeys, snext, spend, ckeys, cresps, kmctr, owner, got, printed, restarts>>

\* The command ends; HandleCmds prints the result or the error and reads
\* the next line.
EndCmd(c) == /\ pc' = [pc EXCEPT ![c] = "idle"] /\ cmd' = [cmd EXCEPT ![c] = NoCmd]

(***************************************************************************)
(* Auth, first exchange: PUT /auth with the local certificate.  HandleAuth *)
(* imports it and challenges it, the challenge's context being the remote *)
(* identity; the reply carries the challenge and the server certificate, *)
(* which the client's Insert accepts (it verifies).  The request or the   *)
(* reply may be lost.                                                      *)
(***************************************************************************)
\* A challenge is random; it is named by its client and command.
Chal(c) == [n |-> <<c, ncmd[c]>>, id |-> Ident[c]]

HandleAuth(c) == spend' = spend \cup {Chal(c)}

AuthReq(c) ==
    /\ pc[c] = "auth"
    /\ \/ /\ HandleAuth(c)
          /\ pc' = [pc EXCEPT ![c] = "resp"] /\ cmd' = cmd
       \/ /\ HandleAuth(c) /\ EndCmd(c)               \* reply lost
       \/ /\ UNCHANGED spend /\ EndCmd(c)             \* request lost
    /\ UNCHANGED <<skeys, snext, ckeys, cresps, ncmd, kmctr, owner, got, printed, restarts>>

(***************************************************************************)
(* static CreateKey(keys, id, ip, flags): a key for the identity and the  *)
(* source address is reused as it is; a new one is inserted at the head  *)
(* and rolled: keyid++, a fresh shadow and a fresh session key.  The      *)
(* client never sends SFS_FLAGS_ROLL.                                      *)
(***************************************************************************)
CreateKey(l, id, ip, sh) ==
    IF FindAddr(l, id, ip) # 0 THEN l
    ELSE <<[id |-> id, ip |-> ip, keyid |-> snext, shadow |-> sh, km |-> kmctr + 1]>> \o l

\* HandleResp: Verify of the response to the challenge gives the remote
\* identity and consumes the challenge; then CreateKey, and the reply
\* carries the key's shared part.
HandleResp(c, sh) ==
    LET ch  == Chal(c)
        l   == CreateKey(skeys, Ident[c], SourceIp(c, cmd[c].addr), sh)
        new == l # skeys
    IN  /\ ch \in spend
        /\ spend' = spend \ {ch}
        /\ skeys' = l
        /\ snext' = IF new THEN snext + 1 ELSE snext
        /\ kmctr' = IF new THEN kmctr + 1 ELSE kmctr
        /\ owner' = IF new THEN owner @@ (kmctr + 1 :> Ident[c]) ELSE owner

\* static ImportKey(keys, id, ip, port, flags, shared), with the server's
\* identity; the client never uses the shadow it is sent.
ImportKey(l, a, r) ==
    LET i == FindAddr(l, "SRV", a)
        k == [id |-> "SRV", ip |-> a, keyid |-> r.keyid, km |-> r.km]
    IN  IF i = 0 THEN <<k>> \o l ELSE [l EXCEPT ![i] = k]

AuthResp(c) ==
    /\ pc[c] = "resp"
    /\ \/ \E sh \in Shadows :
            /\ kmctr < MaxKm                             \* bound
            /\ HandleResp(c, sh)
            /\ LET r == skeys'[FindAddr(skeys', Ident[c], SourceIp(c, cmd[c].addr))]
               IN  \/ /\ ckeys' = [ckeys EXCEPT ![c] = ImportKey(@, cmd[c].addr, r)]
                      /\ pc' = [pc EXCEPT ![c] = "cmd"] /\ cmd' = cmd
                   \/ /\ ckeys' = ckeys /\ EndCmd(c)       \* reply lost
       \/ /\ Chal(c) \notin spend                       \* Verify: unknown
          /\ UNCHANGED <<skeys, snext, spend, kmctr, owner, ckeys>> /\ EndCmd(c)
       \/ /\ Chal(c) \in spend                          \* Verify: expired
          /\ spend' = spend \ {Chal(c)}
          /\ UNCHANGED <<skeys, snext, kmctr, owner, ckeys>> /\ EndCmd(c)
       \/ /\ UNCHANGED <<skeys, snext, spend, kmctr, owner, ckeys>> /\ EndCmd(c)  \* request lost
    /\ UNCHANGED <<cresps, ncmd, got, printed, restarts>>

(***************************************************************************)
(* Search(c, key, str, resps) and HandleSearch: the query goes under the  *)
(* keyid of the client's key after DestroyResponses has emptied the      *)
(* client's responses; the server decrypts it with the key of that *)
(* keyid (a wrong key fails the digest) and answers with one URL per      *)
(* matching entry, in the collection's order: host localIp (SrvHost), the *)
(* keyid and the entry id XOR the key's shadow.  The query string is the  *)
(* set of entries it matches.                                              *)
(***************************************************************************)
ClientKey(c) == ckeys[c][FindAddr(ckeys[c], "NULL", cmd[c].addr)]

Results(k, S) ==
    LET ids == SetToSortSeq({FileId[f] : f \in S}, <)
        f(i) == CHOOSE g \in S : FileId[g] = i
    IN  [j \in 1 .. Len(ids) |->
           [url |-> [keyid |-> k.keyid, id |-> ids[j] ^^ k.shadow], file |-> f(ids[j])]]

Search(c) ==
    /\ pc[c] = "cmd" /\ cmd[c].op = "search"
    /\ LET i  == FindKeyId(skeys, ClientKey(c).keyid)
           ok == i # 0 /\ skeys[i].km = ClientKey(c).km
       IN  \/ /\ ok
              /\ \E S \in SUBSET Files :
                   /\ cresps' = [cresps EXCEPT ![c] = Results(skeys[i], S)]
                   /\ printed' = printed \cup Range(Results(skeys[i], S))
              /\ pc' = [pc EXCEPT ![c] = "idle"] /\ cmd' = [cmd EXCEPT ![c] = NoCmd]
           \/ /\ ~ok                                       \* HandleSearch fails
              /\ cresps' = [cresps EXCEPT ![c] = <<>>] /\ EndCmd(c)
              /\ printed' = printed
           \/ /\ cresps' = [cresps EXCEPT ![c] = <<>>] /\ EndCmd(c)  \* lost
              /\ printed' = printed
    /\ UNCHANGED <<skeys, snext, spend, ckeys, ncmd, kmctr, owner, got, restarts>>

(***************************************************************************)
(* Get(c, key, url, path) and HandleGet: the server finds the key of the  *)
(* URL's keyid, takes the id XOR its shadow, finds the entry and sends it *)
(* encrypted under that key; the client decrypts with its own key for the *)
(* address, and unlinks the file when that fails.                          *)
(***************************************************************************)
\* The entries HandleGet sends for the URL u, with the key sent under.
Served(u) ==
    LET i == FindKeyId(skeys, u.keyid)
    IN  IF i = 0 THEN {}
        ELSE {[file |-> f, km |-> skeys[i].km] : f \in FindFile(u.id ^^ skeys[i].shadow)}

Get(c) ==
    /\ pc[c] = "cmd" /\ cmd[c].op = "get"
    /\ \/ \E s \in Served(cmd[c].url) :
            /\ s.km = ClientKey(c).km
            /\ got' = [got EXCEPT ![c] = @ \cup {[want |-> cmd[c].want, file |-> s.file]}]
       \/ /\ \A s \in Served(cmd[c].url) : s.km # ClientKey(c).km   \* fails
          /\ got' = got
       \/ got' = got                                             \* lost
    /\ EndCmd(c)
    /\ UNCHANGED <<skeys, snext, spend, ckeys, cresps, ncmd, kmctr, owner, printed, restarts>>

(***************************************************************************)
(* Restarts.  The Share process loses its keys list, its Authenticator    *)
(* and the static keyid counter; it rescans the same files to the same    *)
(* ids.  A client process loses its keys and responses; the certificate   *)
(* store on disk is all either keeps.                                      *)
(***************************************************************************)
ServerRestart ==
    /\ restarts < MaxRestarts
    /\ restarts' = restarts + 1
    /\ skeys' = <<>> /\ snext' = 0 /\ spend' = {}
    /\ UNCHANGED <<ckeys, cresps, pc, cmd, ncmd, kmctr, owner, got, printed>>

ClientRestart(c) ==
    /\ restarts < MaxRestarts
    /\ restarts' = restarts + 1
    /\ ckeys' = [ckeys EXCEPT ![c] = <<>>]
    /\ cresps' = [cresps EXCEPT ![c] = <<>>]
    /\ EndCmd(c)
    /\ UNCHANGED <<skeys, snext, spend, ncmd, kmctr, owner, got, printed>>

Init ==
    /\ skeys = <<>> /\ snext = 0 /\ spend = {}
    /\ ckeys = [c \in Clients |-> <<>>]
    /\ cresps = [c \in Clients |-> <<>>]
    /\ pc = [c \in Clients |-> "idle"]
    /\ cmd = [c \in Clients |-> NoCmd]
    /\ ncmd = [c \in Clients |-> 0]
    /\ kmctr = 0 /\ owner = <<>> /\ restarts = 0
    /\ got = [c \in Clients |-> {}] /\ printed = {}

\* Every client has read its last command line.
Terminating ==
    /\ \A c \in Clients : pc[c] = "idle" /\ ncmd[c] = MaxCmds
    /\ UNCHANGED vars

Next ==
    \/ \E c \in Clients :
         Command(c) \/ CommandOpt(c) \/ AuthReq(c) \/ AuthResp(c) \/ Search(c) \/ Get(c) \/ ClientRestart(c)
    \/ ServerRestart
    \/ Terminating

Spec == Init /\ [][Next]_vars

=============================================================================
