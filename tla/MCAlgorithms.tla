---------------------------- MODULE MCAlgorithms ----------------------------
(***************************************************************************)
(* The pure operators of Glob, KeyStream, Connection, Store and Encoding  *)
(* checked over every short input: one state per pattern, extension list, *)
(* plaintext, received stream, HTTP stream, store list or byte string,    *)
(* the invariants quantifying over the remaining inputs.                  *)
(***************************************************************************)
EXTENDS Glob, KeyStream, FiniteSets

HeaderSize == 12    \* stands for Trut::HEADER_SIZE (1024)
Net == INSTANCE Connection
St == INSTANCE Store WITH None <- "none", KeyFriendly <- ".KEYDATA."
En == INSTANCE Encoding
Ce == INSTANCE Cert WITH None <- "none", KeyFriendly <- ".KEYDATA.",
                         ExpireDefault <- 2592000, Unknown <- "*Unknown*", Now <- 0
SE == INSTANCE SequencesExt

CONSTANT ShNone     \* NULL of the shared-directory cases, a model value

MCUpper(c) == CASE c = "a" -> "A" [] c = "b" -> "B" [] OTHER -> c

\* Strings of length at most n over the characters cs.
Strings(cs, n) == UNION {[1 .. m -> cs] : m \in 0 .. n}

PatChars == {"a", "A", "b", "*", "?", "\\"}
NameChars == {"a", "A", "b", "*"}
ExtChars == {"a", "A", ";", "."}
FileChars == {"a", "A", ".", "b"}

\* Extension lists that do not begin with ';'.  After a leading ';' the
\* code takes an empty first item, which matches any name ending in '.'.
ExtLists == {e \in Strings(ExtChars, 4) : e = <<>> \/ e[1] # ";"}

(***************************************************************************)
(* Streams.  DigestSize 2 and IvSize 1 stand for 20 and 8: the codec only *)
(* compares sizes, so what matters is how a stream and the read buffer lie *)
(* against the padded tail.  Decrypt read sizes run from just above       *)
(* DIGEST_PADDED_SIZE, the smallest that keeps the tail; every caller     *)
(* uses the default 1024.                                                  *)
(***************************************************************************)
MaxPlain == 6
EncReadSizes == 1 .. 3
DecReadSizes == Padded + 1 .. Padded + 3

Plain(n) == [k \in 1 .. n |-> [b |-> k]]
Iv1 == [j \in 1 .. IvSize |-> [ivb |-> 1]]
Flags == BOOLEAN \X BOOLEAN

\* A byte of a received stream changed on the way.
Flip(c) == IF "iv" \in DOMAIN c THEN [c EXCEPT !.p = [b |-> 0]] ELSE [ivb |-> 2]

\* What a peer may deliver in place of the encryption v: v cut short, v
\* with one byte changed or lost, and v followed by a read error.
Received(v) ==
    {[bytes |-> SubSeq(v, 1, l), err |-> FALSE] : l \in 0 .. Len(v) - 1} \cup
    {[bytes |-> [v EXCEPT ![i] = Flip(v[i])], err |-> FALSE] : i \in 1 .. Len(v)} \cup
    {[bytes |-> SubSeq(v, 1, i - 1) \o Drop(v, i), err |-> FALSE] : i \in 1 .. Len(v)} \cup
    {[bytes |-> v, err |-> TRUE]}

(***************************************************************************)
(* HTTP streams: a header shorter than HeaderSize (one of exactly         *)
(* HeaderSize - 1 bytes, the most ReadHttpHdr takes) ending in CRLF-CRLF,  *)
(* as every header Trut writes does, then a body, delivered in every      *)
(* segmentation into TCP reads.  A header ending in LF-LF is left out: a   *)
(* body with CRLF-CRLF in the same read makes UngetData end the header    *)
(* there, inside the body.                                                 *)
(***************************************************************************)
Headers == {<<"G", "E", "T", " ", "/", "x", "y", "CR", "LF", "CR", "LF">>,
            <<"H", "CR", "LF", "x", "CR", "LF", "CR", "LF">>,
            <<"P", "U", "CR", "LF", "CR", "LF">>}
Bodies == {<<>>, <<"b">>, <<"LF", "LF">>, <<"CR", "LF", "CR", "LF">>}

\* Every way to cut a stream of n bytes into non-empty segments.
RECURSIVE Compositions(_)
Compositions(n) ==
    IF n = 0 THEN {<<>>}
    ELSE UNION {{<<k>> \o r : r \in Compositions(n - k)} : k \in 1 .. n}

RECURSIVE Cut(_, _)
Cut(s, ks) == IF ks = <<>> THEN <<>>
              ELSE <<SubSeq(s, 1, Head(ks))>> \o Cut(Drop(s, Head(ks)), Tail(ks))

(***************************************************************************)
(* HTTP messages of WriteHttp, both forms, with no extra header or one    *)
(* line of it, data of 0, 1 and 5 bytes (one holding CRLF-CRLF), and      *)
(* after the message the end of the stream or, after data with a         *)
(* Content-length, one more byte; each stream is cut into up to three     *)
(* TCP reads in every way.                                                *)
(***************************************************************************)
MsgHdrs == {<<>>, <<"X", "CR", "LF">>}
MsgData == {<<>>, <<"b">>, <<"b", "CR", "LF", "CR", "LF">>}
Splits(n) == {<<n>>} \cup {<<a, n - a>> : a \in 1 .. n - 1} \cup
             UNION {{<<a, b, n - a - b>> : b \in 1 .. n - 1 - a} : a \in 1 .. n - 2}

(***************************************************************************)
(* Store lists: up to three entries, each made by one of the Insert calls  *)
(* (which all append, so every such list is reachable): two identities    *)
(* with one name and two moduli, with and without a private key and the   *)
(* export flag, a key and a secret, with and without a friendly name or   *)
(* an id.                                                                 *)
(***************************************************************************)
I1 == [name |-> "n1", mod |-> "m1"]
I2 == [name |-> "n1", mod |-> "m2"]
Names == {"none", "A"}
StoreEntries ==
    {St!Insert(<<>>, i, hk, ek, f, "none")[1] :
        i \in {I1, I2}, hk \in BOOLEAN, ek \in BOOLEAN, f \in Names} \cup
    {St!InsertKey(<<>>, "k1", id)[1] : id \in {"none", "1"}} \cup
    {St!InsertSecret(<<>>, "s1", f, "none")[1] : f \in Names}
StoreQueries ==
    [type : {"ALL", "IDENTITY", "KEY", "SECRET"}, friendly : Names \cup {".KEYDATA."},
     id : {"none", "1"}]
IdentQueries == [name : {"none", "n1"}, haskey : BOOLEAN, mod : {"none", "m1", "m2"}]

\* The results of calling Find(q, from) with from the previous result, from
\* NULL until it returns NULL, at most n + 1 calls.
RECURSIVE Walk(_, _, _, _, _)
Walk(l, q, from, n, ident) ==
    LET k == IF ident THEN St!FindIdentity(l, q, from) ELSE St!Find(l, q, from)
    IN  IF k = 0 \/ n = 0 THEN <<>> ELSE <<k>> \o Walk(l, q, k, n - 1, ident)

(***************************************************************************)
(* Base64: byte strings of 1 to 4 bytes (one group, a group and a rest of *)
(* one or of two) over bytes whose 2-, 4- and 6-bit pieces take distinct  *)
(* values, and bpl 1 to 5, below, at and above the size.  The reference   *)
(* is RFC 4648 section 4, with its own alphabet.                          *)
(***************************************************************************)
Bytes == {0, 105, 150, 255}
RefAlphabet == [i \in 1 .. 26 |-> 64 + i] \o [i \in 1 .. 26 |-> 96 + i] \o
               [i \in 1 .. 10 |-> 47 + i] \o <<43, 47>>
RefGroup(g) ==
    LET n    == Len(g)
        w    == (g[1] * 2^16) + (IF n > 1 THEN g[2] * 2^8 ELSE 0) + (IF n > 2 THEN g[3] ELSE 0)
        c(i) == RefAlphabet[((w \div 2^(18 - 6 * i)) % 64) + 1]
    IN  [i \in 1 .. n + 1 |-> c(i - 1)] \o [i \in 1 .. 3 - n |-> 61]
RefBase64(x) ==
    LET g(i) == SubSeq(x, 3 * i - 2, IF 3 * i < Len(x) THEN 3 * i ELSE Len(x))
    IN  SE!FlattenSeq([i \in 1 .. (Len(x) + 2) \div 3 |-> RefGroup(g(i))])

\* "Identity", "Challenge", "Response" and request lines "GET /" p CR LF,
\* one with a file name that holds "Identity" without ':'.
Identity == <<73, 100, 101, 110, 116, 105, 116, 121>>
Challenge == <<67, 104, 97, 108, 108, 101, 110, 103, 101>>
Response == <<82, 101, 115, 112, 111, 110, 115, 101>>
Rqsts == {<<71, 69, 84, 32, 47>> \o p \o <<13, 10>> : p \in {<<120>>, Identity}}
Chals == {<<255>>, <<0, 105, 150>>}

(***************************************************************************)
(* The cert tool: the user's store file is absent, holds the local        *)
(* identity "A" with its key and a certificate of "B", or holds an        *)
(* expired "A" and a certificate "C" it signed.  The other files: f, a    *)
(* newer certificate of "B"; g, a store saved with --passwd p, whose      *)
(* local "A" has another key; h, a self-signed "C" exported with          *)
(* password p.  argv is up to three of the tokens below.                  *)
(***************************************************************************)
LA == Ce!NewIdentity("A", 1, 0)
CA == Ce!IdSign(LA, Ce!NewIdentity("C", 4, 0), 86400, 0)
CertHomes ==
    {Ce!NoFile,
     Ce!FileOf(<<St!Ident(LA, TRUE, TRUE, "none", "none"),
                 St!Ident(Ce!NewIdentity("B", 2, 0), FALSE, FALSE, "none", "none")>>, "none"),
     Ce!FileOf(<<St!Ident([LA EXCEPT !.exp = 0], TRUE, TRUE, "none", "none"),
                 St!Ident(CA, FALSE, FALSE, "none", "none")>>, "none")}
CertFiles ==
    [p \in {"f", "g", "h"} |->
        CASE p = "f" -> Ce!SaveFile(Ce!NewIdentity("B", 3, 0), FALSE, "none")
          [] p = "g" -> Ce!FileOf(<<St!Ident(Ce!NewIdentity("A", 5, 0), TRUE, TRUE, "none", "none"),
                                    St!Ident(Ce!NewIdentity("B", 2, 0), FALSE, FALSE, "none", "none")>>, "p")
          [] p = "h" -> Ce!SaveFile(Ce!NewIdentity("C", 4, 0), FALSE, "p")]
Tok(o, a, b) == [op |-> o, a |-> a, b |-> b, n |-> 0]
CertTokens ==
    {Tok("--import", "f", "-"), Tok("--import", "h", "-"), Tok("--export", "", "f"),
     Tok("--export", "B", "h"), Tok("--sign", "", "h"), [Tok("--sign", "49711", "f") EXCEPT !.n = 49711],
     Tok("--remove", "A", "-"), Tok("--remove", "B", "-"), Tok("--setup", "", "-"),
     Tok("--setup", "A", "-"), Tok("--load", "g", "-"), Tok("--save", "f", "-"),
     Tok("--passwd", "p", "-"), Tok("bad", "-", "-")}

(***************************************************************************)
(* Shared directories: r holds f1 ("a.a") and the directory a, which      *)
(* holds f2 ("b.b") and the directory c holding f3 ("b.A"); "nowhere"    *)
(* cannot be opened.  Up to three of the calls, commands and events      *)
(* below, from a node that has shared nothing.  A token is [op, a, ext,   *)
(* grp, k, ok]: a path, group or file, an extension list, a group, a     *)
(* Shared (by allocation number) and a flag.                               *)
(***************************************************************************)
ShSub == [d \in {"r", "a", "c"} |-> CASE d = "r" -> <<"a">> [] d = "a" -> <<"c">> [] OTHER -> <<>>]
ShListing == [d \in {"r", "a", "c"} |-> CASE d = "r" -> <<"f1">> [] d = "a" -> <<"f2">> [] OTHER -> <<"f3">>]
ShName == [f \in {"f1", "f2", "f3"} |->
              CASE f = "f1" -> <<"a", ".", "a">> [] f = "f2" -> <<"b", ".", "b">>
                [] OTHER -> <<"b", ".", "A">>]
Sh == INSTANCE Shares WITH None <- ShNone, Sub <- ShSub, Listing <- ShListing,
                           FName <- ShName
ShDirOf == [f \in {"f1", "f2", "f3"} |-> CASE f = "f1" -> "r" [] f = "f2" -> "a" [] OTHER -> "c"]
ShTok(o, a, e, g, k, ok) == [op |-> o, a |-> a, ext |-> e, grp |-> g, k |-> k, ok |-> ok]
ShTokens ==
    {ShTok("AddShared", "r", ShNone, ShNone, 0, FALSE),
     ShTok("AddShared", "a", <<"a">>, "g", 0, FALSE),
     ShTok("AddShared", "r", <<"a">>, "g", 0, FALSE),
     ShTok("AddShared", "nowhere", ShNone, "g", 0, FALSE),
     ShTok("RemoveShared", ShNone, ShNone, ShNone, 0, FALSE),
     ShTok("UpdateShared", ShNone, <<"a">>, "g", 0, FALSE),
     ShTok("UpdateShared", ShNone, <<>>, ShNone, 1, FALSE),
     ShTok("RescanAllShared", ShNone, ShNone, ShNone, 0, FALSE),
     ShTok("unlink", "f3", ShNone, ShNone, 0, FALSE),
     ShTok("share", "a", ShNone, ShNone, 0, FALSE),
     ShTok("join", "g", ShNone, ShNone, 0, TRUE),
     ShTok("join", "g", ShNone, ShNone, 0, FALSE),
     ShTok("leave", ShNone, ShNone, ShNone, 0, FALSE),
     ShTok("fetched", "g", ShNone, ShNone, 0, TRUE),
     ShTok("fetched", "g", ShNone, ShNone, 0, FALSE)}

Cases == {[kind |-> "pat", in |-> p] : p \in Strings(PatChars, 5)} \cup
         {[kind |-> "ext", in |-> e] : e \in ExtLists} \cup
         {[kind |-> "plain", in |-> n] : n \in 0 .. MaxPlain} \cup
         {[kind |-> "rcv", in |-> r] :
             r \in UNION {Received(BufEncrypt(Plain(n), Iv1, TRUE, TRUE).out) :
                             n \in 1 .. MaxPlain}} \cup
         {[kind |-> "http", in |-> <<h, b>>] : h \in Headers, b \in Bodies} \cup
         {[kind |-> "store", in |-> l] :
             l \in UNION {[1 .. m -> StoreEntries] : m \in 0 .. 3}} \cup
         {[kind |-> "b64", in |-> x] : x \in UNION {[1 .. m -> Bytes] : m \in 1 .. 4}} \cup
         {[kind |-> "msg", in |-> [req |-> q, hdr |-> h, d |-> d, more |-> m]] :
             q \in BOOLEAN, h \in MsgHdrs, d \in MsgData, m \in {<<>>, <<"x">>}} \cup
         {[kind |-> "cert", in |-> <<h, a>>] :
             h \in CertHomes, a \in UNION {[1 .. m -> CertTokens] : m \in 0 .. 3}} \cup
         {[kind |-> "shares", in |-> a] : a \in UNION {[1 .. m -> ShTokens] : m \in 0 .. 3}}

VARIABLE case

Init == case \in Cases
Next == UNCHANGED case
Spec == Init /\ [][Next]_case

\* Find(pat) selects exactly the names the glob of spec 4.H matches:
\* CmpPat(name, pat) returns 0 iff pat matches name, with '*', '?', the '\'
\* escape and case-insensitive letters, including a '*' followed by '?'s.
CmpPatIsGlob ==
    case.kind = "pat" =>
        \A s \in Strings(NameChars, 4) : (CmpPat(s, case.in) = 0) <=> Glob(s, case.in)

\* ScanDir adds exactly the files whose name ends in '.' and an item of the
\* extension list, ignoring case, or every file when the list is empty.
CmpExtIsFilter ==
    case.kind = "ext" =>
        \A n \in Strings(FileChars, 4) : (CmpExt(n, case.in) = 0) <=> ExtOk(n, case.in)

\* Spec property 5: streaming Decrypt of what streaming Encrypt wrote
\* returns the plaintext and its size, for every read size of either side
\* and every combination of the iv and digest flags; with both flags the
\* stream is what buffer Encrypt writes and buffer Decrypt returns the same.
StreamRoundTrip ==
    case.kind = "plain" =>
        LET p == Plain(case.in)
            src == [bytes |-> p, err |-> FALSE]
        IN  \A f \in Flags, re \in EncReadSizes, rd \in DecReadSizes :
              LET c == StreamEncrypt(src, re, Iv1, f[1], f[2])
                  d == StreamDecrypt([bytes |-> c.out, err |-> FALSE], rd, f[1], f[2])
              IN  /\ c.total = Len(c.out)
                  /\ d = [total |-> case.in, out |-> p, crash |-> FALSE]
                  /\ case.in > 0 => /\ c = BufEncrypt(p, Iv1, f[1], f[2])
                                    /\ BufDecrypt(c.out, f[1], f[2]).total = case.in

\* The streaming Decrypt that GetThread runs on a /gets/ body accepts
\* exactly the streams buffer Decrypt accepts, with the same plaintext, and
\* fails on a read error, whatever a peer cut, changed or lost, as long as
\* the stream holds at least the IV and the digest.
StreamAgreesWithBuffer ==
    case.kind = "rcv" /\ Len(case.in.bytes) >= IvSize + DigestSize =>
        LET b == BufDecrypt(case.in.bytes, TRUE, TRUE)
        IN  \A rd \in DecReadSizes :
              LET d == StreamDecrypt(case.in, rd, TRUE, TRUE)
              IN  /\ ~d.crash
                  /\ d.total = IF case.in.err THEN -1 ELSE b.total
                  /\ d.total >= 0 => d.out = b.out

\* Streaming Decrypt never hands EVP_DigestUpdate a negative length,
\* whatever stream a peer sends.
NoNegativeDigestLength ==
    case.kind = "rcv" =>
        \A rd \in DecReadSizes : ~StreamDecrypt(case.in, rd, TRUE, TRUE).crash

\* Spec 4.I: the peer-visible stream is unchanged by the reads that look
\* at it.  Whatever the TCP segmentation, when Accept's peek (on the
\* server), ReadHttpHdr in PutAuth or GetAuth, the Unget of the header they
\* do, and ReadHttpHdr again in PutThread or Get have run, both reads
\* returned exactly the header and the connection then yields exactly the
\* body: no byte lost, repeated or reordered.
HeaderRereadKeepsStream ==
    case.kind = "http" =>
        LET hdr == case.in[1]
            body == case.in[2]
            s == hdr \o body
        IN  \A ks \in Compositions(Len(s)), acc \in BOOLEAN :
              LET c0 == [unget |-> <<>>, sock |-> Cut(s, ks), err |-> FALSE]
                  a  == IF acc THEN Net!Accept(c0) ELSE [ok |-> TRUE, c |-> c0]
                  h1 == Net!ReadHttpHdr(a.c, HeaderSize)
                  h2 == Net!ReadHttpHdr(Net!Unget(h1.c, h1.hdr), HeaderSize)
                  r  == Net!ReadAll(h2.c, Len(s) + 1, <<>>)
              IN  /\ h1.ok /\ h1.hdr = hdr
                  /\ h2.ok /\ h2.hdr = hdr
                  /\ r.data = body

\* sfs reads every request and reply with ReadHttp(NULL, -1): for a message
\* WriteHttp wrote, however the stream is cut into reads, it returns the
\* data and its size, and reads nothing past a body with a Content-length.
HttpMessageRoundTrip ==
    case.kind = "msg" /\ (case.in.d = <<>> => case.in.more = <<>>) =>
        LET x == case.in
            s == (IF x.req THEN Net!WriteHttpRequest(x.hdr, x.d)
                  ELSE Net!WriteHttpStatus(x.hdr, x.d)) \o x.more
        IN  \A ks \in Splits(Len(s)) :
              LET r == Net!ReadHttp([unget |-> <<>>, sock |-> Cut(s, ks), err |-> FALSE], -1)
              IN  r.ok /\ r.data = x.d /\ r.n = Len(x.d)

\* The Find cursors of spec 4.F enumerate: calling Find(type, friendly,
\* id, idsize, from) or Find(name, haskey, modulus, from) again with the
\* previous result visits exactly the matching entries, each once, in list
\* order, whichever entries of the same or another type lie between.
FindCursorEnumerates ==
    case.kind = "store" =>
        LET l == case.in
            Order(Test(_)) == SelectSeq([k \in 1 .. Len(l) |-> k], Test)
        IN  /\ \A q \in StoreQueries :
                  Walk(l, q, 0, Len(l) + 1, FALSE) = Order(LAMBDA k : St!Matches(l[k], q))
            /\ \A q \in IdentQueries :
                  Walk(l, q, 0, Len(l) + 1, TRUE) = Order(LAMBDA k : St!IdentMatches(l[k], q))

\* Spec 4.F and the store test: Load after Save gives back the entries in
\* order, each with its type, identity, key or secret, and an identity with
\* its private key exactly when the key was kept; so the local identity,
\* the first with a key (Find(NULL, 1) in the console and Authenticator), is
\* the same identity after a restart.
ReloadKeepsEntries ==
    case.kind = "store" =>
        LET l  == case.in
            l2 == St!Load(St!Save(l)).l
        IN  /\ Len(l2) = Len(l)
            /\ \A k \in 1 .. Len(l) :
                  /\ l2[k].type = l[k].type /\ l2[k].val = l[k].val
                  /\ l2[k].haskey = l[k].haskey
            /\ LET q == [name |-> "none", haskey |-> TRUE, mod |-> "none"]
                   a == St!FindIdentity(l, q, 0)
                   b == St!FindIdentity(l2, q, 0)
               IN  a = b /\ (a # 0 => l2[b].val = l[a].val)

\* Spec property 7: Import of what Export(ident, exportkey) wrote returns an
\* identity with the same name and modulus, holding the private key
\* exactly when it was exported.
ExportImportIdentity ==
    case.kind = "store" /\ case.in = <<>> =>
        \A i \in {I1, I2}, hk \in BOOLEAN, ek \in BOOLEAN :
            LET r == St!ImportIdentity(St!ExportIdentity(i, hk, ek))
            IN  /\ r.ok /\ r.e.type = "IDENTITY" /\ r.e.val = i
                /\ r.e.haskey = (hk /\ ek)


\* sfs's Auth and HandleResp take a session key or flags only from an
\* envelope ImportEnvelope opens: an envelope opens exactly for the
\* recipient it was sealed to, holding its key, and, when a signer is
\* asked for, only if that signer signed it; it gives back the bytes,
\* and an empty payload never opens.  ExportEnvelope fails only for a
\* signer without its key.
EnvelopeSealsToRecipient ==
    case.kind = "store" /\ case.in = <<>> =>
        \A d \in {<<>>, <<1>>, <<1, 2>>}, r \in {I1, I2}, sg \in {<<>>, <<I1>>, <<I2>>},
          shk \in BOOLEAN :
            LET e == St!ExportEnvelope(d, r, sg, shk)
            IN  /\ (e.ret > 0) <=> (sg = <<>> \/ shk)
                /\ e.ret > 0 =>
                      \A x \in {I1, I2}, rhk \in BOOLEAN, a \in {<<>>, <<I1>>, <<I2>>} :
                          LET i == St!ImportEnvelope(e.env, e.ret, x, rhk, a)
                          IN  /\ (i.ret > 0) <=> (x = r /\ rhk /\ d # <<>> /\ (a = <<>> \/ a = sg))
                              /\ i.ret > 0 => i.data = d /\ i.ret = Len(d)

\* EncodeBase64 writes the RFC 4648 encoding, a '\n' after every bpl bytes
\* but the last, and a NUL, filling exactly the total it returns (the size
\* callers allocate by) and writing nothing outside dst .. dst + total; the
\* same holds when, as in Search, the source and the destination are one
\* buffer and bpl is the size.
Base64MatchesReference ==
    case.kind = "b64" =>
        LET x   == case.in
            n   == Len(x)
            mem == [a \in 0 .. 24 |-> IF a < n THEN x[a + 1] ELSE 7]
        IN  \A bpl \in 2 .. 5 : \A dst \in {12} \cup (IF bpl >= n THEN {0} ELSE {}) :
              LET e   == En!EncodeBase64(mem, 0, n, dst, bpl)
                  out == [k \in 1 .. e.ret |-> e.mem[dst + k - 1]]
              IN  /\ e.d = dst - 1
                  /\ e.mem[dst + e.ret] = 0
                  /\ SelectSeq(out, LAMBDA ch : ch # 10) = RefBase64(x)
                  /\ Len(out) - Len(RefBase64(x)) = IF n > bpl THEN (n - 1) \div bpl ELSE 0
                  /\ \A a \in DOMAIN mem : a < dst \/ a > dst + e.ret =>
                        e.mem[a] = mem[a]

\* DecodeBase64 of what EncodeBase64 wrote, line breaks and padding
\* included, gives back the bytes and their number, for every bpl.
Base64RoundTrip ==
    case.kind = "b64" =>
        \A bpl \in 2 .. 5 : En!DecodeBase64(En!Encoded(case.in, bpl)) = case.in

\* The authentication headers of GetAuth and PutAuth: after the request
\* line, AppendAuthValue("Identity", key) and ("Challenge", chal), and
\* GetAuthValue on that header gives back the key and the challenge, and
\* fails for "Response", also when the file name holds "Identity".
AuthValueRoundTrip ==
    case.kind = "b64" =>
        \A r \in Rqsts, ch \in Chals :
            LET h == En!AppendAuthValue(En!AppendAuthValue(r, Identity, case.in),
                                        Challenge, ch) \o <<13, 10>>
            IN  /\ En!GetAuthValue(h, Identity) = [ret |-> 0, value |-> case.in]
                /\ En!GetAuthValue(h, Challenge) = [ret |-> 0, value |-> ch]
                /\ En!GetAuthValue(h, Response).ret = -1

\* The store cert starts from, and the state after main's walk of argv.
CertStart == Ce!Main(case.in[1], CertFiles, 9, <<>>)
CertEnd == Ce!Main(case.in[1], CertFiles, 9, case.in[2])
CertOps == {case.in[2][k].op : k \in DOMAIN case.in[2]}
LocalOf(l) == IF Ce!Local(l) = 0 THEN <<>> ELSE <<l[Ce!Local(l)].val>>

\* Insert refuses a certificate with the local name and Remove the local
\* certificate: unless argv holds --setup or --load, the local identity
\* (the first with a private key) is the same after any walk of argv.
CertLocalKept ==
    case.kind = "cert" /\ CertOps \cap {"--setup", "--load"} = {} =>
        LocalOf(CertEnd.l) = LocalOf(CertStart.l)

\* Insert removes the stored certificate of a name before it appends the
\* new one: the store never holds two certificates of one name.
CertOneIdentityPerName ==
    case.kind = "cert" =>
        \A j, k \in DOMAIN CertEnd.l : j # k => CertEnd.l[j].val.name # CertEnd.l[k].val.name

\* --export and --sign write a certificate with Save(ident, path, passwd),
\* which inserts it with exportkey 0: unless argv holds --save, no file
\* the walk writes carries a private key, the local one included.
CertKeyStaysHome ==
    case.kind = "cert" /\ "--save" \notin CertOps =>
        \A p \in DOMAIN CertFiles :
            CertEnd.files[p] # CertFiles[p] =>
                \A k \in DOMAIN CertEnd.files[p].bags : CertEnd.files[p].bags[k].bag # "key"

\* Every option that changes the store ends with SaveAll, after --setup's
\* and --load's Reset too: what the next run of cert loads from the
\* store file is the store this one ended with, each identity with its
\* private key exactly when it holds one.
CertStoreSaved ==
    case.kind = "cert" =>
        LET l2 == St!Load(CertEnd.home).l
        IN  /\ Len(l2) = Len(CertEnd.l)
            /\ \A k \in DOMAIN l2 : l2[k].val = CertEnd.l[k].val /\ l2[k].haskey = CertEnd.l[k].haskey

\* The directories below d, d included (none when d cannot be opened).
RECURSIVE ShUnder(_)
ShUnder(d) == IF d \notin DOMAIN ShSub THEN {}
              ELSE {d} \cup UNION {ShUnder(ShSub[d][k]) : k \in DOMAIN ShSub[d]}

ShEnd == Sh!Run(Sh!Start({"f1", "f2", "f3"}, {"g"}), case.in)
ShView(e) == [name |-> e.name, ctx |-> e.ctx]

\* The entries a reference scan of the shares publishes: for each file that
\* existed at the last Rescan, one per share whose tree holds it and whose
\* extension list passes its name, with that share's group.
ShExpected(s) ==
    LET n(x) == Cardinality({k \in DOMAIN s.shared :
                    /\ s.shared[k].group = x.ctx
                    /\ x.name \in s.seen /\ ShDirOf[x.name] \in ShUnder(s.shared[k].path)
                    /\ Sh!Matches(x.name, s.shared[k].ext)})
        xs == {x \in [name : {"f1", "f2", "f3"}, ctx : {"g", ShNone}] : n(x) > 0}
    IN  [x \in xs |-> n(x)]

\* Whatever AddShared, RemoveShared, UpdateShared, RescanAllShared, the
\* console's share/join/leave, late key downloads and files vanishing do,
\* the collection publishes, after each call's Rescan, exactly the files of
\* the listed shares with each share's group, once per share (the sweep
\* deleting every scanned entry, Scan walking each tree once, ScanDir
\* filtering subdirectories with the share's list), and keeps every key
\* data entry JoinGroup and FetchKey Added.  Shares of distinct paths:
\* Collection::Remove(path) drops the Dirs of every share of a path.
SharesPublished ==
    case.kind = "shares" /\ ~ShEnd.dup =>
        LET s == ShEnd
            scanned == SelectSeq(s.entries, LAMBDA e : e.rescanned)
            data == SelectSeq(s.entries, LAMBDA e : ~e.rescanned)
        IN  /\ SE!ToBag([k \in DOMAIN scanned |-> ShView(scanned[k])]) = ShExpected(s)
            /\ [k \in DOMAIN data |-> ShView(data[k])] = [k \in DOMAIN s.keys |-> ShView(s.keys[k])]

=============================================================================
