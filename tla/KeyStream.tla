------------------------------ MODULE KeyStream ------------------------------
(***************************************************************************)
(* The symmetric codec of PTP::Key (src/ptp/key.cpp): buffer and streaming *)
(* Encrypt and Decrypt with a prepended IV and an appended SHA-1 digest.   *)
(* A byte is a record.  The Blowfish-OFB keystream is abstracted to what   *)
(* it does: a byte encrypted under IV iv at keystream offset i decrypts to *)
(* itself only under the same IV at the same offset, and to junk           *)
(* otherwise.  Digest(s) is an injective tag of the digested bytes.  The   *)
(* read callback delivers the stream in any chunks, then returns 0 (EOF)   *)
(* or -1 (err); the write callback accepts all bytes, as spec 4.D requires.*)
(***************************************************************************)
EXTENDS Integers, Sequences

CONSTANTS DigestSize,   \* PTP_DIGEST_SIZE
          IvSize        \* IV_SIZE

Padded == 2 * DigestSize    \* DIGEST_PADDED_SIZE

EncByte(x, iv, i) == [p |-> x, iv |-> iv, at |-> i]

DecByte(c, iv, i) ==
    IF "iv" \in DOMAIN c /\ c.iv = iv /\ c.at = i THEN c.p
    ELSE [junk |-> <<c, iv, i>>]

\* EVP_EncryptUpdate / EVP_DecryptUpdate of s at keystream offset i.
EncSeq(s, iv, i) == [k \in DOMAIN s |-> EncByte(s[k], iv, i + k - 1)]
DecSeq(s, iv, i) == [k \in DOMAIN s |-> DecByte(s[k], iv, i + k - 1)]

Digest(s) == [j \in 1 .. DigestSize |-> [dg |-> s, j |-> j]]

ZeroIv == [j \in 1 .. IvSize |-> [ivb |-> 0]]

Drop(s, k) == SubSeq(s, k + 1, Len(s))

(***************************************************************************)
(* ReadAll(read, buffer, k): calls read until k bytes came or it returned  *)
(* 0 or -1.  in is [bytes, err]: what the callback still delivers and      *)
(* whether it then fails.                                                  *)
(***************************************************************************)
\* Mutant: a read error ends the loop like EOF (break instead of return -1).
ReadAllErrAsEof(in, k) ==
    IF k <= Len(in.bytes) THEN IF k < 0 THEN 0 ELSE k
    ELSE Len(in.bytes)

ReadAll(in, k) ==
    IF k <= Len(in.bytes) THEN IF k < 0 THEN 0 ELSE k
    ELSE IF in.err THEN -1 ELSE Len(in.bytes)

Consume(in, s) == [in EXCEPT !.bytes = Drop(@, s)]

(***************************************************************************)
(* Buffer Encrypt(plain, size, cipher, iv, digest) with cipher non-NULL:   *)
(* -1 for an empty plaintext, otherwise the IV (or nothing), then the      *)
(* plaintext and the digest (or nothing) under one keystream.              *)
(***************************************************************************)
BufEncrypt(p, ivRnd, useIv, dg) ==
    LET iv == IF useIv THEN ivRnd ELSE ZeroIv
        c  == (IF useIv THEN iv ELSE <<>>)
                \o EncSeq(p \o (IF dg THEN Digest(p) ELSE <<>>), iv, 1)
    IN  IF Len(p) <= 0 THEN [total |-> -1, out |-> <<>>]
        ELSE [total |-> Len(c), out |-> c]

\* Buffer Decrypt(cipher, size, plain, iv, digest) with plain non-NULL: the
\* plaintext size, or -1 when it would be at most 0 or the digest differs.
BufDecrypt(c, useIv, dg) ==
    LET ivLen == IF useIv THEN IvSize ELSE 0
        dgLen == IF dg THEN DigestSize ELSE 0
        iv    == IF useIv THEN SubSeq(c, 1, IvSize) ELSE ZeroIv
        plain == DecSeq(Drop(c, ivLen), iv, 1)
        n     == Len(plain) - dgLen
    IN  IF Len(c) - ivLen - dgLen <= 0 THEN [total |-> -1, out |-> <<>>]
        ELSE IF dg /\ SubSeq(plain, n + 1, n + DigestSize) # Digest(SubSeq(plain, 1, n))
             THEN [total |-> -1, out |-> <<>>]
             ELSE [total |-> n, out |-> SubSeq(plain, 1, n)]

(***************************************************************************)
(* Streaming Encrypt(read, write, context, iv, digest, readsize): write    *)
(* the IV, then each ReadAll of readsize bytes encrypted, then the digest  *)
(* encrypted.  out is what reached write; the result is [total, out].     *)
(***************************************************************************)
RECURSIVE EncLoop(_, _, _, _, _, _, _)
EncLoop(in, r, iv, dg, pos, acc, out) ==
    LET size == ReadAll(in, r)
        chunk == SubSeq(in.bytes, 1, size)
    IN  IF size < 0 THEN [total |-> -1, out |-> out]
        ELSE IF size = 0
             THEN LET tail == IF dg THEN EncSeq(Digest(acc), iv, pos) ELSE <<>>
                  IN  [total |-> Len(out \o tail), out |-> out \o tail]
        ELSE EncLoop(Consume(in, size), r, iv, dg, pos + size,
                     IF dg THEN acc \o chunk ELSE acc,
                     out \o EncSeq(chunk, iv, pos))

StreamEncrypt(in, r, ivRnd, useIv, dg) ==
    LET iv == IF useIv THEN ivRnd ELSE ZeroIv
    IN  EncLoop(in, r, iv, dg, 1, <<>>, IF useIv THEN iv ELSE <<>>)

(***************************************************************************)
(* Streaming Decrypt(read, write, context, iv, digest, readsize).  buf is  *)
(* the size bytes at the front of buffer, still encrypted; pos is the      *)
(* keystream offset of buf[1].  With the digest, each turn keeps the last  *)
(* DIGEST_PADDED_SIZE bytes and emits the rest; the loop ends on the first *)
(* ReadAll that returns at most 0.  DecFinal decrypts what is left, takes  *)
(* its last PTP_DIGEST_SIZE bytes as the digest and compares it.  crash    *)
(* records EVP_DigestUpdate called with a negative size, which it takes as *)
(* a size_t of about 2^64.                                                 *)
(***************************************************************************)
DecFinal(buf, iv, dg, pos, out) ==
    LET plain == DecSeq(buf, iv, pos)
        size  == IF dg THEN Len(plain) - DigestSize ELSE Len(plain)
        all   == out \o SubSeq(plain, 1, size)
    IN  IF dg /\ size < 0 THEN [total |-> -1, out |-> out, crash |-> TRUE]
        ELSE [total |-> IF dg /\ SubSeq(plain, size + 1, size + DigestSize) # Digest(all)
                        THEN -1 ELSE Len(all),
              out   |-> all,
              crash |-> FALSE]

\* Mutant: after emitting, the padded tail is dropped instead of moved to
\* the front of the buffer (memmove left out, size = DIGEST_PADDED_SIZE).
DecTurnNoMove(b, iv, dg, pos, out) ==
    LET size == Len(b) - Padded
    IN  IF dg /\ size > 0
        THEN [buf |-> SubSeq(b, 1, Padded), pos |-> pos + size,
              out |-> out \o DecSeq(SubSeq(b, 1, size), iv, pos)]
        ELSE IF ~dg /\ Len(b) > 0
        THEN [buf |-> <<>>, pos |-> pos + Len(b), out |-> out \o DecSeq(b, iv, pos)]
        ELSE [buf |-> b, pos |-> pos, out |-> out]

\* One turn on the filled buffer b: emit all but the padded tail (digest)
\* or everything (no digest).
DecTurn(b, iv, dg, pos, out) ==
    LET size == Len(b) - Padded
    IN  IF dg /\ size > 0
        THEN [buf |-> Drop(b, size), pos |-> pos + size,
              out |-> out \o DecSeq(SubSeq(b, 1, size), iv, pos)]
        ELSE IF ~dg /\ Len(b) > 0
        THEN [buf |-> <<>>, pos |-> pos + Len(b), out |-> out \o DecSeq(b, iv, pos)]
        ELSE [buf |-> b, pos |-> pos, out |-> out]

RECURSIVE DecLoop(_, _, _, _, _, _, _)
DecLoop(in, buf, r, iv, dg, pos, out) ==
    LET s == ReadAll(in, r - Len(buf))
        t == DecTurn(buf \o SubSeq(in.bytes, 1, s), iv, dg, pos, out)
    IN  IF s < 0 THEN [total |-> -1, out |-> out, crash |-> FALSE]
        ELSE IF s = 0 THEN DecFinal(t.buf, iv, dg, t.pos, t.out)
        ELSE DecLoop(Consume(in, s), t.buf, r, iv, dg, t.pos, t.out)

StreamDecrypt(in, r, useIv, dg) ==
    LET n == IF useIv THEN ReadAll(in, IvSize) ELSE 0
        iv == IF useIv THEN SubSeq(in.bytes, 1, IvSize) ELSE ZeroIv
    IN  IF useIv /\ n # IvSize THEN [total |-> -1, out |-> <<>>, crash |-> FALSE]
        ELSE DecLoop(Consume(in, n), <<>>, r, iv, dg, 1, <<>>)

=============================================================================
