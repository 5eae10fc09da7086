------------------------------- MODULE Encoding -------------------------------
(***************************************************************************)
(* PTP::Encoding (src/ptp/encode.cpp): EncodeBase64 and DecodeBase64.      *)
(* Bytes and characters are their integer values.  EncodeBase64 walks the  *)
(* source from its last byte to its first and writes the destination from *)
(* its end to its start, so it is modelled over a memory mem (a function  *)
(* from addresses to values) in which the source and the destination may  *)
(* overlap, as they do when Search encodes its ciphertext in place.  The  *)
(* shifts and masks of the code are written as \div and % on values that *)
(* fit in a byte; an OR of disjoint bit fields is a sum.                   *)
(***************************************************************************)
EXTENDS Integers, Sequences

NL == 10    \* '\n'
PAD == 61   \* '='
NUL == 0

\* table[] of EncodeBase64: "A".."Z", "a".."z", "0".."9", "+", "/".
EncTable(v) ==
    CASE v < 26 -> 65 + v
      [] v < 52 -> 97 + v - 26
      [] v < 62 -> 48 + v - 52
      [] v = 62 -> 43
      [] OTHER  -> 47

\* Mutant: the line breaks counted as size / bpl.
TotalOffByOne(size, bpl) ==
    ((size + 2) \div 3) * 4 + (IF size > bpl THEN size \div bpl ELSE 0)

\* The size of the encoding, without the NUL.
Total(size, bpl) ==
    ((size + 2) \div 3) * 4 + (IF size > bpl THEN (size - 1) \div bpl ELSE 0)

Write(mem, a, v) == [mem EXCEPT ![a] = v]

(***************************************************************************)
(* The for loop: s is the address of the next source byte, d the next     *)
(* destination address, prev the byte read before, bits (2 * bytes left)  *)
(* mod 6 and cnt the bytes left on the current line.  A line break is      *)
(* written before the byte is read.  After the loop, a pending 2-bit rest *)
(* gives one more character.  The result is [mem, d].                     *)
(***************************************************************************)
RECURSIVE EncLoop(_, _, _, _, _, _, _, _)
EncLoop(mem, s, d, src, prev, bits, cnt, bpl) ==
    IF s < src
    THEN IF bits = 2 THEN [mem |-> Write(mem, d, EncTable(prev \div 4)), d |-> d - 1]
         ELSE [mem |-> mem, d |-> d]
    ELSE LET brk == cnt <= 0
             m1  == IF brk THEN Write(mem, d, NL) ELSE mem
             d1  == IF brk THEN d - 1 ELSE d
             x   == m1[s]
             b   == (bits + 4) % 6
             m2  == CASE b = 0 -> Write(m1, d1, EncTable(prev \div 4))
                      [] b = 2 -> Write(m1, d1, EncTable((x % 4) * 16 + prev \div 16))
                      [] OTHER -> Write(Write(m1, d1, EncTable(prev % 64)),
                                        d1 - 1, EncTable((x % 16) * 4 + prev \div 64))
         IN  EncLoop(m2, s - 1, IF b = 4 THEN d1 - 2 ELSE d1 - 1, src, x, b,
                     IF brk THEN bpl - 1 ELSE cnt - 1, bpl)

(***************************************************************************)
(* EncodeBase64(src, size, dst, bpl) with src at address src, size >= 1    *)
(* and dst non-NULL: the last byte is read, the NUL goes to dst + total,  *)
(* the padding of a 1- or 2-byte last group is written, then the loop.    *)
(* ret is the returned total; d ends at dst - 1 when the writes filled    *)
(* exactly dst .. dst + total.                                             *)
(***************************************************************************)
EncodeBase64(mem, src, size, dst, bpl) ==
    LET total == Total(size, bpl)
        prev  == mem[src + size - 1]
        bits  == (2 * size) % 6
        cnt0  == size % bpl
        m0    == Write(mem, dst + total, NUL)
        m1    == IF cnt0 <= 0 /\ size % bpl # 0 THEN Write(m0, dst + total - 1, NL) ELSE m0
        d1    == IF cnt0 <= 0 /\ size % bpl # 0 THEN dst + total - 2 ELSE dst + total - 1
        m2    == CASE bits = 2 -> Write(Write(Write(m1, d1, PAD), d1 - 1, PAD),
                                        d1 - 2, EncTable((prev % 4) * 16))
                   [] bits = 4 -> Write(Write(m1, d1, PAD), d1 - 1, EncTable((prev % 16) * 4))
                   [] OTHER    -> m1
        d2    == CASE bits = 2 -> d1 - 3 [] bits = 4 -> d1 - 2 [] OTHER -> d1
        r     == EncLoop(m2, src + size - 2, d2, src, prev, bits,
                         IF cnt0 <= 0 THEN bpl ELSE cnt0, bpl)
    IN  IF bpl <= 0 THEN [ret |-> -1, mem |-> mem, d |-> dst - 1]
        ELSE [ret |-> total, mem |-> r.mem, d |-> r.d]

(***************************************************************************)
(* DecodeBase64(src, size, dst): table[] maps c - '+' for c in '+' .. 'z'  *)
(* to its 6-bit value or INVL; other characters, '=' and '\n' among them, *)
(* are skipped.  Every 6 bits after the first complete a byte.            *)
(***************************************************************************)
INVL == 255
DecTable ==
    << 62, INVL, INVL, INVL, 63, 52, 53, 54,
       55, 56, 57, 58, 59, 60, 61, INVL,
       INVL, INVL, INVL, INVL, INVL, INVL, 0, 1,
       2, 3, 4, 5, 6, 7, 8, 9,
       10, 11, 12, 13, 14, 15, 16, 17,
       18, 19, 20, 21, 22, 23, 24, 25,
       INVL, INVL, INVL, INVL, INVL, INVL, 26, 27,
       28, 29, 30, 31, 32, 33, 34, 35,
       36, 37, 38, 39, 40, 41, 42, 43,
       44, 45, 46, 47, 48, 49, 50, 51 >>

RECURSIVE DecLoop(_, _, _, _, _)

\* Mutant: the bit count kept mod 6 instead of mod 8 (& 0x7).
DecLoopMod6(src, k, prev, bits, out) ==
    IF k > Len(src) THEN out
    ELSE LET i == src[k] - 43
         IN  IF i < 0 \/ i >= Len(DecTable) \/ DecTable[i + 1] = INVL
             THEN DecLoop(src, k + 1, prev, bits, out)
             ELSE LET val == DecTable[i + 1]
                      b   == (bits + 6) % 6
                  IN  DecLoop(src, k + 1, val, b,
                              IF b # 6 THEN Append(out, (prev * 2^(6 - b) + val \div 2^b) % 256)
                              ELSE out)

DecLoop(src, k, prev, bits, out) ==
    IF k > Len(src) THEN out
    ELSE LET i == src[k] - 43
         IN  IF i < 0 \/ i >= Len(DecTable) \/ DecTable[i + 1] = INVL
             THEN DecLoop(src, k + 1, prev, bits, out)
             ELSE LET val == DecTable[i + 1]
                      b   == (bits + 6) % 8
                  IN  DecLoop(src, k + 1, val, b,
                              IF b # 6 THEN Append(out, (prev * 2^(6 - b) + val \div 2^b) % 256)
                              ELSE out)

\* The bytes written to dst; their number is the result.
DecodeBase64(src) == DecLoop(src, 1, 0, 0, <<>>)

(***************************************************************************)
(* Trut::AppendAuthValue(hdr, name, value, size) and GetAuthValue(hdr,    *)
(* name, value, size) (src/samples/trutella/trut.cpp): a header line       *)
(* "name: " and the encoding with bpl = size, so on one line, then CR LF; *)
(* and the value after the first occurrence of name that is followed by  *)
(* ':', past spaces and tabs, as far as the Base64 alphabet goes, decoded *)
(* into value.  size is not used by GetAuthValue.                         *)
(***************************************************************************)
Colon == 58
Blanks == {32, 9}
Alphabet == {EncTable(v) : v \in 0 .. 63}

\* The characters EncodeBase64 writes for the bytes v into a buffer of
\* its own, without the NUL.
Encoded(v, bpl) ==
    LET n   == Len(v)
        mem == [a \in 1 .. n + 1 + Total(n, bpl) |-> IF a <= n THEN v[a] ELSE NUL]
        e   == EncodeBase64(mem, 1, n, n + 1, bpl)
    IN  [k \in 1 .. e.ret |-> e.mem[n + k]]

AppendAuthValue(hdr, name, v) ==
    hdr \o name \o <<Colon, 32>> \o Encoded(v, Len(v)) \o <<13, 10>>

\* The length of the longest prefix of s made of characters of cs (strspn).
StrSpn(s, cs) ==
    LET ok == {k \in 0 .. Len(s) : \A j \in 1 .. k : s[j] \in cs}
    IN  CHOOSE k \in ok : \A j \in ok : j <= k

\* The position of the ':' after name: strstr from k, and when the name
\* is not followed by ':', strstr again from the end of the name; 0 when
\* strstr returns NULL.
RECURSIVE NameEnd(_, _, _)

\* Mutant: the first occurrence of name is taken, ':' or not.
NameEndNoColon(hdr, name, k) ==
    LET e == k + Len(name)
    IN  CASE e - 1 > Len(hdr) -> 0
          [] SubSeq(hdr, k, e - 1) # name -> NameEnd(hdr, name, k + 1)
          [] OTHER -> e

NameEnd(hdr, name, k) ==
    LET e == k + Len(name)
    IN  CASE e - 1 > Len(hdr) -> 0
          [] SubSeq(hdr, k, e - 1) # name -> NameEnd(hdr, name, k + 1)
          [] e <= Len(hdr) /\ hdr[e] = Colon -> e
          [] OTHER -> NameEnd(hdr, name, e)

GetAuthValue(hdr, name) ==
    LET c     == NameEnd(hdr, name, 1)
        rest  == SubSeq(hdr, c + 1, Len(hdr))
        start == SubSeq(rest, StrSpn(rest, Blanks) + 1, Len(rest))
    IN  IF c = 0 THEN [ret |-> -1]
        ELSE [ret |-> 0, value |-> DecodeBase64(SubSeq(start, 1, StrSpn(start, Alphabet)))]

=============================================================================
