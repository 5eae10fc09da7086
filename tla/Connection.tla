------------------------------ MODULE Connection -----------------------------
(***************************************************************************)
(* PTP::Net::Connection (src/ptp/net.cpp) over a byte stream: the unget   *)
(* buffer, Read, ReadAll, Accept's type detection, ReadHttpHdr with       *)
(* UngetData, and the HTTP messages of WriteHttp and ReadHttp.  A         *)
(* connection is [unget, sock, err]: the bytes of the unget buffer        *)
(* (m_ungetNext .. m_ungetLast), the TCP segments the socket still        *)
(* delivers, in order, and whether read() then fails instead of returning *)
(* 0.  read() returns at most what is left of the first segment.  Bytes   *)
(* are strings; "CR" and "LF" stand for '\r' and '\n', and no byte is NUL. *)
(***************************************************************************)
EXTENDS Integers, Sequences
LOCAL INSTANCE SequencesExt

CONSTANT HeaderSize     \* Trut::HEADER_SIZE, the maxsize of every ReadHttpHdr

Null == [ok |-> FALSE]  \* a NULL result

MinOf(a, b) == IF a <= b THEN a ELSE b

\* Unget(data, size): the bytes go in front of what the buffer holds.
Unget(c, d) == [c EXCEPT !.unget = d \o @]

\* Get(data, size): at most size bytes from the unget buffer.
Get(c, size) ==
    LET k == MinOf(size, Len(c.unget))
    IN  [n |-> k, data |-> SubSeq(c.unget, 1, k),
         c |-> [c EXCEPT !.unget = SubSeq(@, k + 1, Len(@))]]

\* read(m_s, data, size) on the socket.
SockRead(c, size) ==
    IF c.sock = <<>> THEN [n |-> IF c.err THEN -1 ELSE 0, data |-> <<>>, c |-> c]
    ELSE LET seg == Head(c.sock)
             k   == MinOf(size, Len(seg))
         IN  [n |-> k, data |-> SubSeq(seg, 1, k),
              c |-> [c EXCEPT !.sock = IF k = Len(seg) THEN Tail(@)
                                       ELSE <<SubSeq(seg, k + 1, Len(seg))>> \o Tail(@)]]

\* Read(data, size, timeout): the unget buffer first, the socket only when
\* the buffer is empty.
Read(c, size) ==
    IF size <= 0 THEN [n |-> size, data |-> <<>>, c |-> c]
    ELSE LET g == Get(c, size)
         IN  IF g.n # 0 THEN g ELSE SockRead(c, size)

\* ReadAll(data, size, timeout): Read until size bytes, 0 or -1.
RECURSIVE ReadAll(_, _, _)
ReadAll(c, size, got) ==
    IF Len(got) >= size THEN [n |-> Len(got), data |-> got, c |-> c]
    ELSE LET r == Read(c, size - Len(got))
         IN  CASE r.n < 0  -> [n |-> -1, data |-> got, c |-> r.c]
               [] r.n = 0  -> [n |-> Len(got), data |-> got, c |-> r.c]
               [] OTHER    -> ReadAll(r.c, size, got \o r.data)

\* strstr(s, t): the first index of t in s, or 0.
StrStr(s, t) ==
    LET at == {i \in 1 .. Len(s) : IsPrefix(t, SubSeq(s, i, Len(s)))}
    IN  IF at = {} THEN 0 ELSE CHOOSE i \in at : \A j \in at : i <= j

CRLFCRLF == <<"CR", "LF", "CR", "LF">>
LFLF == <<"LF", "LF">>

(***************************************************************************)
(* UngetData(hdr, size): the header ends after the first "\r\n\r\n" or,   *)
(* when there is none, after the first "\n\n".  The bytes after it go back *)
(* to the unget buffer and the header is cut there.  un is the size        *)
(* returned: the bytes given back, or -1 when the header has no end yet.   *)
(***************************************************************************)
UngetData(c, h) ==
    LET i   == StrStr(h, CRLFCRLF)
        j   == StrStr(h, LFLF)
        end == IF i > 0 THEN i + 3 ELSE IF j > 0 THEN j + 1 ELSE 0
        un  == Len(h) - end
    IN  IF end = 0 THEN [un |-> -1, c |-> c, h |-> h]
        ELSE [un |-> un,
              c  |-> IF un > 0 THEN Unget(c, SubSeq(h, end + 1, Len(h))) ELSE c,
              h  |-> SubSeq(h, 1, end)]

RECURSIVE HdrLoop(_, _, _, _)

\* Mutant: the body bytes read with the header are dropped, not given back.
HdrLoopNoUnget(c, h, total, maxsize) ==
    LET remain == total - Len(h) - 1
        r      == Read(c, remain)
        h2     == h \o r.data
        end    == UngetData(r.c, h2)
    IN  CASE remain <= 0 /\ maxsize >= 0 -> [ok |-> Len(h) > 0, hdr |-> h, c |-> c]
          [] remain <= 0 -> HdrLoop(c, h, total * 2, maxsize)
          [] r.n < 0     -> Null
          [] end.un >= 0 -> [ok |-> Len(end.h) > 0, hdr |-> end.h, c |-> r.c]
          [] r.n = 0     -> [ok |-> Len(h2) > 0, hdr |-> h2, c |-> r.c]
          [] OTHER       -> HdrLoop(r.c, h2, total, maxsize)

(***************************************************************************)
(* ReadHttpHdr(hdr, maxsize, ...) with a caller's buffer of maxsize bytes: *)
(* Read up to the space left (keeping one byte for the NUL) until          *)
(* UngetData finds the end of the header, the peer closes, or the buffer  *)
(* is full; the header is returned unless it is empty or a read failed.    *)
(* With maxsize -1 the buffer doubles when full.                           *)
(***************************************************************************)
HdrLoop(c, h, total, maxsize) ==
    LET remain == total - Len(h) - 1
        r      == Read(c, remain)
        h2     == h \o r.data
        end    == UngetData(r.c, h2)
    IN  CASE remain <= 0 /\ maxsize >= 0 -> [ok |-> Len(h) > 0, hdr |-> h, c |-> c]
          [] remain <= 0 -> HdrLoop(c, h, total * 2, maxsize)
          [] r.n < 0     -> Null
          [] end.un >= 0 -> [ok |-> Len(end.h) > 0, hdr |-> end.h, c |-> end.c]
          [] r.n = 0     -> [ok |-> Len(h2) > 0, hdr |-> h2, c |-> r.c]
          [] OTHER       -> HdrLoop(r.c, h2, total, maxsize)

ReadHttpHdr(c, maxsize) ==
    HdrLoop(c, <<>>, IF maxsize >= 0 THEN maxsize ELSE 512, maxsize)

(***************************************************************************)
(* Accept(1): one Read of at most 64 bytes, given back with Unget, and the *)
(* type from its first bytes.  STRNCMP_CONST compares 4 or 5 bytes of the *)
(* 64-byte stack buffer whatever the Read returned: past the bytes read it *)
(* compares what the buffer held before, so the type is a choice over the  *)
(* bytes that could be there.  types is the set of possible results.      *)
(***************************************************************************)
Tunnel == <<"P", "U", "T", " ", "/", "t">>     \* "PUT /tunnel HTTP/1.0\r\n"
HttpPrefixes == {<<"G", "E", "T", " ">>, <<"P", "U", "T", " ">>,
                 <<"P", "O", "S", "T", " ">>}

\* The buffer may (Fits) or must (Reaches) begin with pre, given the bytes d
\* the Read put there.
Fits(d, pre) == \A i \in 1 .. MinOf(Len(d), Len(pre)) : d[i] = pre[i]
Reaches(d, pre) == Len(d) >= Len(pre) /\ Fits(d, pre)

Types(d) ==
    (IF (\E p \in HttpPrefixes : Fits(d, p)) /\ ~Reaches(d, Tunnel)
     THEN {"HTTP"} ELSE {}) \cup
    (IF (\E p \in HttpPrefixes : Reaches(d, p)) /\ ~Fits(d, Tunnel)
     THEN {} ELSE {"RAW"})

Accept(c) ==
    LET r == Read(c, 64)
    IN  IF r.n <= 0 THEN Null
        ELSE [ok |-> TRUE, types |-> Types(r.data), c |-> Unget(r.c, r.data)]

(***************************************************************************)
(* WriteHttp(method, url, hdr, data, type, size) and WriteHttp(status,     *)
(* hdr, data, type, size): the first line, the extra header, the          *)
(* Content-type and Content-length lines only when size is not 0, the     *)
(* blank line and the data.  The first line, the text "Content-type: ..." *)
(* and the text "Content-length:" are one symbol each; the length is      *)
(* written in decimal digits (lengths below 10 here).                     *)
(***************************************************************************)
DigitChars == <<"0", "1", "2", "3", "4", "5", "6", "7", "8", "9">>
CRLF == <<"CR", "LF">>

ContentLines(size) ==
    IF size = 0 THEN <<>>
    ELSE <<"CT">> \o CRLF \o <<"CLEN", " ", DigitChars[size + 1]>> \o CRLF

WriteHttpRequest(hdr, d) == <<"REQ">> \o CRLF \o hdr \o ContentLines(Len(d)) \o CRLF \o d
WriteHttpStatus(hdr, d) == <<"HTTP">> \o CRLF \o hdr \o ContentLines(Len(d)) \o CRLF \o d

\* strtoul(s, NULL, 10): leading spaces, then the longest run of digits.
RECURSIVE Digits(_, _)
Digits(s, v) ==
    IF s # <<>> /\ \E k \in 1 .. 10 : DigitChars[k] = Head(s)
    THEN Digits(Tail(s), v * 10 + (CHOOSE k \in 1 .. 10 : DigitChars[k] = Head(s)) - 1)
    ELSE v
Strtoul(s) ==
    LET sp == {k \in 0 .. Len(s) : \A j \in 1 .. k : s[j] = " "}
    IN  Digits(SubSeq(s, (CHOOSE k \in sp : k + 1 \notin sp) + 1, Len(s)), 0)

\* ReadHttpHdr's contentsize: after "\nContent-length:" or
\* "\nContent-Length:", or -1.
ContentSize(h) ==
    LET i == StrStr(h, <<"LF", "CLEN">>)
        j == StrStr(h, <<"LF", "CLen">>)
        at == IF i > 0 THEN i ELSE j
    IN  IF at = 0 THEN -1 ELSE Strtoul(SubSeq(h, at + 2, Len(h)))

(***************************************************************************)
(* ReadHttp(NULL, maxsize, status, contentsize): the header, read with    *)
(* maxsize as its own limit, then the body into a buffer of the content   *)
(* size + 1, or 1024 bytes when there is none; with maxsize -1 and a      *)
(* content size, maxsize becomes that size.  ReadAll fills the buffer     *)
(* but one byte; a full buffer is doubled and read again only while       *)
(* maxsize is -1.  A failed ReadAll still returns the buffer, with        *)
(* contentsize -1.  The result is [ok, data, n], n the contentsize.       *)
(***************************************************************************)
RECURSIVE BodyLoop(_, _, _, _)
BodyLoop(c, got, total, maxsize) ==
    LET remain == total - Len(got) - 1
        r      == ReadAll(c, remain, <<>>)
    IN  CASE r.n < 0 -> [ok |-> TRUE, data |-> got \o r.data, n |-> -1, c |-> r.c]
          [] r.n < remain \/ maxsize >= 0 ->
                 [ok |-> TRUE, data |-> got \o r.data, n |-> Len(got) + r.n, c |-> r.c]
          [] OTHER -> BodyLoop(r.c, got \o r.data, total * 2, maxsize)

\* Mutant: maxsize stays -1 when the header gives a content size.
ReadHttpNoLimit(c, maxsize) ==
    LET h    == ReadHttpHdr(c, maxsize)
        size == ContentSize(h.hdr)
    IN  IF ~h.ok \/ (maxsize >= 0 /\ size > maxsize) THEN Null
        ELSE BodyLoop(h.c, <<>>, IF size >= 0 THEN size + 1 ELSE 1024, maxsize)

ReadHttp(c, maxsize) ==
    LET h    == ReadHttpHdr(c, maxsize)
        size == ContentSize(h.hdr)
    IN  IF ~h.ok \/ (maxsize >= 0 /\ size > maxsize) THEN Null
        ELSE BodyLoop(h.c, <<>>, IF size >= 0 THEN size + 1 ELSE 1024,
                      IF maxsize < 0 /\ size > 0 THEN size ELSE maxsize)

=============================================================================
