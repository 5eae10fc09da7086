-------------------------------- MODULE Glob --------------------------------
(***************************************************************************)
(* The two name matchers of PTP::Collection (src/ptp/collect.cpp):         *)
(* CmpPat, the case-insensitive glob of Find(pat), and CmpExt, the         *)
(* extension filter of the directory scan.  A C string is a sequence of    *)
(* characters; index Len + 1 stands for its terminating NUL.  Both return  *)
(* the code's int: 0 for a match.                                          *)
(***************************************************************************)
EXTENDS Integers, Sequences

CONSTANT Upper(_)   \* toupper

UpSeq(s) == [i \in DOMAIN s |-> Upper(s[i])]

(***************************************************************************)
(* CmpPat(str, pat) with s at str[i] and p at pat[j].  Pat walks the       *)
(* pattern; Star is the code after a '*': it skips further '*' and '?'     *)
(* (each '?' consuming a character), succeeds at the end of the pattern,   *)
(* tries the rest of the pattern at every remaining position of str, and   *)
(* otherwise goes on with s at the end of str (p-- then p++).              *)
(***************************************************************************)
RECURSIVE Pat(_, _, _, _), Star(_, _, _, _), Lit(_, _, _, _)

Lit(s, p, i, j) ==
    IF i <= Len(s) /\ Upper(s[i]) = Upper(p[j]) THEN Pat(s, p, i + 1, j + 1)
    ELSE -1

\* Mutant: the positions are tried from the character after s, so a '*'
\* never matches an empty run.
StarNoEmpty(s, p, i, j) ==
    IF j <= Len(p) /\ p[j] = "*" THEN Star(s, p, i, j + 1)
    ELSE IF j <= Len(p) /\ p[j] = "?"
         THEN IF i > Len(s) THEN -1 ELSE Star(s, p, i + 1, j + 1)
    ELSE IF j > Len(p) THEN 0
    ELSE IF \E k \in i + 1 .. Len(s) : Pat(s, p, k, j) = 0 THEN 0
    ELSE Pat(s, p, Len(s) + 1, j)

Star(s, p, i, j) ==
    IF j <= Len(p) /\ p[j] = "*" THEN Star(s, p, i, j + 1)
    ELSE IF j <= Len(p) /\ p[j] = "?"
         THEN IF i > Len(s) THEN -1 ELSE Star(s, p, i + 1, j + 1)
    ELSE IF j > Len(p) THEN 0
    ELSE IF \E k \in i .. Len(s) : Pat(s, p, k, j) = 0 THEN 0
    ELSE Pat(s, p, Len(s) + 1, j)

Pat(s, p, i, j) ==
    IF j > Len(p) THEN IF i > Len(s) THEN 0 ELSE -1
    ELSE CASE p[j] = "?"  -> IF i > Len(s) THEN -1 ELSE Pat(s, p, i + 1, j + 1)
           [] p[j] = "*"  -> Star(s, p, i, j + 1)
           [] p[j] = "\\" -> IF j + 1 > Len(p) THEN -1 ELSE Lit(s, p, i, j + 1)
           [] OTHER       -> Lit(s, p, i, j)

CmpPat(str, pat) == Pat(str, pat, 1, 1)

(***************************************************************************)
(* CmpExt(name, ext): a NULL or empty list matches every name.  Otherwise  *)
(* each item runs from start to the next ';' or the end; the name matches *)
(* an item of size k shorter than the name when the name has '.' just     *)
(* before its last k characters and those equal the item ignoring case.  *)
(* After an item the run of ';' that follows is skipped.                   *)
(***************************************************************************)
\* The first index at or after i whose character is (not) in cs.
RECURSIVE ScanTo(_, _, _), ScanPast(_, _, _)
ScanTo(s, i, cs) == IF i > Len(s) \/ s[i] \in cs THEN i ELSE ScanTo(s, i + 1, cs)
ScanPast(s, i, cs) == IF i > Len(s) \/ s[i] \notin cs THEN i ELSE ScanPast(s, i + 1, cs)

RECURSIVE ExtFrom(_, _, _)

\* Mutant: the test for the '.' before the extension is lost.
ExtFromNoDot(name, ext, start) ==
    IF start > Len(ext) THEN 1
    ELSE LET end == ScanTo(ext, start, {";"})
             k   == end - start
             n   == Len(name)
         IN  IF /\ k < n
                /\ UpSeq(SubSeq(name, n - k + 1, n)) = UpSeq(SubSeq(ext, start, end - 1))
             THEN 0
             ELSE ExtFrom(name, ext, ScanPast(ext, end, {";"}))

ExtFrom(name, ext, start) ==
    IF start > Len(ext) THEN 1
    ELSE LET end == ScanTo(ext, start, {";"})
             k   == end - start
             n   == Len(name)
         IN  IF /\ k < n
                /\ name[n - k] = "."
                /\ UpSeq(SubSeq(name, n - k + 1, n)) = UpSeq(SubSeq(ext, start, end - 1))
             THEN 0
             ELSE ExtFrom(name, ext, ScanPast(ext, end, {";"}))

CmpExt(name, ext) == IF ext = <<>> THEN 0 ELSE ExtFrom(name, ext, 1)

(***************************************************************************)
(* Reference definitions from spec 4.H.  Glob: '*' matches any run of      *)
(* characters, '?' any one, '\' makes the next character literal, and      *)
(* letters compare ignoring case.  ExtOk: the name ends in '.' followed by *)
(* one of the non-empty ';'-separated items, ignoring case, or the list is *)
(* empty.                                                                  *)
(***************************************************************************)
RECURSIVE Glob(_, _)
Glob(s, p) ==
    IF p = <<>> THEN s = <<>>
    ELSE CASE Head(p) = "*" ->
                Glob(s, Tail(p)) \/ (s # <<>> /\ Glob(Tail(s), p))
           [] Head(p) = "?" -> s # <<>> /\ Glob(Tail(s), Tail(p))
           [] Head(p) = "\\" ->
                /\ Len(p) >= 2 /\ s # <<>>
                /\ Upper(Head(s)) = Upper(p[2])
                /\ Glob(Tail(s), Tail(Tail(p)))
           [] OTHER ->
                s # <<>> /\ Upper(Head(s)) = Upper(Head(p)) /\ Glob(Tail(s), Tail(p))

\* The maximal non-empty runs of ext without ';'.
Items(ext) ==
    LET Bounds == {ab \in (1 .. Len(ext)) \X (1 .. Len(ext)) :
                     /\ ab[1] <= ab[2]
                     /\ ab[1] = 1 \/ ext[ab[1] - 1] = ";"
                     /\ ab[2] = Len(ext) \/ ext[ab[2] + 1] = ";"
                     /\ \A x \in ab[1] .. ab[2] : ext[x] # ";"}
    IN  {SubSeq(ext, ab[1], ab[2]) : ab \in Bounds}

ExtOk(name, ext) ==
    \/ ext = <<>>
    \/ \E e \in Items(ext) :
          /\ Len(name) > Len(e)
          /\ name[Len(name) - Len(e)] = "."
          /\ UpSeq(SubSeq(name, Len(name) - Len(e) + 1, Len(name))) = UpSeq(e)

=============================================================================
