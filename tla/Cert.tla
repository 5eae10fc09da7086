--------------------------------- MODULE Cert ---------------------------------
(***************************************************************************)
(* The cert tool (src/samples/cert/cert.cpp) over the Store model: main    *)
(* loads the user's store, then runs its options in order, each a step of  *)
(* a fold over a state s = [l, home, files, pw, next, now].  l is the      *)
(* store's entry list, home the store file, files the other files by path *)
(* (a file is [found, bags, pw]: the bags Save wrote and the password of  *)
(* its MAC), pw the --passwd value, next the next fresh RSA modulus and   *)
(* now the time, in days.  An identity is [name, mod, issuer, signer,     *)
(* exp]: its common name, its key, its issuer's common name, the key that *)
(* signed it and its notAfter.                                             *)
(***************************************************************************)
EXTENDS Integers, Sequences

CONSTANTS None,           \* NULL
          KeyFriendly,    \* PTP_STORE_KEY_FRIENDLY
          ExpireDefault,  \* EXPIRE_DEFAULT, 30 days
          Unknown,        \* "*Unknown*", the name of Identity(NULL)
          Now             \* the time of the run, in seconds

LOCAL St == INSTANCE Store

(***************************************************************************)
(* PTP::Identity (src/ptp/id.cpp): Identity(name) makes a key pair and     *)
(* signs itself for EXPIRE_DEFAULT; Sign(subj, expire) sets the subject's *)
(* issuer to this name, its notAfter to now + expire and signs it with    *)
(* this key; Verify(subj) requires this certificate's own notAfter to be  *)
(* in the future and the subject's signature to be by this key.           *)
(***************************************************************************)
NewIdentity(name, mod, now) ==
    [name |-> IF name = "" THEN Unknown ELSE name, mod |-> mod,
     issuer |-> IF name = "" THEN Unknown ELSE name, signer |-> mod,
     exp |-> now + ExpireDefault]

IdSign(i, subj, expire, now) ==
    [subj EXCEPT !.issuer = i.name, !.signer = i.mod, !.exp = now + expire]

IdVerify(i, subj, now) == i.exp > now /\ subj.signer = i.mod

\* Identity(const Identity&) and operator=: a copy of the certificate of
\* the entry e, with the private key when the source holds one.
IdCopy(e) == [i |-> e.val, hk |-> e.haskey]

\* store->Find(NULL, 1): the first identity with a private key, the local
\* one; store->Find(name, 0): the first identity of that name.  Indices.
Local(l) == St!FindIdentity(l, [name |-> None, haskey |-> TRUE, mod |-> None], 0)
ByName(l, n) == St!FindIdentity(l, [name |-> n, haskey |-> FALSE, mod |-> None], 0)

\* Verify(store, ident): a self-issued certificate by itself, any other
\* by the stored certificate of its issuer's name.
Verify(l, i, now) ==
    LET k == ByName(l, i.issuer)
    IN  IF i.name = i.issuer THEN IdVerify(i, i, now)
        ELSE k # 0 /\ IdVerify(l[k].val, i, now)

(***************************************************************************)
(* Insert(store, ident, exportkey): a certificate that does not verify is *)
(* refused; one with the local name is dropped (0); otherwise the stored  *)
(* certificate of that name is removed and the new one appended.          *)
(***************************************************************************)
\* Mutant: the old certificate of the name is kept.
InsertKeepOld(l, i, hk, ek, now) ==
    LET loc == Local(l)
    IN  IF ~Verify(l, i, now) THEN [status |-> -1, l |-> l]
        ELSE IF loc # 0 /\ l[loc].val.name = i.name THEN [status |-> 0, l |-> l]
        ELSE [status |-> 0, l |-> St!Insert(l, i, hk, ek, None, None)]

Insert(l, i, hk, ek, now) ==
    LET loc == Local(l)
        old == ByName(l, i.name)
        l1  == IF old = 0 THEN l ELSE St!RemoveIdentity(l, l[old].val).l
    IN  IF ~Verify(l, i, now) THEN [status |-> -1, l |-> l]
        ELSE IF loc # 0 /\ l[loc].val.name = i.name THEN [status |-> 0, l |-> l]
        ELSE [status |-> 0, l |-> St!Insert(l1, i, hk, ek, None, None)]

\* Mutant: the local certificate may be removed.
RemoveAny(l, name) ==
    LET k == ByName(l, name)
    IN  IF k = 0 THEN [status |-> -1, l |-> l]
        ELSE [status |-> 0, l |-> St!RemoveIdentity(l, l[k].val).l]

\* Remove(store, name): not found, or the local certificate, is -1.
Remove(l, name) ==
    LET k == ByName(l, name)
    IN  IF k = 0 \/ k = Local(l) THEN [status |-> -1, l |-> l]
        ELSE [status |-> 0, l |-> St!RemoveIdentity(l, l[k].val).l]

(***************************************************************************)
(* Files.  Load(path, passwd) reads a store whose MAC password must be    *)
(* passwd and copies its first identity entry, with its key if it has     *)
(* one; Save(ident, path, passwd) writes a new store of that one          *)
(* certificate, without its key; SaveAll writes the user's store, which   *)
(* has no password.  Store::Reset unlinks the store file.                 *)
(***************************************************************************)
FileOf(l, pw) == [found |-> TRUE, bags |-> St!Export(l), pw |-> pw]
NoFile == [found |-> FALSE, bags |-> <<>>, pw |-> None]

LoadFile(d, pw) ==
    LET l == St!Load(d).l
        k == St!Find(l, [type |-> "IDENTITY", friendly |-> None, id |-> None], 0)
    IN  IF ~d.found \/ d.pw # pw \/ k = 0 THEN [ok |-> FALSE]
        ELSE [ok |-> TRUE, i |-> IdCopy(l[k]).i, hk |-> IdCopy(l[k]).hk]

\* Mutant: store.Insert(ident, 1), the private key exported with it.
SaveFileWithKey(i, hk, pw) == FileOf(St!Insert(<<>>, i, hk, TRUE, None, None), pw)

SaveFile(i, hk, pw) == FileOf(St!Insert(<<>>, i, hk, FALSE, None, None), pw)

SaveAll(s) == [s EXCEPT !.home = FileOf(s.l, None)]

\* The identities of a list, each copied with its key, exportkey 1.
CopyIdentities(l) ==
    LET ids == SelectSeq(l, LAMBDA e : e.type = "IDENTITY")
    IN  [k \in 1 .. Len(ids) |-> St!Ident(ids[k].val, ids[k].haskey, TRUE, None, None)]

(***************************************************************************)
(* The options of main.  DAYS of --sign is read by strtoul into an int    *)
(* and multiplied by 24 * 60 * 60 there, then passed to Sign as unsigned: *)
(* the seconds wrap modulo 2^32 (86400 = 675 * 128).  "" is the default;  *)
(* n is the value strtoul reads from DAYS.                                *)
(***************************************************************************)
Expire(days, n) ==
    IF days = "" THEN ExpireDefault ELSE 128 * ((n * 675) % 2^25)

OptImport(s, path) ==
    LET r   == LoadFile(s.files[path], s.pw)
        ins == Insert(s.l, r.i, r.hk, FALSE, Now)
    IN  IF r.ok /\ ins.status = 0 THEN SaveAll([s EXCEPT !.l = ins.l]) ELSE s

OptExport(s, name, path) ==
    LET loc == Local(s.l)
        n   == IF name = "" /\ loc # 0 THEN s.l[loc].val.name ELSE name
        k   == ByName(s.l, n)
    IN  IF k = 0 THEN s ELSE [s EXCEPT !.files[path] = SaveFile(s.l[k].val, s.l[k].haskey, s.pw)]

\* Load(path, NULL): the certificate is read without the password.
OptSign(s, days, n, path) ==
    LET r   == LoadFile(s.files[path], None)
        loc == Local(s.l)
    IN  IF ~r.ok \/ loc = 0 THEN s
        ELSE [s EXCEPT !.files[path] =
                 SaveFile(IdSign(s.l[loc].val, r.i, Expire(days, n), Now), r.hk, s.pw)]

\* Mutant: the store is changed but not saved.
OptRemoveNoSave(s, name) ==
    LET r == Remove(s.l, name)
    IN  IF r.status = 0 THEN [s EXCEPT !.l = r.l] ELSE s

OptRemove(s, name) ==
    LET r == Remove(s.l, name)
    IN  IF r.status = 0 THEN SaveAll([s EXCEPT !.l = r.l]) ELSE s

\* store.Reset() empties the list and unlinks the file before the Insert.
OptSetup(s, name) ==
    LET ins == Insert(<<>>, NewIdentity(name, s.next, Now), TRUE, TRUE, Now)
        s1  == [s EXCEPT !.l = <<>>, !.home = NoFile, !.next = @ + 1]
    IN  IF ins.status = 0 THEN SaveAll([s1 EXCEPT !.l = ins.l]) ELSE s1

\* Every identity of the file, with its key and no Verify, replaces the store.
OptLoad(s, path) ==
    LET d == s.files[path]
    IN  IF ~d.found \/ d.pw # s.pw THEN s
        ELSE SaveAll([s EXCEPT !.l = CopyIdentities(St!Load(d).l)])

OptSave(s, path) == [s EXCEPT !.files[path] = FileOf(CopyIdentities(s.l), s.pw)]

OptPasswd(s, p) == [s EXCEPT !.pw = IF p = "" THEN None ELSE p]

(***************************************************************************)
(* main: the user's store is loaded, then argv is walked; an argument     *)
(* main does not know, or an option without its arguments, ends the walk. *)
(* A token is [op, a, b, n], n the number strtoul reads from a.  The      *)
(* result is the state after the walk.                                    *)
(***************************************************************************)
Step(s, t) ==
    CASE t.op = "--import" -> OptImport(s, t.a)
      [] t.op = "--export" -> OptExport(s, t.a, t.b)
      [] t.op = "--sign"   -> OptSign(s, t.a, t.n, t.b)
      [] t.op = "--remove" -> OptRemove(s, t.a)
      [] t.op = "--setup"  -> OptSetup(s, t.a)
      [] t.op = "--load"   -> OptLoad(s, t.a)
      [] t.op = "--save"   -> OptSave(s, t.a)
      [] t.op = "--passwd" -> OptPasswd(s, t.a)

RECURSIVE Run(_, _)
Run(s, argv) ==
    IF argv = <<>> \/ Head(argv).op = "bad" THEN s
    ELSE Run(Step(s, Head(argv)), Tail(argv))

Main(home, files, next, argv) ==
    Run([l |-> St!Load(home).l, home |-> home, files |-> files,
         pw |-> None, next |-> next], argv)

=============================================================================
