-------------------------------- MODULE Store --------------------------------
(***************************************************************************)
(* The entry list of PTP::Store (src/ptp/store.cpp) and its PKCS#12 codec: *)
(* Insert, Remove and the two Find cursors over m_entries, Export of the   *)
(* list to a sequence of safe bags and Import of bags back into a list,    *)
(* with Load and Save on top of them.  An entry is a record of the        *)
(* Entry union: its type, its value (an identity [name, mod], a key or a  *)
(* secret), whether the identity holds a private key, the export flag,    *)
(* the friendly name and the id (None for NULL).  A bag is [bag, val,     *)
(* friendly, id] with bag "cert", "key" (a key bag, plain or shrouded) or *)
(* "secret".  Entry and identity pointers are list indices: every entry   *)
(* holds its own copy of the identity.  The archive passwords are the     *)
(* store's own, so the MAC check and the bag decryption succeed.          *)
(***************************************************************************)
EXTENDS Integers, Sequences
LOCAL INSTANCE SequencesExt

CONSTANTS None,         \* a NULL friendly name or id
          KeyFriendly   \* PTP_STORE_KEY_FRIENDLY, ".KEYDATA."

Ident(i, hk, ek, f, id) ==
    [type |-> "IDENTITY", val |-> i, haskey |-> hk, exportkey |-> ek,
     friendly |-> f, id |-> id]

Bag(b, v, f, id) == [bag |-> b, val |-> v, friendly |-> f, id |-> id]

\* static Insert(list, ident, exportkey, friendly, id, idsize): append.
InsertIdentity(l, i, hk, ek, f, id) == Append(l, Ident(i, hk, ek, f, id))

\* static Insert(list, data, size, friendly, id, idsize): the reserved
\* friendly name makes a key entry, any other a secret entry.
InsertData(l, d, f, id) ==
    Append(l, [type |-> IF f = KeyFriendly THEN "KEY" ELSE "SECRET", val |-> d,
               haskey |-> FALSE, exportkey |-> FALSE, friendly |-> f, id |-> id])

\* Insert(ident, exportkey, friendly, id, idsize): a copy of the identity,
\* whose private key is destroyed unless it is exported.
Insert(l, i, hk, ek, f, id) == InsertIdentity(l, i, hk /\ ek, ek, f, id)

\* Insert(key, id, idsize) and Insert(secret, size, friendly, id, idsize).
InsertKey(l, k, id) == InsertData(l, k, KeyFriendly, id)
InsertSecret(l, s, f, id) == InsertData(l, s, f, id)

(***************************************************************************)
(* Remove(ident), Remove(key), Remove(secret): the first entry of the type *)
(* that matches is unlinked and freed; 0, or -1 when none matches.  An    *)
(* identity matches by pointer or by modulus; a pointer the caller holds  *)
(* is an entry's own copy, whose modulus matches too.                      *)
(***************************************************************************)
RemoveFirstOf(l, Test(_)) ==
    LET k == SelectInSeq(l, Test)
    IN  IF k = 0 THEN [status |-> -1, l |-> l] ELSE [status |-> 0, l |-> RemoveAt(l, k)]

RemoveIdentity(l, i) ==
    RemoveFirstOf(l, LAMBDA e : e.type = "IDENTITY" /\ e.val.mod = i.mod)
RemoveKey(l, k) == RemoveFirstOf(l, LAMBDA e : e.type = "KEY" /\ e.val = k)
RemoveSecret(l, s) == RemoveFirstOf(l, LAMBDA e : e.type = "SECRET" /\ e.val = s)

(***************************************************************************)
(* Find(type, friendly, id, idsize, from): the index of the first entry    *)
(* after from (0 for NULL: from the start) that matches q = [type,        *)
(* friendly, id], or 0.  Until the walk passes from, nothing matches.     *)
(***************************************************************************)
Matches(e, q) ==
    /\ q.type = "ALL" \/ q.type = e.type
    /\ q.friendly = None \/ q.friendly = e.friendly
    /\ q.id = None \/ q.id = e.id

RECURSIVE FindLoop(_, _, _, _)

\* Mutant: from is cleared when the walk reaches it, before the test, so
\* the previous result is found again.
FindLoopSelf(l, q, from, k) ==
    LET f == IF k = from THEN 0 ELSE from
    IN  IF k > Len(l) THEN 0
        ELSE IF f = 0 /\ Matches(l[k], q) THEN k
        ELSE FindLoop(l, q, f, k + 1)

FindLoop(l, q, from, k) ==
    IF k > Len(l) THEN 0
    ELSE IF from = 0 /\ Matches(l[k], q) THEN k
    ELSE FindLoop(l, q, IF k = from THEN 0 ELSE from, k + 1)

Find(l, q, from) == FindLoop(l, q, from, 1)

(***************************************************************************)
(* Find(name, haskey, modulus, from): the same walk over the identities    *)
(* only, q = [name, haskey, mod]; it returns the identity of the entry.    *)
(***************************************************************************)
IdentMatches(e, q) ==
    /\ e.type = "IDENTITY"
    /\ q.name = None \/ q.name = e.val.name
    /\ ~q.haskey \/ e.haskey
    /\ q.mod = None \/ q.mod = e.val.mod

RECURSIVE FindIdentLoop(_, _, _, _)
FindIdentLoop(l, q, from, k) ==
    IF k > Len(l) THEN 0
    ELSE IF from = 0 /\ IdentMatches(l[k], q) THEN k
    ELSE FindIdentLoop(l, q, IF l[k].type = "IDENTITY" /\ k = from THEN 0 ELSE from, k + 1)

FindIdentity(l, q, from) == FindIdentLoop(l, q, from, 1)

(***************************************************************************)
(* Export(list, ...): one bag per entry in list order, a certificate bag   *)
(* followed by a key bag when the identity is exported with its key, and  *)
(* a secret bag for a key or a secret; the key bag has no attributes.     *)
(***************************************************************************)
\* Mutant: the private key goes out whenever the identity has one.
BagsAlwaysKey(e) ==
    IF e.type = "IDENTITY"
    THEN <<Bag("cert", e.val, e.friendly, e.id)>>
         \o (IF e.haskey THEN <<Bag("key", e.val, None, None)>> ELSE <<>>)
    ELSE <<Bag("secret", e.val, e.friendly, e.id)>>

Bags(e) ==
    IF e.type = "IDENTITY"
    THEN <<Bag("cert", e.val, e.friendly, e.id)>>
         \o (IF e.exportkey /\ e.haskey THEN <<Bag("key", e.val, None, None)>> ELSE <<>>)
    ELSE <<Bag("secret", e.val, e.friendly, e.id)>>

Export(l) == FlattenSeq([k \in 1 .. Len(l) |-> Bags(l[k])])

(***************************************************************************)
(* Import(bio, ...): the walk over the bags.  cert holds the certificate *)
(* of the previous bag, not inserted yet, or is empty; f and id are the   *)
(* friendly name and id of the last bag that is not a key bag.  Each bag  *)
(* first takes its key or its attributes, then the pending certificate is *)
(* inserted with that key and those attributes, then the bag's own        *)
(* certificate waits or its secret is inserted.  A certificate left at    *)
(* the end is inserted without a key.                                     *)
(***************************************************************************)
RECURSIVE ImportLoop(_, _, _, _, _, _)

\* Mutant: the key bag is not attached to the pending certificate.
ImportLoopKeyLost(b, j, cert, f, id, out) ==
    IF j > Len(b)
    THEN IF cert = <<>> THEN out ELSE InsertIdentity(out, cert[1], FALSE, FALSE, f, id)
    ELSE LET bag == b[j]
             key == FALSE
             f2  == IF bag.bag = "key" THEN f ELSE bag.friendly
             id2 == IF bag.bag = "key" THEN id ELSE bag.id
             o1  == IF cert = <<>> THEN out ELSE InsertIdentity(out, cert[1], key, key, f2, id2)
             o2  == IF bag.bag = "secret" THEN InsertData(o1, bag.val, f2, id2) ELSE o1
         IN  ImportLoop(b, j + 1, IF bag.bag = "cert" THEN <<bag.val>> ELSE <<>>, f2, id2, o2)

ImportLoop(b, j, cert, f, id, out) ==
    IF j > Len(b)
    THEN IF cert = <<>> THEN out ELSE InsertIdentity(out, cert[1], FALSE, FALSE, f, id)
    ELSE LET bag == b[j]
             key == bag.bag = "key"
             f2  == IF key THEN f ELSE bag.friendly
             id2 == IF key THEN id ELSE bag.id
             o1  == IF cert = <<>> THEN out ELSE InsertIdentity(out, cert[1], key, key, f2, id2)
             o2  == IF bag.bag = "secret" THEN InsertData(o1, bag.val, f2, id2) ELSE o1
         IN  ImportLoop(b, j + 1, IF bag.bag = "cert" THEN <<bag.val>> ELSE <<>>, f2, id2, o2)

Import(b) == ImportLoop(b, 1, <<>>, None, None, <<>>)

\* Save(): Export of m_entries to the file.  Load(): m_entries destroyed,
\* then the file imported; -1 and an empty list when there is no file.
\* disk is [found, bags].
Save(l) == [found |-> TRUE, bags |-> Export(l)]
Load(disk) ==
    IF ~disk.found THEN [status |-> -1, l |-> <<>>]
    ELSE [status |-> 0, l |-> Import(disk.bags)]

\* Export(ident, exportkey, ...) of one identity, and Import(data, ...),
\* which returns the ident field of the first entry whatever its type.
ExportIdentity(i, hk, ek) == Export(InsertIdentity(<<>>, i, hk, ek, None, None))
\* ok is FALSE for a NULL result.
ImportIdentity(b) ==
    IF Import(b) = <<>> THEN [ok |-> FALSE] ELSE [ok |-> TRUE, e |-> Import(b)[1]]

(***************************************************************************)
(* ExportEnvelope(data, size, envelope, recipient, signer) and             *)
(* ImportEnvelope(envelope, size, data, recipient, signer): PKCS#7         *)
(* enveloped data, signed and enveloped when a signer is given.  An        *)
(* envelope is [rcpt, signer, data]: the modulus it is sealed to, the      *)
(* signer's modulus or None, and the bytes.  A signer argument is <<>>    *)
(* for NULL or <<identity>>; hk says whether the identity passed holds    *)
(* its private key; DER sizes are abstracted to 1.                        *)
(***************************************************************************)
ExportEnvelope(d, r, s, shk) ==
    IF s # <<>> /\ ~shk THEN [ret |-> -1]
    ELSE [ret |-> 1, env |-> [rcpt |-> r.mod, signer |-> IF s = <<>> THEN None ELSE s[1].mod,
                              data |-> d]]

\* Mutant: the signer's signature is not checked.
ImportEnvelopeNoSig(env, size, r, rhk, s) ==
    IF size <= 0 \/ ~rhk \/ env.rcpt # r.mod THEN [ret |-> -1]
    ELSE IF Len(env.data) > 0 THEN [ret |-> Len(env.data), data |-> env.data]
    ELSE [ret |-> -1]

\* The recipient's key decodes only an envelope sealed to its modulus
\* (PKCS7_dataDecode fails otherwise); a signer asked for must have signed
\* it, and an unsigned envelope has no signer info; the result is the
\* size of the data, and -1 when it is empty.
ImportEnvelope(env, size, r, rhk, s) ==
    IF size <= 0 \/ ~rhk \/ env.rcpt # r.mod THEN [ret |-> -1]
    ELSE IF s # <<>> /\ env.signer # s[1].mod THEN [ret |-> -1]
    ELSE IF Len(env.data) > 0 THEN [ret |-> Len(env.data), data |-> env.data]
    ELSE [ret |-> -1]

=============================================================================
