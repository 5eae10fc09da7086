--------------------------- MODULE Authenticator ---------------------------
(***************************************************************************)
(* PTP::Authenticator (src/ptp/auth.cpp): the pending-challenge list of    *)
(* one authenticator, the challenges it sends and the responses that come  *)
(* back.  Cryptography is abstracted to what it guarantees: a challenge is *)
(* the nonce sealed to one identity (only its holder can open it), and the *)
(* response is the SHA-1 digest of the nonce, modelled as an injective     *)
(* tag.  The list keeps its order: Insert puts a new entry at the head and *)
(* Verify walks from the head, so which expired entries a Verify sweeps    *)
(* depends on where the match is.                                          *)
(***************************************************************************)
EXTENDS Naturals, Sequences, SequencesExt

CONSTANTS
    Ids,        \* identities (certificates) that can be challenged
    Contexts,   \* opaque context values passed to Challenge
    Nonces,     \* random nonces Random::Fill may draw
    Expire,     \* expire arguments of Challenge (seconds)
    Forged,     \* a response nobody computed from a drawn nonce
    NoContext,  \* NULL
    MaxTime     \* last clock value explored

ASSUME Expire \subseteq Nat /\ MaxTime \in Nat

VARIABLES
    pending,    \* m_pending: sequence of [resp, expire, context], head first
    now,        \* GetTime()
    verdict,    \* [resp, context] returned by the last Verify
    chals,      \* challenges sent: [to, nonce]
    resps       \* responses computed by the holders of the identities

vars == <<pending, now, verdict, chals, resps>>

\* EVP_Digest(PTP_DIGEST) over the nonce.
Digest(n) == [sha1 |-> n]

\* Identity::Encrypt of the nonce under id's public key.
Seal(id, n) == [to |-> id, nonce |-> n]

Drawn == {c.nonce : c \in chals}

Entry == [resp : {Digest(n) : n \in Nonces},
          expire : Nat,
          context : Contexts]

TypeOK ==
    /\ pending \in Seq(Entry)
    /\ now \in 0 .. MaxTime
    /\ verdict \in [resp : {Digest(n) : n \in Nonces} \cup {Forged, NoContext},
                    context : Contexts \cup {NoContext}]
    /\ chals \subseteq [to : Ids, nonce : Nonces]
    /\ resps \subseteq {Digest(n) : n \in Nonces}

Init ==
    /\ pending = <<>>
    /\ now = 0
    /\ verdict = [resp |-> NoContext, context |-> NoContext]
    /\ chals = {}
    /\ resps = {}

(***************************************************************************)
(* Challenge(id, expire, context, chal): draw a nonce, remember its digest *)
(* with deadline now + expire at the head of the list, send the nonce      *)
(* sealed to id.                                                           *)
(***************************************************************************)
\* Mutant: the context argument is not stored with the pending entry.
ChallengeNoCtx(id, e, ctx) ==
    \E n \in Nonces \ Drawn :
        /\ pending' = <<[resp |-> Digest(n), expire |-> now + e,
                         context |-> NoContext]>> \o pending
        /\ chals' = chals \cup {Seal(id, n)}
        /\ UNCHANGED <<now, verdict, resps>>

Challenge(id, e, ctx) ==
    \E n \in Nonces \ Drawn :
        /\ pending' = <<[resp |-> Digest(n), expire |-> now + e,
                         context |-> ctx]>> \o pending
        /\ chals' = chals \cup {Seal(id, n)}
        /\ UNCHANGED <<now, verdict, resps>>

(***************************************************************************)
(* Respond(chal, resp), run by the authenticator whose local identity is   *)
(* holder: Decrypt fails unless the challenge was sealed to holder, and    *)
(* then Respond returns -1 with no response; otherwise the response is the *)
(* digest of the recovered nonce.                                          *)
(***************************************************************************)
Respond(c, holder) ==
    /\ resps' = IF c.to = holder THEN resps \cup {Digest(c.nonce)} ELSE resps
    /\ UNCHANGED <<pending, now, verdict, chals>>

(***************************************************************************)
(* The walk of Verify over the list from the head: an entry whose deadline *)
(* is not after t is removed; the first unexpired entry whose digest is r  *)
(* is removed and ends the walk with its context; every other entry is     *)
(* kept.                                                                   *)
(***************************************************************************)
\* Mutant: an entry is taken as expired only once its deadline has passed.
RECURSIVE SweepLate(_, _, _)
SweepLate(s, r, t) ==
    IF s = <<>> THEN [kept |-> <<>>, context |-> NoContext]
    ELSE LET p == Head(s) IN
         IF p.expire < t THEN SweepLate(Tail(s), r, t)
         ELSE IF p.resp = r THEN [kept |-> Tail(s), context |-> p.context]
         ELSE LET rest == SweepLate(Tail(s), r, t)
              IN [kept |-> <<p>> \o rest.kept, context |-> rest.context]

RECURSIVE Sweep(_, _, _)
Sweep(s, r, t) ==
    IF s = <<>> THEN [kept |-> <<>>, context |-> NoContext]
    ELSE LET p == Head(s) IN
         IF p.expire <= t THEN Sweep(Tail(s), r, t)
         ELSE IF p.resp = r THEN [kept |-> Tail(s), context |-> p.context]
         ELSE LET rest == Sweep(Tail(s), r, t)
              IN [kept |-> <<p>> \o rest.kept, context |-> rest.context]

Verify(r) ==
    LET w == Sweep(pending, r, now) IN
    /\ pending' = w.kept
    /\ verdict' = [resp |-> r, context |-> w.context]
    /\ UNCHANGED <<now, chals, resps>>

Tick ==
    /\ now < MaxTime
    /\ now' = now + 1
    /\ UNCHANGED <<pending, verdict, chals, resps>>

Next ==
    \/ \E id \in Ids, e \in Expire, ctx \in Contexts : Challenge(id, e, ctx)
    \/ \E c \in chals, holder \in Ids : Respond(c, holder)
    \/ \E r \in resps \cup {Forged} : Verify(r)
    \/ Tick

Spec == Init /\ [][Next]_vars

=============================================================================
