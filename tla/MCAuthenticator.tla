-------------------------- MODULE MCAuthenticator --------------------------
(***************************************************************************)
(* Model-checking instance of Authenticator: two identities, two nonces, *)
(* lifetimes 0 (already expired when issued), 1 and 2 seconds, and a clock *)
(* that runs to 3, so that entries expire before, between and after the    *)
(* Verify calls that sweep them.                                           *)
(***************************************************************************)
EXTENDS Authenticator, FiniteSets

CONSTANTS i1, i2, n1, n2

MCIds == {i1, i2}
MCNonces == {n1, n2}
MCExpire == {0, 1, 2}

\* The abstract pending table: the entries of the list that are still live.
Abs == INSTANCE ChallengeTable
         WITH live <- {pending[k] : k \in {j \in 1 .. Len(pending) :
                                            pending[j].expire > now}},
              clock <- now,
              Entries <- [resp : {Digest(n) : n \in Nonces},
                          expire : 0 .. MaxTime + 2,
                          context : Contexts],
              Resps <- {Digest(n) : n \in Nonces} \cup {Forged}

(***************************************************************************)
(* Verify, with its lazy sweep of expired entries and its break at the     *)
(* first match, implements the promise of the pending table: a response is *)
(* accepted exactly while its challenge is issued, unexpired and not yet   *)
(* consumed, and acceptance returns that challenge's context.              *)
(***************************************************************************)
AbsSpec == Abs!Spec
====
