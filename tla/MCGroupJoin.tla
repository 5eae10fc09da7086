---------------------------- MODULE MCGroupJoin ----------------------------
(***************************************************************************)
(* Model-checking instance of GroupJoin and the properties checked of it.  *)
(***************************************************************************)
EXTENDS GroupJoin

CONSTANTS n1, n2, n3, k1, k2, k3, k4

MCNodes2 == {n1, n2}
MCNodes3 == {n1, n2, n3}
MCKeys == {k1, k2, k3, k4}

(***************************************************************************)
(* A JoinGroup call made while the node holds no key is eventually         *)
(* answered by the join callback: when JoinGroup returns silently because  *)
(* m_responses > 0, every counted response has either reported JOIN_ERROR  *)
(* from Get or left a GetThread whose FetchKey will report.                *)
(***************************************************************************)
FreshJoinAnswered ==
    \A n \in Nodes : (awaiting[n] /\ fresh[n]) ~> ~awaiting[n]

(***************************************************************************)
(* Once a group's key is set it never changes (spec 3, Group): neither a   *)
(* FetchKey of a key download started before JoinGroup created the key,   *)
(* nor a second download from another responder, replaces it.             *)
(***************************************************************************)
KeyStable ==
    [][\A n \in Nodes : key[n] # NoKey => key'[n] = key[n]]_key
====
