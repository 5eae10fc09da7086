-------------------------------- MODULE MCSfs --------------------------------
(***************************************************************************)
(* Two client processes with different identities: c1 on the server's    *)
(* host h1 and c3 on another host h2; two shared files, ids 0 and 1.      *)
(***************************************************************************)
EXTENDS Sfs

MCIdent == [c \in Clients |-> IF c = "c1" THEN "A" ELSE "B"]
MCClientHost == [c \in Clients |-> IF c = "c3" THEN "h2" ELSE "h1"]
MCFileId == [f \in Files |-> IF f = "f1" THEN 0 ELSE 1]
=============================================================================
