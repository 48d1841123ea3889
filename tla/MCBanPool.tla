------------------------------- MODULE MCBanPool -------------------------------
(* A pool of three nodes and four data that can be banned; three of them   *)
(* share a hash chain, and one more is the local host.                     *)
EXTENDS BanPool

MCBucket == [d \in {"a", "b", "c", "d", "lo"} |-> IF d = "d" THEN 1 ELSE 0]
================================================================================
