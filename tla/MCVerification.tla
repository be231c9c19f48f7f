---------------------------- MODULE MCVerification ----------------------------
(* The constants of Verification for TLC: two primary sites, one of the       *)
(* highest priority and one of the lowest, and a site of the same priority.   *)
EXTENDS Verification

CONSTANTS s1, s2, s3

MCSites == {s1, s2, s3}
MCConfig == <<s1, s2, s3>>
MCPriority == [s \in MCSites |-> IF s = s2 THEN 1 ELSE 2]
MCPrimary == {s1, s2}
=============================================================================
