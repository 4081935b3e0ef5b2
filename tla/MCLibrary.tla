----------------------------- MODULE MCLibrary -----------------------------
(* An instance of Library for TLC: two SFTP sessions of one user, bbsctl.    *)
EXTENDS Library

CONSTANTS sftp1, sftp2, ctl, ann, root, uploads

MCUserOf == [w \in Workers |-> IF w = ctl THEN root ELSE ann]
=============================================================================
