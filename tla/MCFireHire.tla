------------------------------ MODULE MCFireHire ------------------------------
(* Two suppliers and a third node, or one supplier and another node; the user  *)
(* may want one supplier or two.                                               *)
EXTENDS FireHire

CONSTANTS s1, s2, s3
MCFirst == <<s1, s2>>
MCOne == <<s1>>
=============================================================================
