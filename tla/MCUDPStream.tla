---------------------------- MODULE MCUDPStream ----------------------------
(* A file of three blocks, read two at a time.                               *)
EXTENDS UDPStream
=============================================================================
