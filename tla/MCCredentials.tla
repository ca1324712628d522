--------------------------- MODULE MCCredentials ----------------------------
(* Instance of Credentials for TLC.                                         *)
EXTENDS Credentials, TLC

CONSTANTS t1, t2
=============================================================================
