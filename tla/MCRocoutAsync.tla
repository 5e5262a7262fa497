--------------------------- MODULE MCRocoutAsync -----------------------------
(* TLC instances of RocoutAsync.                                           *)
EXTENDS RocoutAsync
==============================================================================
