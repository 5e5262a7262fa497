--------------------------- MODULE MCDDGScheduler ----------------------------
(* TLC instances of DDGScheduler.                                          *)
EXTENDS DDGScheduler
==============================================================================
