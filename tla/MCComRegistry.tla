---------------------------- MODULE MCComRegistry ----------------------------
(* TLC instances of ComRegistry, and mutants of its definitions.            *)
EXTENDS ComRegistry
==============================================================================
