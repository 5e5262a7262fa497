---------------------------- MODULE MCSemaphore ------------------------------
(* TLC instances of Semaphore.                                             *)
EXTENDS Semaphore
==============================================================================
