------------------------------ MODULE MCMemory ------------------------------
(* MemoryChannels on the instance of MemoryInstance.                         *)
EXTENDS MemoryChannels, MemoryInstance
=============================================================================
