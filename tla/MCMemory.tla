------------------------------ MODULE MCMemory ------------------------------
(***************************************************************************)
(* Memguard alone, called for the ranges that int_translator reads: it     *)
(* forgets the two texts it has registered along with the domain it hands  *)
(* over.  MCStorage calls all the functions.                               *)
(***************************************************************************)
EXTENDS Memguard

C == INSTANCE Clients
MCFunctions == C!ClientFunctions
MCLocals    == C!ClientLocals
MCCalled    == {"int_translator", "int_translator of l..", "int_translator of ..r"}
=============================================================================
