------------------------------ MODULE MCMemory ------------------------------
(* Arguments of the calls for the instance of Memory. *)
EXTENDS Memory

MCIncs == {-7, -2, -1, 1, 3, 11}
MCPrograms == {<<>>, <<1>>, <<3, 2>>, <<9>>}
=============================================================================
