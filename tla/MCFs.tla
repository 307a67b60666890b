-------------------------------- MODULE MCFs --------------------------------
(* Paths and symmetry for the instances of Fs. *)
EXTENDS Fs, TLC

MCPath == {<<"a">>, <<"a", "..">>, <<"..", "b">>, <<"/">>, <<"/", "a", "a">>}
MCLinks == {<<<<"a">>, <<"b">>>>, <<<<"a", "a">>, <<"a", "b">>>>}

Symmetry == Permutations(Proc)
=============================================================================
