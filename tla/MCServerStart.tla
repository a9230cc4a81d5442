---------------------------- MODULE MCServerStart ----------------------------
(* The settings: none, one that is no port once cut to the width, the      *)
(* default spelt out too large, and a range over the last port.            *)
EXTENDS ServerStart, TLC

CONSTANT unset

SomeSettings == {unset, Width, Default + Width, 2 * Width - 2}

Symmetry == Permutations(Emulators)

=============================================================================
