--------------------------- MODULE MCDummyEmulator ---------------------------
(* Requests for the runs of DummyEmulator: with and without a size, empty,  *)
(* shorter and longer than the supposed header, outside the memory, to a    *)
(* memory that is not there, with a hexadecimal size, of several ranges.    *)
EXTENDS DummyEmulator, TLC

CONSTANTS wram, sram, other

Asks(m, o, n, t, a) == [mem |-> m, offset |-> o, size |-> n, told |-> t, args |-> a]
Request(m, o, n, a) == Asks(m, o, n, n, a)
Hex(m, o, n)        == Asks(m, o, n, 0, 3)

WriteSet == {Request(wram, 0, 2, 3), Request(sram, 3, 4, 3), Request(sram, 0, 0, 3),
             Request(wram, 3, 4, 2), Request(other, 0, 3, 1), Hex(sram, 3, 4),
             Asks(wram, 0, 4, 2, 5)}

ReadSet == {Request(sram, 3, 4, 3), Request(wram, 0, 1, 1), Request(other, 0, 3, 3),
            Request(CARTROM, 5, 4, 3), Request(CARTROM, 0, 1, 0), Hex(CARTROM, 5, 4),
            Asks(wram, 0, 3, 2, 5)}

Symmetry == Permutations(Clients)

=============================================================================
