---------------------------- MODULE MCPollServer ----------------------------
(* PollServer for TLC: descriptors are interchangeable.                    *)
EXTENDS PollServer, TLC

Symmetry == Permutations(Fd)

=============================================================================
