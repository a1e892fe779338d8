--------------------------- MODULE MCNodeServer ---------------------------
(* Goroutines are interchangeable, and so are paths.                        *)
EXTENDS NodeServer, TLC

Symmetric == Permutations(Handlers) \cup Permutations(Paths)

=============================================================================
