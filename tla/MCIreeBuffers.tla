----------------------------- MODULE MCIreeBuffers -----------------------------
(* Small instances of IreeBuffers for TLC.                                    *)
EXTENDS IreeBuffers, TLC

CONSTANTS b1, b2, b3, b4, b5, h1, h2, x, y

\* A program that tells its inputs, their order and the output's index apart.
MCResult(j, ins) ==
  FoldFunction(+, j, [k \in DOMAIN ins |-> k * ins[k]]) % NumValues

\* Addresses and tensors are interchangeable: MCResult tells a call's arguments
\* apart by their position only.
MCSymmetry == Permutations(Buffers) \cup Permutations(Tensors)
===============================================================================
