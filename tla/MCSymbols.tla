------------------------------ MODULE MCSymbols ------------------------------
(* Three symbols, a code block and a data block in a small address space. *)
EXTENDS SymbolIndex, TLC

CONSTANTS Y1, Y2, Y3, C1, D1

MCSymmetry == Permutations({Y1, Y2, Y3})
=============================================================================
