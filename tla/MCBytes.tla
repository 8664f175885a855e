------------------------------ MODULE MCBytes ------------------------------
(* An instance of ByteVector for TLC. *)
EXTENDS ByteVector
=============================================================================
