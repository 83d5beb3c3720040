------------------------------ MODULE CodecError ------------------------------
(***************************************************************************)
(* What the codec functions return in place of a result when they fail:    *)
(* a negative number in C, NULL in the wrappers of the demo.               *)
(***************************************************************************)
EXTENDS Integers, Sequences

CONSTANT Error

ASSUME ErrorAssumption == Error \notin Seq(Int)

=============================================================================
