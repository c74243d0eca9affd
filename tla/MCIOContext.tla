----------------------------- MODULE MCIOContext -----------------------------
(* Instance of IOContext for TLC. *)
EXTENDS IOContext, TLC

Symmetry == Permutations(Desc) \cup Permutations(Coro)
==============================================================================
