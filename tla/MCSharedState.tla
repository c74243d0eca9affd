---------------------------- MODULE MCSharedState ----------------------------
(* Instances of SharedState for TLC. *)
EXTENDS SharedState

CONSTANTS
  MaxLen      (* length of the longest argument *)

\* All strings of up to MaxLen bytes, some that cannot be quoted, and two
\* contents of the output string.
Strings == UNION {[1..n -> {"x", "n", "r"}] : n \in 0..MaxLen}
             \cup {<<"q">>, <<"x", "q", "n">>, <<"b", "n">>, <<"d", "x">>}
Outputs == {<<>>, <<"y", "r">>}

\* What the shell makes of them: of those that cannot be quoted nothing,
\* something else, or the same.
Echoes == [s \in Strings |-> IF Quotable(s) THEN {Append(s, "n")}
                             ELSE {<<>>, <<"x", "n">>, Append(s, "n")}]
==============================================================================
