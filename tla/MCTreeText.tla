----------------------------- MODULE MCTreeText -----------------------------
(* TreeText with two labels, which are not words of a cfg. *)
EXTENDS TreeText

MCLabels == {<<"0", "2">>, <<"1", "2">>}
=============================================================================
