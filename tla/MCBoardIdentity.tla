--------------------------- MODULE MCBoardIdentity ---------------------------
(* Two serials, MACs of one variable digit whose last value leaves no MAC2,  *)
(* an operator who sets nothing, one of the two values, or both.             *)
EXTENDS BoardIdentity

Id(s, m) == [serial |-> s, mac |-> m]

MCOverrides ==
  {Unset, Id("s1", <<2, 0>>), Id("s1", <<6, RestTop>>), Id("s1", Unset)}
=============================================================================
