---------------------------- MODULE MCBootstrap ----------------------------
(* Bootstrap with numbers that are plain, fractional, scaled, junk, zero.   *)
EXTENDS Bootstrap

Text(int, frac, exp, junk) == [int |-> int, frac |-> frac, exp |-> exp, junk |-> junk]

SomeNumerals ==
  {Text(8, 0, 0, FALSE), Text(8, 5, 0, FALSE), Text(8, 0, 3, FALSE), Text(8, 5, 1, FALSE),
   Text(8, 0, 0, TRUE), Text(0, 0, 0, FALSE), Text(70000, 0, 0, FALSE)}
=============================================================================
