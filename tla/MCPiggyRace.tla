----------------------------- MODULE MCPiggyRace -----------------------------
(* A short race of two pigs for two apples.                                  *)
EXTENDS PiggyRace

MCApples == <<4, 7>>
MCShortApples == <<2, 5>>
MCSpeeds == {1, 2}
MCTimings == {TRUE, FALSE}
MCPaced == {TRUE}
===============================================================================
