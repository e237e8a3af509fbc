------------------------------ MODULE MCScan ------------------------------
(* Three radios on one wiphy, or two on one and the third alone on its own:  *)
(* a radio outside of the queue while others are in it.                      *)
EXTENDS Scan

CONSTANTS r1, r2, r3, w1, w2, none

Order == <<r1, r2, r3>>
PairAndOne == [r \in Radios |-> IF r = r3 THEN w2 ELSE w1]
AllOnOne == [r \in Radios |-> w1]
MCLayouts == {PairAndOne, AllOnOne}

===========================================================================
