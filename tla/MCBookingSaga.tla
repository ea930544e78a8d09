--------------------------- MODULE MCBookingSaga ---------------------------
(* Small instances of BookingSaga for TLC.                                 *)
EXTENDS BookingSaga, TLC

CONSTANTS b1, b2, h1, h2, r1, r2

\* One key, tried by two requests at a time.
OneKey     == [b \in {b1} |-> h1]
SameKey    == [r \in {r1, r2} |-> b1]

\* Two keys on one hold, and on a hold each.
OneHold    == [b \in {b1, b2} |-> h1]
OwnHolds   == [b \in {b1, b2} |-> IF b = b1 THEN h1 ELSE h2]
OwnKeys    == [r \in {r1, r2} |-> IF r = r1 THEN b1 ELSE b2]
=============================================================================
