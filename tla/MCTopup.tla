------------------------------- MODULE MCTopup -------------------------------
(***************************************************************************)
(* Small instances of Topup: one wallet, quotes of one and two credits.    *)
(***************************************************************************)
EXTENDS Topup

CONSTANTS w1, w2, c1, c2, q1, q2, n1, r1, s1, s2

MCEveryone == Wallet \X LiveChain
MCNobody == {}
MCQuoteAmount == [q \in Quote |-> IF q = q1 THEN 2 ELSE 1]
=============================================================================
