---------------------------- MODULE MCOnlineList ----------------------------
(* Two accounts, one of which shares two documents.                        *)
EXTENDS OnlineList, TLC

CONSTANTS a1, a2, d1, d2, d3

MCUser == {a1, a2}
MCDoc == {d1, d2, d3}
MCOwner == d1 :> a1 @@ d2 :> a1 @@ d3 :> a2
=============================================================================
