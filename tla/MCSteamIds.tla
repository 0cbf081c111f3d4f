----------------------------- MODULE MCSteamIds -----------------------------
(* One player, whose id plugins write in two formats.                      *)
EXTENDS SteamIds, TLC

CONSTANTS n1, steam2

HashOne == {n1 :> 1}
OnePlayer == [q \in Players |-> steam2]
=============================================================================
