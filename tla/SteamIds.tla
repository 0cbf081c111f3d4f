------------------------------ MODULE SteamIds ------------------------------
(* QueryPipeline with plugins that write a player's Steam id in any of its *)
(* formats.  Players are the ids as they are written; the server's players *)
(* are loaded and saved under one of them, the Steam2 id.                  *)
EXTENDS QueryPipeline

CONSTANT Steam2Id       \* written id -> the Steam2 id of the same player

CompatAuthIds == {Steam2Id[q] : q \in Players}

(* IsAuthIdConnected compares what is written with the Steam2 id, the      *)
(* Steam3 id and the auth string of everybody who is authorized.           *)
IsAuthIdConnected(q) == {c \in Slots : player[c] = Steam2Id[q] /\ authorized[c]}

(* SetAuthIdCookie for the id q: the slot of a player who is connected, or *)
(* an InsertData under q itself.                                           *)
SetAuthIdCookieAs(n, q, v) ==
    /\ n \in cookies
    /\ v.by = Steam2Id[q]
    /\ \/ \E c \in IsAuthIdConnected(q) :
            /\ AttemptReconnection({})
            /\ SetCookieValue(n, c, v)
            /\ UNCHANGED saved
       \/ /\ IsAuthIdConnected(q) = {}
          /\ AttemptReconnection(
                {[id |-> New(MaxClients + 1), type |-> "InsertData",
                  steamId |-> q, cookieId |-> dbid[n], value |-> v]})
          /\ saved' = [saved EXCEPT ![v.by][n] =
                        [value |-> v, id |-> dbid[n], absent |-> TRUE]]
          /\ UNCHANGED valueVars
    /\ UNCHANGED <<serverVars, cookieVars>>
    /\ LeavesRoom
    /\ Enqueue
    /\ UNCHANGED <<given, threadVars, resultQueue, crashed, redisVars>>

(* A player is known to the server, and what is theirs is recorded, by the *)
(* Steam2 id only (GetPlayerCompatAuthId).                                 *)
KnownByCompatAuthId ==
    /\ \A c \in Slots : player[c] \in CompatAuthIds \cup {NoPlayer}
    /\ \A q \in Players \ CompatAuthIds, n \in Names : saved[q][n] = Nil

FormatsInit == PipelineInit /\ KnownByCompatAuthId

FormatsNext ==
    /\ \/ PipelineNext
       \/ ~crashed /\ \E n \in Names, q \in Players, v \in Value : SetAuthIdCookieAs(n, q, v)
    /\ KnownByCompatAuthId'

FormatsSpec == FormatsInit /\ [][FormatsNext]_allVars /\ Fairness

(* A value written for an absent player, with the cookie's id known, under *)
(* any id that SetAuthIdCookie takes for the player's when they are there, *)
(* is the value the player sees when connecting later (natives.cpp:148:    *)
(* "so players connecting later in during the same map will have the       *)
(* correct value").                                                        *)
AnyFormatSeen ==
    [][\A c \in Slots, n \in Names :
        /\ ~statsLoaded[c] /\ statsLoaded'[c]
        /\ WrittenAbsent(player[c], n) /\ Kept(player[c], n)
        => Sees(c, n, saved[player[c]][n].value)']_allVars
=============================================================================
