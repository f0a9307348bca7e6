---------------------------- MODULE TagCacheSpec ----------------------------
(***************************************************************************)
(* The cache of module TagCache as a state machine: the abstract           *)
(* specification that the slot array of FlashTlvCache implements.          *)
(***************************************************************************)
EXTENDS TagCache

CONSTANT Addresses   \* the addresses a client may store

VARIABLE map

MapInit == map = EmptyCache

MapRemember == \E t \in Tags, p \in Addresses : Remember(map, t, p, map')

MapForget == \E t \in Tags : map' = Forget(map, t)

MapInvalidate == map' = EmptyCache

MapNext == MapRemember \/ MapForget \/ MapInvalidate

MapSpec == MapInit /\ [][MapNext]_map
=============================================================================
