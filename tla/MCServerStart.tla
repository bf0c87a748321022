--------------------------- MODULE MCServerStart ----------------------------
(* ServerStart for two servers: the second has one more migration.         *)
EXTENDS ServerStart, TLC

CONSTANTS s1, s2, none

MCServer == {s1, s2}
MCFilesOf == s1 :> 1 @@ s2 :> 2

=============================================================================
