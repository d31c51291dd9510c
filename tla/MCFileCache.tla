---------------------------- MODULE MCFileCache ----------------------------
(* FileCache for TLC: a cache of 4 bytes, blocks of 3.  a and b fit        *)
(* together, c fits only alone, d is longer than a block.                  *)
EXTENDS FileCache, TLC

CONSTANTS a, b, c, d

MCSize == a :> 2 @@ b :> 2 @@ c :> 3 @@ d :> 4
=============================================================================
