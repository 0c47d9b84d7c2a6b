----------------------------- MODULE MCCompanions -----------------------------
(* Companions for TLC.  The proxy's log holds two events; an archive, its   *)
(* predecessor and a replacement that is larger or smaller all happen.      *)
EXTENDS Companions

MCBinaries == <<"a", "b">>
MCInitialCells ==
  {<<>>,
   <<Cell("sudt", "issuer", Corrupted), Cell("sudt", "issuer", 2),
     Cell("sudt", "bob", 1), Cell("xudt", "bob", 2)>>,
   <<Cell("xudt", "bob", 1), Cell("xudt", "bob", 2), Cell("xudt", "bob", 2),
     Cell("sudt", "bob", 2)>>}
=============================================================================
