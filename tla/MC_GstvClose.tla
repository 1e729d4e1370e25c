---------------------------- MODULE MC_GstvClose ----------------------------
(* GstvClose with one attempt whose file is still there at the close, and    *)
(* one that edited nothing.                                                  *)
EXTENDS GstvClose, TLC

CONSTANTS kept, idle, f

MCEpisodes == {kept, idle}
MCTouched  == kept :> {f} @@ idle :> {}
MCFinal    == {f}
=============================================================================
