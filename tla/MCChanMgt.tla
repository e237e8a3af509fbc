----------------------------- MODULE MCChanMgt -----------------------------
(* Instances of ChanMgt for TLC; the channels are model values. *)
EXTENDS ChanMgt

CONSTANTS home, dfs1, dfs2, none
============================================================================
