---------------------------- MODULE MCScreenCast ----------------------------
(* Two calls, over portals that offer nothing, one that cannot hide the    *)
(* cursor, one that cannot draw it, and one that can do everything.        *)
EXTENDS ScreenCast

SomeOffers == {{}, {"embedded"}, {"hidden", "metadata"}, Modes}
=============================================================================
