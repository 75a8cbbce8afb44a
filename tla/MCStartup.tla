----------------------------- MODULE MCStartup -----------------------------
(* Instance of Startup for TLC: one magnification of each sign.            *)
EXTENDS Startup
Signs == {-1, 0, 6}
=============================================================================
