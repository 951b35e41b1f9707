--------------------------- MODULE MCPluginDelivery ---------------------------
(* Small instances of PluginDelivery for TLC.                              *)
EXTENDS PluginDelivery
===============================================================================
