---------------------------- MODULE MCCallbacks ----------------------------
(* Two service threads, the network and the import thread as producers. *)
EXTENDS Callbacks
CONSTANTS t1, t2, net, load, e1
=============================================================================
