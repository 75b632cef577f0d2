--------------------------------- MODULE MCApp ---------------------------------
(* Instances of AppLifecycle for TLC. *)
EXTENDS AppLifecycle
===============================================================================
