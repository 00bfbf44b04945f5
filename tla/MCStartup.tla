------------------------------ MODULE MCStartup ------------------------------
(* Startup of one server beside one command of each kind.                  *)
EXTENDS Startup, TLC

CONSTANTS server, create_user, gen_cert, q1, q2, q3, q4
=============================================================================
