------------------------------ MODULE MCPanel ------------------------------
(* One browser over two connections: the one it had, which the server may *)
(* still keep after the browser has given it up, is the second client.     *)
EXTENDS Panel
=============================================================================
