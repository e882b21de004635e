------------------------------ MODULE MCTcpAdnl -------------------------------
(* Two queries at once on one connection.                                      *)
EXTENDS TcpAdnl
===============================================================================
