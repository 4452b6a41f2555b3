---------------------------- MODULE MCTcpServer -----------------------------
(* Two names and two clients that may connect under either name, so that   *)
(* clients race for a name, take over a freed one and send to themselves;  *)
(* two sends in flight and two payloads, so that sends overlap.            *)
EXTENDS TcpServer
=============================================================================
