--------------------------- MODULE MCWsConnection ---------------------------
(* TLC instances of WsConnection: both roles, chosen by Init. *)
EXTENDS WsConnection
=============================================================================
