---------------------------- MODULE MCWebSockHub ----------------------------
(* WebSockHub for TLC: the web sockets are interchangeable.                *)
EXTENDS WebSockHub, TLC

SockSymmetry == Permutations(Sock)
=============================================================================
