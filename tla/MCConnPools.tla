---------------------------- MODULE MCConnPools ----------------------------
(* A small instance of ConnPools for TLC.                                  *)
EXTENDS ConnPools, TLC

CONSTANTS p1, t1, t2, w1, w2

\* The refill loop visits the proxies in this order.
MCOneProxy == <<p1>>
=============================================================================
