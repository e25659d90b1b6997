-------------------------- MODULE MCHttpConnection --------------------------
(* Model-checking instances of HttpConnection. *)
EXTENDS HttpConnection, TLC

CONSTANTS c1, c2

QuotaOne == c1 :> 3
QuotaTwo == c1 :> 1 @@ c2 :> 2
=============================================================================
