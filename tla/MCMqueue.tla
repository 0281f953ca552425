------------------------------ MODULE MCMqueue ------------------------------
(* A writer in one process, a reader and a logger in another, of one name;    *)
(* the logger keeps the queue.                                                *)
EXTENDS Mqueue, TLC

CONSTANTS w, r, l, p, q, n

MCProcessOf  == (w :> p) @@ (r :> q) @@ (l :> q)
MCName       == (w :> n) @@ (r :> n) @@ (l :> n)
MCBufferLen  == (w :> 2) @@ (r :> 1) @@ (l :> 1)
MCUnlink     == (w :> TRUE) @@ (r :> TRUE) @@ (l :> FALSE)
=============================================================================
