------------------------------ MODULE MCPorts -------------------------------
(* Two writers and a reader: a ring buffer that all of them use, one with a   *)
(* single writer and a message queue; one port connected twice.               *)
EXTENDS Ports

CONSTANTS w1, w2, r, c1, c2, m

MCBufferLen == (c1 :> 2) @@ (c2 :> 2) @@ (m :> 1)
MCFits      == {<<w1, c1>>, <<w2, c1>>, <<r, c1>>, <<w1, c2>>, <<r, c2>>, <<w2, m>>, <<r, m>>}
MCMaxMsgs   == (w1 :> 2) @@ (w2 :> 1)
MCTopologies == { (w1 :> <<c1>>)     @@ (w2 :> <<m>>)  @@ (r :> <<c1, m>>),
                  (w1 :> <<c1, c1>>) @@ (w2 :> <<c1>>) @@ (r :> <<c1>>),
                  (w1 :> <<c2, c2>>) @@ (w2 :> <<c2>>) @@ (r :> <<c2>>) }

=============================================================================
