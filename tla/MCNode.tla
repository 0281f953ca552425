------------------------------- MODULE MCNode -------------------------------
(* The shape of modules of the repository: stdtypes, the block libraries that *)
(* register a prototype only (lfds_cyclic, trig), the examples that register a *)
(* type, too (random, threshold), and cppdemo, which misspells it in cleanup.  *)
EXTENDS Node, TLC

Library(ts, checked, bs, needs, dropTypes, dropBlocks) ==
  [types |-> ts, checked |-> checked, blocks |-> bs, needs |-> needs,
   dropTypes |-> dropTypes, dropBlocks |-> dropBlocks]

StdTypes  == Library(<<"int", "double">>, FALSE, {}, {}, {"int", "double"}, {})
LfdsLib   == Library(<<>>, TRUE, {"cyclic"}, {"int"}, {}, {"cyclic"})
RandomLib == Library(<<"conf">>, TRUE, {"random"}, {"conf", "int"}, {"conf"}, {"random"})
CppDemo   == Library(<<"demo">>, FALSE, {"cppdemo"}, {}, {"misspelt"}, {"cppdemo"})

AllTypes  == {"int", "double", "conf", "demo"}
AllBlocks == {"cyclic", "random", "cppdemo", "i1", "i2"}

\* an instance may have the name of a prototype
Instances == {"i1", "i2", "cyclic"}

CodeAll    == "stdtypes" :> StdTypes @@ "lfds" :> LfdsLib @@ "random" :> RandomLib @@
              "cppdemo" :> CppDemo
CodeLfds   == "stdtypes" :> StdTypes @@ "lfds" :> LfdsLib
CodeRandom == "stdtypes" :> StdTypes @@ "random" :> RandomLib
CodeDemo   == "stdtypes" :> StdTypes @@ "cppdemo" :> CppDemo

=============================================================================
