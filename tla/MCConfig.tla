------------------------------ MODULE MCConfig ------------------------------
(* Two blocks: one with a loglevel, one with a dynamic config; both have a   *)
(* gain that may share a node config.                                        *)
EXTENDS Launch
MCBlock == {"a", "b"}
MCBlocks == <<"a", "b">>
MCName == {"loglevel", "gain", "value"}
MCConfigs == [b \in MCBlock |-> IF b = "a" THEN {"loglevel", "gain"} ELSE {"gain", "value"}]
MCMin == [n \in MCName |-> IF n = "loglevel" THEN 0 ELSE 1]
MCMax == [n \in MCName |-> IF n = "loglevel" THEN 0 ELSE 1]
MCType == [n \in MCName |-> IF n = "loglevel" THEN "int" ELSE "double"]
MCNodeType == [d \in NodeData |-> "double"]
MCLens == [t \in {"int", "double"} |-> IF t = "int" THEN {1} ELSE {1, 2}]
CONSTANTS NC, Other   \* the node config of the composition, and one it lacks
MCNodeCfgs == <<[d |-> NC, len |-> 1]>>
Setting(b, n, len, d) == [b |-> b, n |-> n, len |-> len, d |-> d]
\* The root system overrides values of a subsystem, with and without the node
\* config, of a static and of a dynamic config.
MCSettings ==
  << Setting("a", "gain", 1, NC), Setting("b", "value", 1, NC),
     Setting("b", "gain", 1, None), Setting("a", "loglevel", 1, None),
     Setting("a", "gain", 1, None), Setting("b", "gain", 1, NC),
     Setting("b", "value", 1, None) >>
\* A node config of another type, one that does not exist, a config that does not
\* exist, a length out of limits, and nothing.
MCCompositions ==
  { MCSettings,
    << Setting("b", "gain", 1, None), Setting("a", "loglevel", 1, NC) >>,
    << Setting("b", "gain", 1, NC), Setting("a", "gain", 1, Other) >>,
    << Setting("b", "gain", 1, NC), Setting("a", "gain", 1, NC), Setting("a", "value", 1, None) >>,
    << Setting("b", "gain", 2, None) >>,
    << >> }
Call(op, b, n, len, must) == [op |-> op, b |-> b, n |-> n, len |-> len, must |-> must]
MCProgram ==
  << Call("create", "a", "", 0, TRUE), Call("create", "b", "", 0, TRUE),
     Call("set", "b", "gain", 1, TRUE), Call("init", "b", "", 0, TRUE),
     Call("set", "b", "value", 1, TRUE), Call("set", "a", "value", 1, FALSE),
     Call("set", "a", "gain", 1, TRUE), Call("init", "a", "", 0, TRUE),
     Call("start", "b", "", 0, TRUE), Call("start", "a", "", 0, TRUE) >>
=============================================================================
