--------------------------- MODULE MCTracePlugins ---------------------------
(* Two events of two devices whose hosts have the same name, and one event  *)
(* each of every kind that get_event_info turns down.                       *)
EXTENDS TracePlugins

MCEvents == {"a", "h1", "h2", "short", "badlines", "gone"}
MCParts == [e \in MCEvents |-> CASE e \in {"h1", "h2"} -> 4 [] e = "short" -> 2 [] OTHER -> 3]
MCDevice == [e \in MCEvents |-> CASE e = "h2" -> "d2" [] e = "gone" -> "d3" [] OTHER -> "d1"]
MCHost == [e \in MCEvents |-> IF e \in {"h1", "h2"} THEN "node" ELSE "none"]
=============================================================================
