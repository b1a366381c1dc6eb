----------------------------- MODULE MCSessions -----------------------------
(* One peer that announces and connects, and two names of which one is the  *)
(* prefix that the other is looked for by.                                   *)
EXTENDS Sessions, TLC

MCPrefixOf == "n1" :> "n1" @@ "n2" :> "n1"
=============================================================================
