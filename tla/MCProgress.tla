----------------------------- MODULE MCProgress -----------------------------
(* An instance of ProgressTracker: four commands over three hypotheses and   *)
(* two families, one hypothesis reached from both families.                  *)
EXTENDS ProgressTracker, TLC

MCCommands   == {"c1", "c2", "c3", "c4"}
MCHypotheses == {"h1", "h2", "h3"}
MCFamilies   == {"f1", "f2"}
MCKeyOf      == ("c1" :> "h1") @@ ("c2" :> "h1") @@ ("c3" :> "h2") @@ ("c4" :> "h3")
MCFamilyOf   == ("c1" :> "f1") @@ ("c2" :> "f2") @@ ("c3" :> "f1") @@ ("c4" :> "f2")
=============================================================================
