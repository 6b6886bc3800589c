----------------------------- MODULE MCBuildFix -----------------------------
(* BuildFix.tla with every episode a model may echo.                       *)
EXTENDS BuildFix

AllEchoes == {"episode", "other", "none"}

RightEcho == {"episode"}
=============================================================================
