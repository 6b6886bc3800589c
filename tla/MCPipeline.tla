---------------------------- MODULE MCPipeline -----------------------------
(* Pipeline.tla with two advisory tasks of one repository.                 *)
EXTENDS Pipeline, TLC

CONSTANTS t1, t2, fix1, fix2, r1, r2

MCWant == t1 :> fix1 @@ t2 :> fix2

(* Both filed at the same head, and one filed alone.                       *)
SameRef == t1 :> r1 @@ t2 :> r1

Alone == t1 :> r1

SharedOrOwn == {SameRef, Alone}

=============================================================================
