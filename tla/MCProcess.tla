----------------------------- MODULE MCProcess ------------------------------
(* Process.tla with two result texts and every kind of line a child may    *)
(* write.                                                                  *)
EXTENDS Process

MCTexts == {"first", "second"}

AllKinds == LineKinds

(* Without a line that is too long.                                        *)
ShortKinds == LineKinds \ {"huge", "rest"}
=============================================================================
