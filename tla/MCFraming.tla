----------------------------- MODULE MCFraming -----------------------------
EXTENDS Framing, TLC

CONSTANTS f1, f2

MCConn == {f1, f2}
MCBodyLen == f1 :> {0, 2} @@ f2 :> {0}
MCMaxRequests == f1 :> 2 @@ f2 :> 1
=============================================================================
