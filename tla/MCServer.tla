------------------------------ MODULE MCServer ------------------------------
(* A small instance of Server: two requests with the token, one without.   *)
EXTENDS Server, TLC

CONSTANTS r1, r2, r3, a1, a2

AllRequests == {r1, r2, r3}
Tokens      == r1 :> "secret" @@ r2 :> "secret" @@ r3 :> ""

Setting(token, loopback, apply) == [token |-> token, loopback |-> loopback, apply |-> apply]

\* Applying with a token, a dry run without one, and a refused address.
AllSettings ==
  {Setting("secret", FALSE, TRUE), Setting("", TRUE, FALSE), Setting("", FALSE, TRUE)}
=============================================================================
