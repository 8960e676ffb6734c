--------------------------- MODULE MCWsController ---------------------------
(* Instances of WsController for TLC.                                      *)
EXTENDS WsController, TLC

CallerSymmetry == Permutations(Ids) \cup Permutations(Chans)

ServiceAndCallerSymmetry == CallerSymmetry \cup Permutations(Services)
=============================================================================
