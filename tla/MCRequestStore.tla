--------------------------- MODULE MCRequestStore ---------------------------
(* Values of the constants of RequestStore for TLC. *)
EXTENDS RequestStore, TLC

Body(life, key, url, delivery, held) ==
    [life |-> life, key |-> key, url |-> url, delivery |-> delivery, held |-> held]

(* A plain request with a deadline, without a webhook. *)
Quiet == {Body(1, FALSE, FALSE, FALSE, FALSE)}

(* The same, or held until its sender is accepted. *)
QuietOrHeld == Quiet \cup {Body(1, FALSE, FALSE, FALSE, TRUE)}

(* With a public key and a webhook, without a deadline. *)
Keyed == {Body(None, TRUE, TRUE, FALSE, FALSE)}

(* With a key, a webhook and a delivery. *)
Everything == {Body(None, TRUE, TRUE, TRUE, FALSE)}

HandlerSymmetry == Permutations(Handlers)
=============================================================================
