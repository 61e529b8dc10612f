---------------------------- MODULE MCAlgorithms ----------------------------
(* Forms, DidAuth, KeyMaterial and Pagination share no state: each         *)
(* behaviour is one of one machine, while the others stay where they       *)
(* begin.                                                                  *)
EXTENDS Forms, DidAuth, KeyMaterial, Pagination

VARIABLE machine

mcVars == <<machine, formVars, didVars, keyVars, vars>>

MCInit == /\ machine \in {"form", "did", "key", "walk"}
          /\ FormInit /\ DidInit /\ KeyInit /\ Init
          /\ machine # "did" => x = <<>> /\ apiKey = None /\ serverKey = None
          /\ machine # "key" => \A k \in Exponents : e <= k

MCNext == /\ UNCHANGED machine
          /\ \/ machine = "form" /\ FormNext /\ UNCHANGED <<didVars, keyVars, vars>>
             \/ machine = "did" /\ DidNext /\ UNCHANGED <<formVars, keyVars, vars>>
             \/ machine = "key" /\ KeyNext /\ UNCHANGED <<formVars, didVars, vars>>
             \/ machine = "walk" /\ Next /\ UNCHANGED <<formVars, didVars, keyVars>>

MCSpec == MCInit /\ [][MCNext]_mcVars

(* The fairness of Pagination's FairSpec; the others need none. *)
MCFairSpec == MCSpec /\ WF_vars(Fetch)

TwoCalls == {[method |-> "GET", path |-> "/requests", body |-> ""],
             [method |-> "POST", path |-> "/requests", body |-> "text"]}

(* Two bytes in place of 0xed 0x01. *)
TwoBytes == <<2, 1>>

(* Pages of 3 for those of 25, and at most 4 for 100. *)
QueriesAroundTheBounds == 0..5
=============================================================================
