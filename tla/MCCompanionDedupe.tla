-------------------------- MODULE MCCompanionDedupe --------------------------
(* Small instances of CompanionDedupe for TLC. *)
EXTENDS CompanionDedupe, TLC

CONSTANTS d1, d2, d3, k1, k2, t1, s1

Stamps == k1 :> 1 @@ k2 :> 2
Stamp1 == k1 :> 1
TokenExps == t1 :> 2
NoTokenExps == <<>>

\* Up to the names of deliveries and scopes, every pair of requests of which one
\* carries the token.
TokenInit == Init /\ req[d1].token = t1 /\ req[d1].scope = s1
TokenFairSpec == TokenInit /\ [][Next]_vars /\ Fairness

=============================================================================
