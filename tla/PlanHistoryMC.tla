--------------------------- MODULE PlanHistoryMC ---------------------------
(***************************************************************************)
(* Small instances of PlanHistory.                                         *)
(***************************************************************************)
EXTENDS PlanHistory, TLC

CONSTANTS set1, nft1, rule1, route1,     \* kernel objects
          a, b                           \* contents

MCKindOf == [r \in Resource |->
    CASE r = set1 -> "ipset" [] r = nft1 -> "nft" [] r = rule1 -> "rule" [] OTHER -> "route"]

Listing(f) == f @@ [r \in Resource |-> NotListed]

(* Two plans that share the rule.                                          *)
SetAndRule == {Listing(set1 :> a @@ rule1 :> a), Listing(rule1 :> b)}

(* The same rule, one content or the other.                                *)
RuleOnly == {Listing(rule1 :> a), Listing(rule1 :> b)}
SetOnly == {Listing(set1 :> a), Listing(set1 :> b)}

(* All four stages in one plan.                                            *)
AllKinds == {Listing(set1 :> a @@ nft1 :> a @@ rule1 :> a @@ route1 :> a)}
=============================================================================
