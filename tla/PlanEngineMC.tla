---------------------------- MODULE PlanEngineMC ----------------------------
(***************************************************************************)
(* Small instances of PlanEngine: one kernel object per kind, two contents *)
(* and a few plans that share objects.                                     *)
(***************************************************************************)
EXTENDS PlanEngine, TLC

CONSTANTS set1, nft1, rule1, route1,     \* kernel objects
          a, b                           \* contents

MCKindOf == [r \in Resource |->
    CASE r = set1 -> "ipset" [] r = nft1 -> "nft" [] r = rule1 -> "rule" [] OTHER -> "route"]

Listing(f) == f @@ [r \in Resource |-> NotListed]

(* One plan lists both a set and a rule, the other another rule.           *)
SetAndRule == {Listing(set1 :> a @@ rule1 :> a), Listing(rule1 :> b)}

(* The same rule, one content or the other.                                *)
RuleOnly == {Listing(rule1 :> a), Listing(rule1 :> b)}

(* Below the default, and above the maximum.                               *)
Unusual == {-1, 9}
=============================================================================
