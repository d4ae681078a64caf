------------------------------ MODULE PlanDiff ------------------------------
(***************************************************************************)
(* The summary of a plan that Create stores and the page shows: what would *)
(* change if the desired state were installed over the snapshot            *)
(* (plan/ipset.go, routes.go, rules.go, nft.go, types.go).  The contents   *)
(* of an ipset are the set of its entries; snapshots are Resources' cells. *)
(***************************************************************************)
EXTENDS Resources

(* Entries of a set that does not exist: none.                             *)
Entries(seen) == IF seen = <<>> THEN {} ELSE seen[1]

DiffIPSet(want, seen) ==
    [created |-> seen = <<>>, add |-> want \ Entries(seen), remove |-> Entries(seen) \ want]

(* Routes and rules: by the fields the plan sets.                          *)
DiffEntry(want, seen) ==
    CASE seen = <<>>     -> "create"
      [] seen = <<want>> -> "noop"
      [] OTHER           -> "update"

(* The nft table is never said to be a noop.                               *)
DiffNFT(seen) == IF seen = <<>> THEN "create" ELSE "replace"

ChangesNothing(r, want, seen) ==
    CASE KindOf[r] = "ipset" -> DiffIPSet(want, seen) = [created |-> FALSE, add |-> {}, remove |-> {}]
      [] KindOf[r] = "nft"   -> DiffNFT(seen) = "noop"
      [] OTHER               -> DiffEntry(want, seen) = "noop"

(* Diff.Empty, for desired state d and snapshot s.                         *)
Empty(d, s) == \A r \in Targets(d) : ChangesNothing(r, d[r], s[r])

(* What a successful Apply that works from snapshot cell `seen` makes of   *)
(* the live cell c (applyRules skips a rule that is in place, and deletes  *)
(* a different one first).                                                 *)
AfterApply(r, c, want, seen) ==
    CASE ~IsRule(r) \/ seen = <<>>   -> AfterInstall(r, c, want)
      [] IsRule(r) /\ seen = <<want>> -> c
      [] OTHER                       -> AfterInstall(r, AfterRuleDel(c), want)

AfterPlan(k, d) ==
    [r \in Resource |-> IF r \in Targets(d) THEN AfterApply(r, k[r], d[r], Observe(k[r])) ELSE k[r]]

-----------------------------------------------------------------------------
(* A kernel in which `ip rule add` has stacked nothing.                    *)
Unstacked(k) == \A r \in Resource : k[r] \in SnapCell

(* What the summary promises about plan d, created over kernel k: without  *)
(* an entry for resource r, applying the plan leaves r alone; with one, it *)
(* changes r - but for the nft table, which is always listed.              *)
SummaryIsExact(k, d) ==
    \A r \in Targets(d) :
        KindOf[r] # "nft" => (ChangesNothing(r, d[r], Capture(k, d)[r]) <=> AfterPlan(k, d)[r] = k[r])

(* The entries to add and to remove lead from the old set to the new one.  *)
EntriesAddUp(want, seen) ==
    LET diff == DiffIPSet(want, seen)
    IN  (Entries(seen) \ diff.remove) \cup diff.add = want
=============================================================================
