----------------------------- MODULE Resources -----------------------------
(***************************************************************************)
(* The live kernel objects a plan may target, one cell per object: an      *)
(* ipset by name, the nft table wg-admin, an fwmark rule by priority, a    *)
(* route by (table, dest).  A cell is a sequence, because `ip rule add`    *)
(* happily stacks two different rules on one priority; every other kind    *)
(* holds at most one value.                                                *)
(***************************************************************************)
EXTENDS Naturals, Sequences

CONSTANTS
    Resource,   \* kernel objects plans may target
    Value,      \* contents: ipset entries, nft body, rule (mark, table), route (dev, via)
    KindOf,     \* Resource -> Kinds
    EmptySet,   \* the contents of a freshly created ipset
    NotListed   \* "this plan does not mention the resource"

Kinds == {"ipset", "nft", "rule", "route"}

ASSUME KindAssumption == KindOf \in [Resource -> Kinds]
ASSUME EmptySetAssumption == EmptySet \in Value
ASSUME NotListedAssumption == NotListed \notin Value

IsRule(r) == KindOf[r] = "rule"

(* The stages of Apply, in dependency order: ipsets, nft, rules, routes.   *)
Rank == [k \in Kinds |-> CASE k = "ipset" -> 1
                           [] k = "nft"   -> 2
                           [] k = "rule"  -> 3
                           [] k = "route" -> 4]

RankOf(r) == Rank[KindOf[r]]

Cell == Seq(Value)
DesiredState == [Resource -> Value \cup {NotListed}]
SnapCell == {<<>>} \cup {<<v>> : v \in Value}
Snapshot == [Resource -> SnapCell]

Targets(d) == {r \in Resource : d[r] # NotListed}

(* What a snapshot records of a cell.  snapshotRules indexes the listing   *)
(* by priority, so of two rules on one priority the later one wins.        *)
Observe(c) == IF c = <<>> THEN <<>> ELSE <<c[Len(c)]>>

Capture(k, d) == [r \in Resource |-> IF d[r] = NotListed THEN <<>> ELSE Observe(k[r])]

(* `ip rule del priority N`: removes the first match, none is no error.    *)
AfterRuleDel(c) == IF c = <<>> THEN <<>> ELSE Tail(c)

(* `ip rule add`: refused only when the identical rule is already there.   *)
RuleAddRefused(c, v) == \E i \in DOMAIN c : c[i] = v

(* RuleAdd stacks; RouteReplace, NFTApply and IPSetReplace overwrite.      *)
AfterInstall(r, c, v) == IF IsRule(r) THEN Append(c, v) ELSE <<v>>

(* A command that reports an error was either refused or took effect and   *)
(* was killed or failed afterwards.  IPSetReplace is five commands: it may *)
(* also stop after creating a missing set, leaving it empty.               *)
AfterFailedInstall(r, c, v) ==
    {c, AfterInstall(r, c, v)}
        \cup IF KindOf[r] = "ipset" /\ c = <<>> THEN {<<EmptySet>>} ELSE {}
=============================================================================
