------------------------------ MODULE LeavesMC ------------------------------
(***************************************************************************)
(* A small instance of Leaves: three calls and two ticks in flight, so     *)
(* that answers can overtake one another; three targets, two of them with  *)
(* one key, for two places; two calls of IPSetReplace, so that the second  *)
(* meets what the first left behind; two processes and three migrations.   *)
(***************************************************************************)
EXTENDS Leaves, Ownership, TLC

CONSTANTS c1, c2, c3, t1, t2, a0, a1, b0, a, b, e1, e2, daemon, import

(* The gates over all short requests: the brace scan against what it is    *)
(* for, and the rules against a formulation without an order.              *)
SeqsUpTo(S, n) == UNION {[1..k -> S] : k \in 0..n}

ASSUME ScanAssumption == \A body \in SeqsUpTo(Token, 5) : BracesContained(body) <=> StaysInside(body)

AskedRules == [priority : (PriorityMin - 1)..(PriorityMax + 1), table : ForbiddenTables \cup {"vpn"}]

ASSUME RulesAssumption == \A rules \in SeqsUpTo(AskedRules, 3) : RulesOwned(rules) <=> RulesAreOurs(rules)

ASSUME RoutesAssumption ==
    \A tables \in SeqsUpTo(ForbiddenTables \cup {"vpn", "wan"}, 3), marked \in SUBSET (ForbiddenTables \cup {"vpn"}) :
        RoutesOwned(tables, AllowedTables(marked)) =>
            \A n \in DOMAIN tables : tables[n] = "vpn" /\ "vpn" \in marked

(* The summary of every plan over one ipset and one route or rule.         *)
DiffOf(kind) == INSTANCE PlanDiff WITH
    Resource <- {"set", "entry"}, Value <- SUBSET Entry, EmptySet <- {}, NotListed <- Absent,
    KindOf <- [set |-> "ipset", entry |-> kind]

ASSUME DiffAssumption ==
    LET cells == {<<>>} \cup {<<v>> : v \in SUBSET Entry}
        kernels == [{"set", "entry"} -> cells]
    IN  \A kind \in {"route", "rule"}, k \in kernels, want \in SUBSET Entry, seen \in cells :
            /\ DiffOf(kind)!EntriesAddUp(want, seen)
            /\ DiffOf(kind)!SummaryIsExact(k, [set |-> want, entry |-> want])

MCKeyOf == a0 :> a @@ a1 :> a @@ b0 :> b
=============================================================================
