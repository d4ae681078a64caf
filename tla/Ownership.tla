----------------------------- MODULE Ownership -----------------------------
(***************************************************************************)
(* What a plan may ask for (plan/ownership.go, nft.go): Create refuses any *)
(* other request, and ReconcileBoot a confirmed plan that would no longer  *)
(* pass.  The requests of PlanEngine are those that pass.                  *)
(***************************************************************************)
EXTENDS Integers, Sequences, FiniteSets

CONSTANTS PriorityMin, PriorityMax, \* RulePriorityMin, RulePriorityMax
          ForbiddenTables           \* main, local, default, by name and number

(* Of the tables the marks name, those the agent may touch.                *)
AllowedTables(marked) == marked \ ForbiddenTables

(* Every desired route is in an owned table.                               *)
RoutesOwned(tables, owned) ==
    \A n \in DOMAIN tables : tables[n] \notin ForbiddenTables /\ tables[n] \in owned

(* One rule a priority, within the agent's range, to no reserved table.    *)
(* As in the code, the rules before n have been seen when n is looked at.  *)
RuleOwned(rules, n) ==
    /\ rules[n].priority \in PriorityMin..PriorityMax
    /\ \A m \in 1..(n - 1) : rules[m].priority # rules[n].priority
    /\ rules[n].table \notin ForbiddenTables

RulesOwned(rules) == \A n \in DOMAIN rules : RuleOwned(rules, n)

(* What the gate is for, without an order: as many priorities as rules.    *)
RulesAreOurs(rules) ==
    LET asked == {rules[n] : n \in DOMAIN rules}
    IN  /\ Cardinality({r.priority : r \in asked}) = Len(rules)
        /\ \A r \in asked : r.priority \in PriorityMin..PriorityMax /\ r.table \notin ForbiddenTables

-----------------------------------------------------------------------------
(* The nft body, as the tokens nftBracesContained tells apart: { } # and   *)
(* the end of a line.                                                      *)
Token == {"open", "close", "hash", "newline", "other"}

Contained == [depth |-> 0, comment |-> FALSE, ok |-> TRUE]

(* One turn of the scan's loop; ok is FALSE once it has returned an error. *)
Scanned(s, t) ==
    IF ~s.ok THEN s
    ELSE IF s.comment THEN [s EXCEPT !.comment = (t # "newline")]
    ELSE CASE t = "hash"  -> [s EXCEPT !.comment = TRUE]
           [] t = "open"  -> [s EXCEPT !.depth = @ + 1]
           [] t = "close" -> [s EXCEPT !.depth = @ - 1, !.ok = (s.depth > 0)]
           [] OTHER       -> s

BracesContained(body) ==
    LET scan[n \in 0..Len(body)] ==
          IF n = 0 THEN Contained ELSE Scanned(scan[n - 1], body[n])
    IN  scan[Len(body)].ok /\ scan[Len(body)].depth = 0

-----------------------------------------------------------------------------
(* What the scan is for, without a scan: outside comments every closing    *)
(* brace has an opening one of the body before it, and the other way round.*)
InComment(body, n) ==
    \E c \in 1..(n - 1) : body[c] = "hash" /\ \A m \in c..(n - 1) : body[m] # "newline"

Braces(body, brace, n) == {m \in 1..n : body[m] = brace /\ ~InComment(body, m)}

StaysInside(body) ==
    LET opened(n) == Cardinality(Braces(body, "open", n))
        closed(n) == Cardinality(Braces(body, "close", n))
    IN  /\ \A n \in 0..Len(body) : closed(n) <= opened(n)
        /\ closed(Len(body)) = opened(Len(body))
=============================================================================
