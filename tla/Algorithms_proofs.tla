------------------------- MODULE Algorithms_proofs -------------------------
(***************************************************************************)
(* What the pure parts compute, for every input.  The summary of a plan is *)
(* exact for every set of resources and values, every desired state and    *)
(* every kernel without stacked rules; and Apply, from a fresh snapshot,   *)
(* installs the plan and is idempotent.  The loops are proved by induction *)
(* over their length: the gates on rules and on nft bodies accept exactly  *)
(* what they are for, and the address walk finds the least free address.   *)
(***************************************************************************)
EXTENDS PlanDiff, Ownership, AddressWalk, FiniteSetTheorems, WellFoundedInduction, TLAPS

(* The plan's summary.                                                     *)

(* What a snapshot cell can be, and that observing it changes nothing.     *)
LEMMA SnapCellCases ==
    ASSUME NEW c \in SnapCell
    PROVE  /\ c = <<>> \/ \E v \in Value : c = <<v>>
           /\ Observe(c) = c
<1>1. CASE c = <<>>
  BY <1>1 DEF Observe
<1>2. CASE c # <<>>
  <2>1. PICK v \in Value : c = <<v>>
    BY <1>2 DEF SnapCell
  <2>. QED  BY <2>1 DEF Observe
<1>. QED  BY <1>1, <1>2

(* Apply, which sees a cell as it is, leaves the wanted value in it and    *)
(* nothing else: a differing rule goes before its replacement comes.       *)
LEMMA FreshApplyInstalls ==
    ASSUME NEW r, NEW c \in SnapCell, NEW want
    PROVE  AfterApply(r, c, want, Observe(c)) = <<want>>
<1>1. Observe(c) = c
  BY SnapCellCases
<1>2. CASE c = <<>>
  BY <1>1, <1>2 DEF AfterApply, AfterInstall
<1>3. CASE \E v \in Value : c = <<v>>
  <2>1. PICK v \in Value : c = <<v>>
    BY <1>3
  <2>2. Tail(c) = <<>> /\ Append(<<>>, want) = <<want>> /\ c # <<>>
    BY <2>1
  <2>. QED  BY <1>1, <2>2 DEF AfterApply, AfterInstall, AfterRuleDel
<1>. QED  BY <1>2, <1>3, SnapCellCases

(* After a plan is applied from a fresh snapshot, what it asks for is in   *)
(* place, one rule a priority, and the rest is as it was                   *)
(* (Engine.applyNoSet over snapshotRules' view of the kernel).             *)
THEOREM FreshPlanInstalls ==
    ASSUME NEW k \in [Resource -> Cell], Unstacked(k), NEW d \in DesiredState
    PROVE  AfterPlan(k, d) = [r \in Resource |-> IF r \in Targets(d) THEN <<d[r]>> ELSE k[r]]
<1>1. ASSUME NEW r \in Resource
      PROVE  AfterApply(r, k[r], d[r], Observe(k[r])) = <<d[r]>>
  <2>1. k[r] \in SnapCell
    BY DEF Unstacked
  <2>. QED  BY <2>1, FreshApplyInstalls
<1>. QED  BY <1>1 DEF AfterPlan

(* DiffIPSet says nothing exactly when the set has the wanted entries.     *)
LEMMA IPSetDiffIsExact ==
    ASSUME NEW want, NEW seen \in SnapCell
    PROVE  DiffIPSet(want, seen) = [created |-> FALSE, add |-> {}, remove |-> {}]
             <=> seen = <<want>>
<1>1. DiffIPSet(want, seen) = [created |-> FALSE, add |-> {}, remove |-> {}]
        <=> /\ (seen = <<>>) = FALSE
            /\ want \ Entries(seen) = {}
            /\ Entries(seen) \ want = {}
  BY DEF DiffIPSet
<1>2. CASE seen = <<>>
  BY <1>1, <1>2
<1>3. CASE \E v \in Value : seen = <<v>>
  <2>1. PICK v \in Value : seen = <<v>>
    BY <1>3
  <2>2. Entries(seen) = v /\ (seen = <<>>) = FALSE /\ (seen = <<want>> <=> v = want)
    BY <2>1 DEF Entries
  <2>3. v = want <=> want \ v = {} /\ v \ want = {}
    OBVIOUS
  <2>. QED  BY <1>1, <2>2, <2>3
<1>. QED  BY <1>2, <1>3, SnapCellCases

(* The summary of a plan is exact: without an entry for a resource the     *)
(* plan leaves it alone, with one it changes it (Diff.Empty and diff of    *)
(* plan/ipset.go, routes.go, rules.go).                                    *)
THEOREM SummaryExact ==
    ASSUME NEW k \in [Resource -> Cell], Unstacked(k), NEW d \in DesiredState
    PROVE  SummaryIsExact(k, d)
<1>. SUFFICES ASSUME NEW r \in Targets(d), KindOf[r] # "nft"
              PROVE  ChangesNothing(r, d[r], Capture(k, d)[r]) <=> AfterPlan(k, d)[r] = k[r]
  BY DEF SummaryIsExact
<1>1. r \in Resource /\ d[r] # NotListed
  BY DEF Targets
<1>2. k[r] \in SnapCell
  BY <1>1 DEF Unstacked
<1>3. Capture(k, d)[r] = k[r]
  BY <1>1, <1>2, SnapCellCases DEF Capture
<1>4. AfterPlan(k, d)[r] = <<d[r]>>
  BY <1>1, FreshPlanInstalls
<1>5. CASE KindOf[r] = "ipset"
  BY <1>2, <1>3, <1>4, <1>5, IPSetDiffIsExact DEF ChangesNothing
<1>6. CASE KindOf[r] # "ipset"
  <2>1. DiffEntry(d[r], k[r]) = "noop" <=> k[r] = <<d[r]>>
    <3>1. CASE k[r] = <<>>
      BY <3>1 DEF DiffEntry
    <3>2. CASE k[r] # <<>>
      BY <3>2 DEF DiffEntry
    <3>. QED  BY <3>1, <3>2
  <2>. QED  BY <2>1, <1>3, <1>4, <1>6 DEF ChangesNothing
<1>. QED  BY <1>5, <1>6

(* A plan whose summary is empty changes nothing at all: the page's "no    *)
(* changes" is true of the kernel (Diff.Empty).                            *)
THEOREM EmptySummaryIsNoChange ==
    ASSUME NEW k \in [Resource -> Cell], Unstacked(k), NEW d \in DesiredState,
           Empty(d, Capture(k, d))
    PROVE  AfterPlan(k, d) = k
<1>1. ASSUME NEW r \in Targets(d)
      PROVE  AfterPlan(k, d)[r] = k[r]
  <2>1. ChangesNothing(r, d[r], Capture(k, d)[r])
    BY DEF Empty
  <2>2. KindOf[r] # "nft"
    BY <2>1 DEF ChangesNothing, DiffNFT
  <2>. QED  BY <2>1, <2>2, SummaryExact DEF SummaryIsExact
<1>2. ASSUME NEW r \in Resource, r \notin Targets(d)
      PROVE  AfterPlan(k, d)[r] = k[r]
  BY <1>2 DEF AfterPlan
<1>3. AfterPlan(k, d) = [r \in Resource |-> AfterPlan(k, d)[r]]
  BY DEF AfterPlan
<1>. QED  BY <1>1, <1>2, <1>3

(* Applying a plan again, from a snapshot taken after the first time,      *)
(* changes nothing: what ReconcileBoot does after a restart that did not   *)
(* reboot the host (Engine.ReconcileBoot).                                 *)
THEOREM ApplyingAgainIsNoChange ==
    ASSUME NEW k \in [Resource -> Cell], Unstacked(k), NEW d \in DesiredState
    PROVE  AfterPlan(AfterPlan(k, d), d) = AfterPlan(k, d)
<1>. DEFINE once == AfterPlan(k, d)
<1>1. once = [r \in Resource |-> IF r \in Targets(d) THEN <<d[r]>> ELSE k[r]]
  BY FreshPlanInstalls
<1>2. ASSUME NEW r \in Resource
      PROVE  once[r] \in SnapCell /\ once[r] \in Cell
  <2>1. CASE r \in Targets(d)
    <3>1. d[r] \in Value
      BY <2>1 DEF Targets, DesiredState
    <3>. QED  BY <1>1, <2>1, <3>1 DEF SnapCell, Cell
  <2>2. CASE r \notin Targets(d)
    BY <1>1, <2>2 DEF Unstacked
  <2>. QED  BY <2>1, <2>2
<1>3. once \in [Resource -> Cell] /\ Unstacked(once)
  BY <1>1, <1>2 DEF Unstacked
<1>. HIDE DEF once
<1>4. AfterPlan(once, d) = [r \in Resource |-> IF r \in Targets(d) THEN <<d[r]>> ELSE once[r]]
  BY <1>3, FreshPlanInstalls
<1>5. AfterPlan(once, d) = once
  BY <1>1, <1>4
<1>. QED  BY <1>5 DEF once

-----------------------------------------------------------------------------
(* The rule gate.                                                          *)

(* The rule gate, which looks at the rules one after the other, accepts    *)
(* exactly the requests with one rule a priority, all in the agent's range *)
(* and none to a reserved table (validateRuleOwnership).                   *)
THEOREM RuleGateIsExact ==
    ASSUME NEW Table, NEW rules \in Seq([priority : Int, table : Table])
    PROVE  RulesOwned(rules) <=> RulesAreOurs(rules)
<1>. DEFINE N == Len(rules)
            priorities == {rules[n].priority : n \in 1..N}
            at == [n \in 1..N |-> rules[n].priority]
<1>1. /\ N \in Nat /\ DOMAIN rules = 1..N
      /\ \A n \in 1..N : rules[n].priority \in Int
  <2>. DEFINE Rule == [priority : Int, table : Table]
  <2>1. \A r \in Rule : r.priority \in Int
    OBVIOUS
  <2>2. rules \in Seq(Rule)
    OBVIOUS
  <2>. HIDE DEF Rule
  <2>. QED  BY <2>1, <2>2
<1>2. at \in Surjection(1..N, priorities)
  BY DEF Surjection
<1>3. IsFiniteSet(1..N) /\ Cardinality(1..N) = N
  BY <1>1, FS_Interval
<1>4. Cardinality(priorities) = N <=> at \in Injection(1..N, priorities)
  <2>. HIDE DEF N, priorities, at
  <2>. QED  BY <1>2, <1>3, FS_Surjection
<1>5. at \in Injection(1..N, priorities) <=>
        \A n \in 1..N : \A m \in 1..(n - 1) : rules[m].priority # rules[n].priority
  <2>1. at \in [1..N -> priorities]
    OBVIOUS
  <2>2. ASSUME at \in Injection(1..N, priorities), NEW n \in 1..N, NEW m \in 1..(n - 1)
        PROVE  rules[m].priority # rules[n].priority
    <3>1. m \in 1..N /\ m # n
      BY <1>1
    <3>2. at[m] # at[n]
      BY <2>2, <3>1 DEF Injection, IsInjective
    <3>. QED  BY <3>1, <3>2
  <2>3. ASSUME \A n \in 1..N : \A m \in 1..(n - 1) : rules[m].priority # rules[n].priority
        PROVE  at \in Injection(1..N, priorities)
    <3>1. ASSUME NEW a \in 1..N, NEW b \in 1..N, a # b
          PROVE  at[a] # at[b]
      <4>1. a \in 1..(b - 1) \/ b \in 1..(a - 1)
        BY <1>1, <3>1
      <4>. QED  BY <2>3, <4>1
    <3>. HIDE DEF at, priorities
    <3>. QED  BY <2>1, <3>1 DEF Injection, IsInjective
  <2>. QED  BY <2>2, <2>3
<1>6. RulesAreOurs(rules) <=>
        /\ Cardinality(priorities) = N
        /\ \A n \in 1..N : rules[n].priority \in PriorityMin..PriorityMax /\ rules[n].table \notin ForbiddenTables
  <2>. DEFINE asked == {rules[n] : n \in DOMAIN rules}
  <2>1. {r.priority : r \in asked} = priorities
    BY <1>1
  <2>2. (\A r \in asked : r.priority \in PriorityMin..PriorityMax /\ r.table \notin ForbiddenTables)
          <=> \A n \in 1..N : rules[n].priority \in PriorityMin..PriorityMax /\ rules[n].table \notin ForbiddenTables
    BY <1>1
  <2>3. RulesAreOurs(rules) <=>
          /\ Cardinality({r.priority : r \in asked}) = N
          /\ \A r \in asked : r.priority \in PriorityMin..PriorityMax /\ r.table \notin ForbiddenTables
    BY DEF RulesAreOurs
  <2>. QED  BY <2>1, <2>2, <2>3
<1>7. RulesOwned(rules) <=>
        /\ \A n \in 1..N : \A m \in 1..(n - 1) : rules[m].priority # rules[n].priority
        /\ \A n \in 1..N : rules[n].priority \in PriorityMin..PriorityMax /\ rules[n].table \notin ForbiddenTables
  BY <1>1 DEF RulesOwned, RuleOwned
<1>. QED  BY <1>4, <1>5, <1>6, <1>7

-----------------------------------------------------------------------------
(* Induction, in a form the provers can be given.                          *)

(* Every set of naturals that is not empty has a least element.            *)
LEMMA LeastElement ==
    ASSUME NEW T \in SUBSET Nat, T # {}
    PROVE  \E m \in T : \A k \in T : m <= k
<1>. DEFINE R == OpToRel(<, Nat)
<1>1. IsWellFoundedOn(R, Nat)
  BY NatLessThanWellFounded
<1>2. \A x, y \in Nat : <<y, x>> \in R <=> y < x
  BY DEF OpToRel
<1>. HIDE DEF R
<1>3. PICK m \in T : \A k \in T : ~(<<k, m>> \in R)
  BY <1>1, WFMin
<1>4. ASSUME NEW k \in T
      PROVE  m <= k
  <2>1. k \in Nat /\ m \in Nat
    OBVIOUS
  <2>2. ~(k < m)
    BY <1>2, <1>3, <2>1
  <2>. QED  BY <2>1, <2>2
<1>. QED  BY <1>4

(* Induction, for the set of the numbers of which something is true: the   *)
(* form in which a prover can be given it.                                 *)
LEMMA InductionUpTo ==
    ASSUME NEW N \in Nat, NEW Z, 0 \in Z, \A n \in 1..N : n - 1 \in Z => n \in Z
    PROVE  0..N \subseteq Z
<1>. DEFINE Bad == {n \in Nat : n \in 0..N /\ n \notin Z}
<1>1. SUFFICES ASSUME Bad # {}
               PROVE  FALSE
  OBVIOUS
<1>2. PICK m \in Bad : \A k \in Bad : m <= k
  BY <1>1, LeastElement
<1>3. m \in 1..N /\ m - 1 \notin Bad
  BY <1>2
<1>4. m - 1 \in Z
  BY <1>3
<1>. QED  BY <1>2, <1>3, <1>4

(* A fold over a sequence's positions is a function that satisfies its     *)
(* recursive definition.                                                   *)
IsFold(g, N, init, step) ==
    g = [n \in 0..N |-> IF n = 0 THEN init ELSE step[<<n, g[n - 1]>>]]

LEMMA FoldExists ==
    ASSUME NEW N \in Nat, NEW S, NEW init \in S, NEW step \in [(1..N) \X S -> S]
    PROVE  \E g \in [0..N -> S] : IsFold(g, N, init, step)
<1>. DEFINE Upto(k, g) == /\ g[0] = init
                          /\ \A n \in 1..k : g[n] = step[<<n, g[n - 1]>>]
            Z == {k \in 0..N : \E g \in [0..k -> S] : Upto(k, g)}
<1>1. 0 \in Z
  <2>. DEFINE g == [n \in 0..0 |-> init]
  <2>1. g \in [0..0 -> S] /\ g[0] = init
    OBVIOUS
  <2>. HIDE DEF g
  <2>2. Upto(0, g) /\ 0 \in 0..N
    BY <2>1
  <2>. QED  BY <2>1, <2>2
<1>2. ASSUME NEW k \in 1..N, k - 1 \in Z
      PROVE  k \in Z
  <2>1. PICK g \in [0..(k - 1) -> S] : Upto(k - 1, g)
    BY <1>2
  <2>. DEFINE h == [n \in 0..k |-> IF n = k THEN step[<<k, g[k - 1]>>] ELSE g[n]]
  <2>2. h \in [0..k -> S]
    <3>1. g[k - 1] \in S /\ <<k, g[k - 1]>> \in (1..N) \X S
      BY <2>1
    <3>2. step[<<k, g[k - 1]>>] \in S
      BY <3>1
    <3>3. \A n \in 0..k : n # k => g[n] \in S
      BY <2>1
    <3>. QED  BY <3>2, <3>3
  <2>3. Upto(k, h)
    <3>1. h[0] = init
      BY <2>1
    <3>2. ASSUME NEW n \in 1..k
          PROVE  h[n] = step[<<n, h[n - 1]>>]
      <4>1. h[n - 1] = g[n - 1]
        OBVIOUS
      <4>2. CASE n = k
        <5>1. h[n] = step[<<k, g[k - 1]>>]
          BY <4>2
        <5>. QED  BY <4>1, <4>2, <5>1
      <4>3. CASE n # k
        BY <2>1, <4>1, <4>3
      <4>. QED  BY <4>2, <4>3
    <3>. QED  BY <3>1, <3>2
  <2>. HIDE DEF h, Upto
  <2>. QED  BY <2>2, <2>3
<1>. HIDE DEF Z
<1>3. N \in Z
  BY <1>1, <1>2, InductionUpTo
<1>4. PICK g \in [0..N -> S] : Upto(N, g)
  BY <1>3 DEF Z
<1>5. g = [n \in 0..N |-> IF n = 0 THEN init ELSE step[<<n, g[n - 1]>>]]
  <2>1. \A n \in 0..N : g[n] = IF n = 0 THEN init ELSE step[<<n, g[n - 1]>>]
    BY <1>4
  <2>. QED  BY <2>1
<1>. QED  BY <1>5 DEF IsFold

-----------------------------------------------------------------------------
(* The brace scan.                                                         *)

(* The scan's variables.                                                   *)
ScanState == [depth : Int, comment : BOOLEAN, ok : BOOLEAN]

(* One turn of the loop, field by field, as long as the scan goes on.      *)
LEMMA ScanStep ==
    ASSUME NEW s \in ScanState, NEW t \in Token
    PROVE  /\ Scanned(s, t) \in ScanState
           /\ ~s.ok => Scanned(s, t) = s
           /\ s.ok /\ s.comment =>
                /\ Scanned(s, t).depth = s.depth
                /\ Scanned(s, t).comment <=> t # "newline"
                /\ Scanned(s, t).ok
           /\ s.ok /\ ~s.comment =>
                /\ Scanned(s, t).comment <=> t = "hash"
                /\ t = "open" => Scanned(s, t).depth = s.depth + 1 /\ Scanned(s, t).ok
                /\ t = "close" => Scanned(s, t).depth = s.depth - 1 /\ (Scanned(s, t).ok <=> s.depth > 0)
                /\ t \notin {"open", "close"} => Scanned(s, t).depth = s.depth /\ Scanned(s, t).ok
<1>1. /\ s.depth \in Int /\ s.comment \in BOOLEAN /\ s.ok \in BOOLEAN
      /\ s = [depth |-> s.depth, comment |-> s.comment, ok |-> s.ok]
  BY DEF ScanState
<1>2. CASE ~s.ok
  <2>1. Scanned(s, t) = s
    BY <1>2 DEF Scanned
  <2>. QED  BY <1>2, <2>1
<1>3. ASSUME NEW d \in Int, NEW c \in BOOLEAN, NEW o \in BOOLEAN,
             Scanned(s, t) = [depth |-> d, comment |-> c, ok |-> o]
      PROVE  /\ Scanned(s, t) \in ScanState
             /\ Scanned(s, t).depth = d
             /\ Scanned(s, t).comment = c
             /\ Scanned(s, t).ok = o
  BY <1>3 DEF ScanState
<1>4. CASE s.ok /\ s.comment
  <2>1. Scanned(s, t) = [depth |-> s.depth, comment |-> t # "newline", ok |-> s.ok]
    BY <1>1, <1>4 DEF Scanned, ScanState
  <2>. QED  BY <1>1, <1>3, <1>4, <2>1
<1>5. CASE s.ok /\ ~s.comment /\ t = "hash"
  <2>1. Scanned(s, t) = [depth |-> s.depth, comment |-> TRUE, ok |-> s.ok]
    BY <1>1, <1>5 DEF Scanned, ScanState
  <2>. QED  BY <1>1, <1>3, <1>5, <2>1
<1>6. CASE s.ok /\ ~s.comment /\ t = "open"
  <2>1. Scanned(s, t) = [depth |-> s.depth + 1, comment |-> s.comment, ok |-> s.ok]
    BY <1>1, <1>6 DEF Scanned, ScanState
  <2>2. s.depth + 1 \in Int
    BY <1>1
  <2>3. /\ Scanned(s, t) \in ScanState /\ Scanned(s, t).depth = s.depth + 1
        /\ Scanned(s, t).comment = s.comment /\ Scanned(s, t).ok = s.ok
    BY <1>1, <1>3, <2>1, <2>2
  <2>. QED  BY <1>6, <2>3
<1>7. CASE s.ok /\ ~s.comment /\ t = "close"
  <2>1. Scanned(s, t) = [depth |-> s.depth - 1, comment |-> s.comment, ok |-> s.depth > 0]
    BY <1>1, <1>7 DEF Scanned, ScanState
  <2>2. s.depth - 1 \in Int /\ (s.depth > 0) \in BOOLEAN
    BY <1>1
  <2>3. /\ Scanned(s, t) \in ScanState /\ Scanned(s, t).depth = s.depth - 1
        /\ Scanned(s, t).comment = s.comment /\ Scanned(s, t).ok = (s.depth > 0)
    BY <1>1, <1>3, <2>1, <2>2
  <2>. QED  BY <1>7, <2>3
<1>8. CASE s.ok /\ ~s.comment /\ t \notin {"hash", "open", "close"}
  <2>1. Scanned(s, t) = s
    BY <1>8 DEF Scanned
  <2>. QED  BY <1>8, <2>1
<1>. QED  BY <1>1, <1>2, <1>4, <1>5, <1>6, <1>7, <1>8

(* The recursive function of BracesContained exists, and is of this type.  *)
LEMMA ScanDefined ==
    ASSUME NEW body \in Seq(Token)
    PROVE  \E scan \in [0..Len(body) -> ScanState] :
              /\ scan[0] = Contained
              /\ \A n \in 1..Len(body) : scan[n] = Scanned(scan[n - 1], body[n])
              /\ BracesContained(body) <=> scan[Len(body)].ok /\ scan[Len(body)].depth = 0
<1>. DEFINE N == Len(body)
            F(g) == [n \in 0..N |-> IF n = 0 THEN Contained ELSE Scanned(g[n - 1], body[n])]
            scan == CHOOSE g : g = F(g)
            step == [p \in (1..N) \X ScanState |-> Scanned(p[2], body[p[1]])]
<1>1. N \in Nat /\ \A n \in 1..N : body[n] \in Token
  OBVIOUS
<1>2. BracesContained(body) <=> scan[N].ok /\ scan[N].depth = 0
  BY DEF BracesContained
<1>. HIDE DEF N
<1>3. Contained \in ScanState
  BY DEF Contained, ScanState
<1>4. step \in [(1..N) \X ScanState -> ScanState]
  <2>1. ASSUME NEW p \in (1..N) \X ScanState
        PROVE  Scanned(p[2], body[p[1]]) \in ScanState
    <3>1. p[2] \in ScanState /\ body[p[1]] \in Token
      BY <1>1
    <3>. QED  BY <3>1, ScanStep
  <2>. QED  BY <2>1
<1>5. \A n \in 1..N, s \in ScanState : step[<<n, s>>] = Scanned(s, body[n])
  OBVIOUS
<1>. HIDE DEF step
<1>6. PICK g \in [0..N -> ScanState] : IsFold(g, N, Contained, step)
  BY <1>1, <1>3, <1>4, FoldExists
<1>7. g = F(g)
  <2>1. ASSUME NEW n \in 0..N, n # 0
        PROVE  step[<<n, g[n - 1]>>] = Scanned(g[n - 1], body[n])
    <3>1. n \in 1..N /\ g[n - 1] \in ScanState
      BY <2>1, <1>1, <1>6
    <3>. QED  BY <3>1, <1>5
  <2>. QED  BY <1>6, <2>1 DEF IsFold
<1>8. scan = F(scan)
  BY <1>7
<1>. HIDE DEF scan
<1>9. scan \in [0..N -> ScanState]
  <2>. DEFINE Z == {n \in 0..N : scan[n] \in ScanState}
  <2>1. 0 \in Z
    BY <1>1, <1>3, <1>8
  <2>2. ASSUME NEW n \in 1..N, n - 1 \in Z
        PROVE  n \in Z
    <3>1. scan[n] = Scanned(scan[n - 1], body[n])
      BY <1>1, <1>8
    <3>2. Scanned(scan[n - 1], body[n]) \in ScanState
      BY <1>1, <2>2, ScanStep
    <3>. QED  BY <3>1, <3>2
  <2>3. 0..N \subseteq Z
    <3>. HIDE DEF Z
    <3>. QED  BY <1>1, <2>1, <2>2, InductionUpTo
  <2>. QED  BY <1>8, <2>3
<1>10. scan[0] = Contained /\ \A n \in 1..N : scan[n] = Scanned(scan[n - 1], body[n])
  BY <1>1, <1>8
<1>. QED  BY <1>2, <1>9, <1>10 DEF N

(* Whether a position is in a comment depends on the one before it only.   *)
LEMMA CommentStep ==
    ASSUME NEW body \in Seq(Token), NEW n \in 1..Len(body)
    PROVE  InComment(body, n + 1) <=> body[n] # "newline" /\ (body[n] = "hash" \/ InComment(body, n))
<1>1. n \in Int
  OBVIOUS
<1>2. ASSUME InComment(body, n + 1)
      PROVE  body[n] # "newline" /\ (body[n] = "hash" \/ InComment(body, n))
  <2>1. PICK c \in 1..n : body[c] = "hash" /\ \A m \in c..n : body[m] # "newline"
    BY <1>1, <1>2 DEF InComment
  <2>2. CASE c = n
    BY <1>1, <2>1, <2>2
  <2>3. CASE c # n
    <3>1. c \in 1..(n - 1) /\ n \in c..n /\ \A m \in c..(n - 1) : m \in c..n
      BY <1>1, <2>1, <2>3
    <3>. QED  BY <2>1, <3>1 DEF InComment
  <2>. QED  BY <2>2, <2>3
<1>3. ASSUME body[n] # "newline", body[n] = "hash"
      PROVE  InComment(body, n + 1)
  <2>1. n \in 1..((n + 1) - 1) /\ \A m \in n..((n + 1) - 1) : m = n
    BY <1>1
  <2>. QED  BY <1>3, <2>1 DEF InComment
<1>4. ASSUME body[n] # "newline", InComment(body, n)
      PROVE  InComment(body, n + 1)
  <2>1. PICK c \in 1..(n - 1) : body[c] = "hash" /\ \A m \in c..(n - 1) : body[m] # "newline"
    BY <1>4 DEF InComment
  <2>2. c \in 1..((n + 1) - 1) /\ \A m \in c..((n + 1) - 1) : m \in c..(n - 1) \/ m = n
    BY <1>1
  <2>. QED  BY <1>4, <2>1, <2>2 DEF InComment
<1>. QED  BY <1>2, <1>3, <1>4

(* The number of braces up to a position, and how the next one adds to it. *)
LEMMA BraceCount ==
    ASSUME NEW body \in Seq(Token), NEW brace
    PROVE  /\ Cardinality(Braces(body, brace, 0)) = 0
           /\ \A n \in 0..Len(body) : IsFiniteSet(Braces(body, brace, n))
                                      /\ Cardinality(Braces(body, brace, n)) \in Nat
<1>1. Len(body) \in Nat
  OBVIOUS
<1>2. ASSUME NEW n \in 0..Len(body)
      PROVE  IsFiniteSet(Braces(body, brace, n))
  <2>1. IsFiniteSet(1..n) /\ Braces(body, brace, n) \subseteq 1..n
    BY <1>1, FS_Interval DEF Braces
  <2>. QED  BY <2>1, FS_Subset
<1>3. Braces(body, brace, 0) = {}
  BY DEF Braces
<1>. QED  BY <1>2, <1>3, FS_EmptySet, FS_CardinalityType

LEMMA BraceStep ==
    ASSUME NEW body \in Seq(Token), NEW brace, NEW n \in 1..Len(body)
    PROVE  /\ body[n] = brace /\ ~InComment(body, n) =>
                 Cardinality(Braces(body, brace, n)) = Cardinality(Braces(body, brace, n - 1)) + 1
           /\ body[n] # brace \/ InComment(body, n) =>
                 Cardinality(Braces(body, brace, n)) = Cardinality(Braces(body, brace, n - 1))
<1>1. /\ n - 1 \in 0..Len(body) /\ n \in 1..n /\ n \notin 1..(n - 1)
      /\ \A m : m \in 1..n <=> m \in 1..(n - 1) \/ m = n
  OBVIOUS
<1>2. IsFiniteSet(Braces(body, brace, n - 1)) /\ n \notin Braces(body, brace, n - 1)
  BY <1>1, BraceCount DEF Braces
<1>3. CASE body[n] = brace /\ ~InComment(body, n)
  <2>1. Braces(body, brace, n) = Braces(body, brace, n - 1) \cup {n}
    BY <1>1, <1>3 DEF Braces
  <2>. QED  BY <1>2, <1>3, <2>1, FS_AddElement
<1>4. CASE body[n] # brace \/ InComment(body, n)
  <2>1. Braces(body, brace, n) = Braces(body, brace, n - 1)
    BY <1>1, <1>4 DEF Braces
  <2>. QED  BY <1>4, <2>1
<1>. QED  BY <1>3, <1>4

(* How many braces are open and closed before and at each position, and    *)
(* the positions in comments.                                              *)
BracesUpTo(body, brace) == [n \in 0..Len(body) |-> Cardinality(Braces(body, brace, n))]
Commented(body) == {n \in 1..(Len(body) + 1) : InComment(body, n)}

(* BraceCount, BraceStep and CommentStep again, for these two.             *)
LEMMA CountFacts ==
    ASSUME NEW body \in Seq(Token), NEW brace
    PROVE  /\ BracesUpTo(body, brace) \in [0..Len(body) -> Nat]
           /\ BracesUpTo(body, brace)[0] = 0
<1>1. 0 \in 0..Len(body)
  OBVIOUS
<1>2. ASSUME NEW n \in 0..Len(body)
      PROVE  Cardinality(Braces(body, brace, n)) \in Nat
  BY BraceCount
<1>. QED  BY <1>1, <1>2, BraceCount DEF BracesUpTo

LEMMA CountStep ==
    ASSUME NEW body \in Seq(Token), NEW brace, NEW n \in 1..Len(body)
    PROVE  /\ body[n] = brace /\ n \notin Commented(body) =>
                 BracesUpTo(body, brace)[n] = BracesUpTo(body, brace)[n - 1] + 1
           /\ body[n] # brace \/ n \in Commented(body) =>
                 BracesUpTo(body, brace)[n] = BracesUpTo(body, brace)[n - 1]
<1>1. n \in 0..Len(body) /\ n - 1 \in 0..Len(body) /\ n \in 1..(Len(body) + 1)
  OBVIOUS
<1>2. n \in Commented(body) <=> InComment(body, n)
  BY <1>1 DEF Commented
<1>3. /\ BracesUpTo(body, brace)[n] = Cardinality(Braces(body, brace, n))
      /\ BracesUpTo(body, brace)[n - 1] = Cardinality(Braces(body, brace, n - 1))
  BY <1>1 DEF BracesUpTo
<1>. QED  BY <1>2, <1>3, BraceStep

LEMMA CommentedStep ==
    ASSUME NEW body \in Seq(Token), NEW n \in 1..Len(body)
    PROVE  n + 1 \in Commented(body) <=> body[n] # "newline" /\ (body[n] = "hash" \/ n \in Commented(body))
<1>1. n \in 1..(Len(body) + 1) /\ n + 1 \in 1..(Len(body) + 1)
  OBVIOUS
<1>2. /\ n \in Commented(body) <=> InComment(body, n)
      /\ n + 1 \in Commented(body) <=> InComment(body, n + 1)
  BY <1>1 DEF Commented
<1>. QED  BY <1>2, CommentStep

(* What the scan is for, by these counts.                                  *)
LEMMA StaysInsideCounted ==
    ASSUME NEW body \in Seq(Token)
    PROVE  StaysInside(body) <=>
               /\ \A n \in 0..Len(body) : BracesUpTo(body, "close")[n] <= BracesUpTo(body, "open")[n]
               /\ BracesUpTo(body, "close")[Len(body)] = BracesUpTo(body, "open")[Len(body)]
<1>. DEFINE opened(n) == Cardinality(Braces(body, "open", n))
            closed(n) == Cardinality(Braces(body, "close", n))
<1>1. ASSUME NEW n \in 0..Len(body)
      PROVE  BracesUpTo(body, "close")[n] = closed(n) /\ BracesUpTo(body, "open")[n] = opened(n)
  BY DEF BracesUpTo
<1>2. StaysInside(body) <=> (\A n \in 0..Len(body) : closed(n) <= opened(n))
                            /\ closed(Len(body)) = opened(Len(body))
  BY Zenon DEF StaysInside
<1>3. Len(body) \in 0..Len(body)
  OBVIOUS
<1>. HIDE DEF opened, closed
<1>. QED  BY <1>1, <1>2, <1>3, Zenon

(* The scan, position by position, against what it is for: until it gives  *)
(* up, depth is the number of braces still open, and comment whether the   *)
(* next token is in a comment; it has given up exactly if a brace closed   *)
(* something it had not opened.                                            *)
ScanIsRight(body, state, n) ==
    LET opened == BracesUpTo(body, "open")
        closed == BracesUpTo(body, "close")
    IN  \/ /\ state.ok
           /\ state.depth = opened[n] - closed[n]
           /\ state.comment <=> n + 1 \in Commented(body)
           /\ \A m \in 0..n : closed[m] <= opened[m]
        \/ /\ ~state.ok
           /\ \E m \in 0..n : closed[m] > opened[m]

(* One turn of the loop keeps the scan right.                              *)
LEMMA ScanStaysRight ==
    ASSUME NEW body \in Seq(Token), NEW n \in 1..Len(body), NEW s \in ScanState,
           ScanIsRight(body, s, n - 1)
    PROVE  ScanIsRight(body, Scanned(s, body[n]), n)
<1>. DEFINE t == body[n]
            next == Scanned(s, t)
            opened == BracesUpTo(body, "open")
            closed == BracesUpTo(body, "close")
<1>1. /\ n \in Int /\ n - 1 \in 0..Len(body) /\ n \in 0..Len(body) /\ (n - 1) + 1 = n
      /\ t \in Token /\ s.depth \in Int
      /\ \A m \in 0..n : m \in 0..(n - 1) \/ m = n
      /\ \A m \in 0..(n - 1) : m \in 0..n
      /\ n \in 0..n /\ n - 1 \in 0..(n - 1)
  BY DEF ScanState
<1>2. opened[n - 1] \in Nat /\ closed[n - 1] \in Nat /\ opened[n] \in Nat /\ closed[n] \in Nat
  BY <1>1, CountFacts
<1>3. CASE ~s.ok
  <2>1. next = s
    BY <1>1, <1>3, ScanStep
  <2>2. PICK m \in 0..(n - 1) : closed[m] > opened[m]
    BY <1>3 DEF ScanIsRight
  <2>. QED  BY <1>1, <1>3, <2>1, <2>2 DEF ScanIsRight
<1>4. ASSUME s.ok
      PROVE  /\ s.depth = opened[n - 1] - closed[n - 1]
             /\ s.comment <=> n \in Commented(body)
             /\ \A m \in 0..(n - 1) : closed[m] <= opened[m]
             /\ closed[n - 1] <= opened[n - 1]
  BY <1>1, <1>4 DEF ScanIsRight
<1>5. CASE s.ok /\ s.comment
  <2>1. opened[n] = opened[n - 1] /\ closed[n] = closed[n - 1]
    BY <1>4, <1>5, CountStep
  <2>2. next.depth = s.depth /\ next.ok /\ (next.comment <=> t # "newline")
    BY <1>1, <1>5, ScanStep
  <2>3. next.comment <=> n + 1 \in Commented(body)
    BY <1>4, <1>5, <2>2, CommentedStep
  <2>4. closed[n] <= opened[n]
    BY <1>1, <1>4, <1>5, <2>1
  <2>. QED  BY <1>1, <1>4, <1>5, <2>1, <2>2, <2>3, <2>4 DEF ScanIsRight
<1>6. CASE s.ok /\ ~s.comment
  <2>1. next.comment <=> n + 1 \in Commented(body)
    <3>1. next.comment <=> t = "hash"
      BY <1>1, <1>6, ScanStep
    <3>. QED  BY <1>4, <1>6, <3>1, CommentedStep
  <2>2. CASE t = "open"
    <3>1. next.depth = s.depth + 1 /\ next.ok
      BY <1>1, <1>6, <2>2, ScanStep
    <3>2. opened[n] = opened[n - 1] + 1 /\ closed[n] = closed[n - 1]
      BY <1>4, <1>6, <2>2, CountStep
    <3>3. closed[n] <= opened[n] /\ next.depth = opened[n] - closed[n]
      BY <1>2, <1>4, <1>6, <3>1, <3>2
    <3>. QED  BY <1>1, <1>4, <1>6, <2>1, <3>1, <3>3 DEF ScanIsRight
  <2>3. CASE t = "close"
    <3>1. next.depth = s.depth - 1 /\ (next.ok <=> s.depth > 0)
      BY <1>1, <1>6, <2>3, ScanStep
    <3>2. opened[n] = opened[n - 1] /\ closed[n] = closed[n - 1] + 1
      BY <1>4, <1>6, <2>3, CountStep
    <3>3. CASE s.depth > 0
      <4>1. closed[n] <= opened[n] /\ next.depth = opened[n] - closed[n]
        BY <1>2, <1>4, <1>6, <3>1, <3>2, <3>3
      <4>. QED  BY <1>1, <1>4, <1>6, <2>1, <3>1, <3>3, <4>1 DEF ScanIsRight
    <3>4. CASE ~(s.depth > 0)
      BY <1>1, <1>2, <1>4, <1>6, <3>1, <3>2, <3>4 DEF ScanIsRight
    <3>. QED  BY <3>3, <3>4
  <2>4. CASE t \notin {"open", "close"}
    <3>1. next.depth = s.depth /\ next.ok
      BY <1>1, <1>6, <2>4, ScanStep
    <3>2. opened[n] = opened[n - 1] /\ closed[n] = closed[n - 1]
      BY <1>4, <1>6, <2>4, CountStep
    <3>. QED  BY <1>1, <1>2, <1>4, <1>6, <2>1, <3>1, <3>2 DEF ScanIsRight
  <2>. QED  BY <2>2, <2>3, <2>4
<1>. QED  BY <1>3, <1>5, <1>6

(* The brace scan accepts exactly the bodies that stay inside the block    *)
(* they are written into, whatever their length (nftBracesContained).      *)
THEOREM ScanIsExact ==
    ASSUME NEW body \in Seq(Token)
    PROVE  BracesContained(body) <=> StaysInside(body)
<1>. DEFINE N == Len(body)
            opened == BracesUpTo(body, "open")
            closed == BracesUpTo(body, "close")
<1>1. N \in Nat /\ 0 \in 0..N /\ N \in 0..N /\ \A n \in 1..N : n - 1 \in 0..N /\ n \in 0..N
  OBVIOUS
<1>2. PICK scan \in [0..N -> ScanState] :
        /\ scan[0] = Contained
        /\ \A n \in 1..N : scan[n] = Scanned(scan[n - 1], body[n])
        /\ BracesContained(body) <=> scan[N].ok /\ scan[N].depth = 0
  BY ScanDefined
<1>3. opened \in [0..N -> Nat] /\ closed \in [0..N -> Nat] /\ opened[0] = 0 /\ closed[0] = 0
  BY CountFacts
<1>. DEFINE Z == {n \in 0..N : ScanIsRight(body, scan[n], n)}
<1>4. 0 \in Z
  <2>1. 1 \notin Commented(body)
    BY DEF Commented, InComment
  <2>2. scan[0].ok /\ scan[0].depth = 0 /\ ~scan[0].comment
    BY <1>2 DEF Contained
  <2>3. ScanIsRight(body, scan[0], 0)
    BY <1>3, <2>1, <2>2 DEF ScanIsRight
  <2>. QED  BY <1>1, <2>3
<1>5. ASSUME NEW n \in 1..N, n - 1 \in Z
      PROVE  n \in Z
  <2>1. scan[n - 1] \in ScanState /\ ScanIsRight(body, scan[n - 1], n - 1)
    BY <1>1, <1>2, <1>5
  <2>2. ScanIsRight(body, scan[n], n)
    BY <1>2, <2>1, ScanStaysRight
  <2>. QED  BY <1>1, <2>2
<1>6. ScanIsRight(body, scan[N], N)
  <2>. HIDE DEF Z, N
  <2>1. N \in Z
    BY <1>1, <1>4, <1>5, InductionUpTo
  <2>. QED  BY <2>1 DEF Z
<1>7. CASE scan[N].ok
  BY <1>1, <1>2, <1>3, <1>6, <1>7, StaysInsideCounted DEF ScanIsRight
<1>8. CASE ~scan[N].ok
  <2>1. PICK m \in 0..N : closed[m] > opened[m]
    BY <1>6, <1>8 DEF ScanIsRight
  <2>2. ~(closed[m] <= opened[m])
    BY <1>3, <2>1
  <2>. QED  BY <1>2, <1>8, <2>2, StaysInsideCounted
<1>. QED  BY <1>7, <1>8

-----------------------------------------------------------------------------
(* The address walk.                                                       *)

(* What the walk finds from address ip on, of the set of those it may hand *)
(* out.                                                                    *)
FoundFrom(free, ip, found) ==
    IF \A a \in free : a < ip THEN found = NoneFree
    ELSE found \in free /\ ip <= found /\ \A a \in free : ip <= a => found <= a

(* An address that may be handed out is found from itself; one that may    *)
(* not is passed over.                                                     *)
LEMMA FoundFromStep ==
    ASSUME NEW free \in SUBSET Nat, NEW ip \in Nat
    PROVE  /\ ip \in free => FoundFrom(free, ip, ip)
           /\ \A v : ip \notin free /\ FoundFrom(free, ip + 1, v) => FoundFrom(free, ip, v)
<1>1. ip \in free => FoundFrom(free, ip, ip)
  BY DEF FoundFrom
<1>2. ASSUME NEW v, ip \notin free, FoundFrom(free, ip + 1, v)
      PROVE  FoundFrom(free, ip, v)
  <2>1. \A a \in free : a \in Nat /\ (a < ip <=> a < ip + 1) /\ (ip <= a <=> ip + 1 <= a)
    BY <1>2
  <2>. QED  BY <1>2, <2>1 DEF FoundFrom
<1>. QED  BY <1>1, <1>2

(* There is always one answer, and one only.                               *)
LEMMA FoundFromDefined ==
    ASSUME NEW free \in SUBSET Nat, NEW ip \in Nat
    PROVE  /\ \E v : FoundFrom(free, ip, v)
           /\ \A v, w : FoundFrom(free, ip, v) /\ FoundFrom(free, ip, w) => v = w
<1>1. CASE \A a \in free : a < ip
  BY <1>1 DEF FoundFrom
<1>2. CASE ~ \A a \in free : a < ip
  <2>. DEFINE T == {a \in free : ip <= a}
  <2>1. T \in SUBSET Nat /\ T # {}
    <3>1. PICK a \in free : ~(a < ip)
      BY <1>2
    <3>2. a \in T
      BY <3>1
    <3>. QED  BY <3>2
  <2>2. PICK m \in T : \A k \in T : m <= k
    <3>. HIDE DEF T
    <3>. QED  BY <2>1, LeastElement
  <2>3. FoundFrom(free, ip, m)
    BY <1>2, <2>2 DEF FoundFrom
  <2>4. ASSUME NEW v, NEW w, FoundFrom(free, ip, v), FoundFrom(free, ip, w)
        PROVE  v = w
    <3>1. v \in Nat /\ w \in Nat /\ v <= w /\ w <= v
      BY <1>2, <2>4 DEF FoundFrom
    <3>. QED  BY <3>1
  <2>. QED  BY <2>3, <2>4
<1>. QED  BY <1>1, <1>2

(* NextFreeAddress hands out the least address after the network's that is *)
(* neither used nor the broadcast, and none exactly if there is none, for  *)
(* networks of any size.  (That a power of two is positive is all the      *)
(* provers have to be told of it.)                                         *)
THEOREM WalkFindsTheLeast ==
    ASSUME NEW net \in Nat, NEW bits \in 0..AddressBits, SizeOf(bits) \in Nat \ {0}, NEW used
    PROVE  LET free == {a \in (net + 1)..(net + SizeOf(bits) - 1) : a \notin used /\ ~IsBroadcast(a, net, bits)}
               found == NextFreeAddress(net, bits, used)
           IN  IF free = {} THEN found = NoneFree
               ELSE found \in free /\ \A a \in free : found <= a
<1>. DEFINE size == SizeOf(bits)
            free == {a \in (net + 1)..(net + size - 1) : a \notin used /\ ~IsBroadcast(a, net, bits)}
            all == {a \in net..(net + size - 1) : a \notin used /\ ~IsBroadcast(a, net, bits)}
            F(f) == [ip \in net..(net + size) |->
                       CASE ip = net + size -> NoneFree
                         [] ip < net + size /\ ip \notin used /\ ~IsBroadcast(ip, net, bits) -> ip
                         [] OTHER -> f[ip + 1]]
            walk == CHOOSE f : f = F(f)
            g == [ip \in net..(net + size) |-> CHOOSE v : FoundFrom(all, ip, v)]
<1>1. size \in Nat /\ size >= 1
  OBVIOUS
<1>2. NextFreeAddress(net, bits, used) = walk[net + 1]
  BY DEF NextFreeAddress
<1>. HIDE DEF size
<1>3. /\ all \in SUBSET Nat
      /\ \A ip \in net..(net + size) : ip \in Nat
      /\ \A a \in all : a < net + size
  BY <1>1
<1>4. \A ip \in net..(net + size) : ip < net + size /\ ip \notin used /\ ~IsBroadcast(ip, net, bits) <=> ip \in all
  BY <1>1
<1>5. ASSUME NEW f, NEW ip \in net..(net + size)
      PROVE  /\ ip = net + size => F(f)[ip] = NoneFree
             /\ ip \in all => F(f)[ip] = ip
             /\ ip # net + size /\ ip \notin all => F(f)[ip] = f[ip + 1]
  <2>1. CASE ip = net + size
    BY <1>3, <2>1
  <2>2. CASE ip \in all
    BY <1>3, <1>4, <2>2
  <2>3. CASE ip # net + size /\ ip \notin all
    BY <1>4, <2>3
  <2>. QED  BY <2>1, <2>2, <2>3
<1>6. \A f : F(f) = [ip \in net..(net + size) |-> F(f)[ip]]
  OBVIOUS
<1>. HIDE DEF F, all
<1>7. \A ip \in net..(net + size) : FoundFrom(all, ip, g[ip])
  BY <1>3, FoundFromDefined
<1>8. g = F(g)
  <2>1. ASSUME NEW ip \in net..(net + size)
        PROVE  g[ip] = F(g)[ip]
    <3>1. CASE ip = net + size
      <4>1. FoundFrom(all, ip, NoneFree)
        BY <1>3, <3>1 DEF FoundFrom
      <4>. QED  BY <1>3, <1>5, <1>7, <3>1, <4>1, FoundFromDefined
    <3>2. CASE ip \in all
      <4>1. F(g)[ip] = ip
        BY <1>5, <3>2
      <4>2. FoundFrom(all, ip, ip) /\ FoundFrom(all, ip, g[ip])
        BY <1>3, <1>7, <3>2, FoundFromStep
      <4>. HIDE DEF g
      <4>3. g[ip] = ip
        BY <1>3, <4>2, FoundFromDefined
      <4>. QED  BY <4>1, <4>3
    <3>3. CASE ip # net + size /\ ip \notin all
      <4>1. ip + 1 \in net..(net + size)
        BY <1>1, <3>3
      <4>2. FoundFrom(all, ip, g[ip + 1])
        BY <1>3, <1>7, <3>3, <4>1, FoundFromStep
      <4>3. F(g)[ip] = g[ip + 1]
        BY <1>5, <3>3
      <4>4. FoundFrom(all, ip, g[ip])
        BY <1>7
      <4>. HIDE DEF g
      <4>5. g[ip] = g[ip + 1]
        BY <1>3, <4>2, <4>4, FoundFromDefined
      <4>. QED  BY <4>3, <4>5
    <3>. QED  BY <3>1, <3>2, <3>3
  <2>. QED  BY <1>6, <2>1
<1>9. walk = F(walk)
  BY <1>8
<1>. HIDE DEF walk
<1>. DEFINE Z == {k \in 0..size : FoundFrom(all, net + size - k, walk[net + size - k])}
<1>10. 0 \in Z
  <2>1. net + size \in net..(net + size)
    BY <1>1
  <2>2. walk[net + size] = NoneFree
    BY <1>5, <1>9, <2>1
  <2>3. FoundFrom(all, net + size, walk[net + size])
    BY <1>3, <2>2 DEF FoundFrom
  <2>. QED  BY <1>1, <2>3
<1>11. ASSUME NEW k \in 1..size, k - 1 \in Z
       PROVE  k \in Z
  <2>. DEFINE ip == net + size - k
  <2>1. ip \in net..(net + size) /\ ip # net + size /\ ip + 1 = net + size - (k - 1) /\ k \in 0..size
    BY <1>1
  <2>2. FoundFrom(all, ip + 1, walk[ip + 1])
    BY <1>11, <2>1
  <2>. HIDE DEF ip
  <2>3. FoundFrom(all, ip, walk[ip])
    <3>1. CASE ip \in all
      <4>1. walk[ip] = ip
        BY <1>5, <1>9, <2>1, <3>1
      <4>2. FoundFrom(all, ip, ip)
        BY <1>3, <2>1, <3>1, FoundFromStep
      <4>. QED  BY <4>1, <4>2
    <3>2. CASE ip \notin all
      BY <1>3, <1>5, <1>9, <2>1, <2>2, <3>2, FoundFromStep
    <3>. QED  BY <3>1, <3>2
  <2>. QED  BY <2>1, <2>3 DEF ip
<1>12. FoundFrom(all, net + 1, walk[net + 1])
  <2>1. 0..size \subseteq Z
    <3>. HIDE DEF Z
    <3>. QED  BY <1>1, <1>10, <1>11, InductionUpTo
  <2>2. size - 1 \in 0..size /\ net + size - (size - 1) = net + 1
    BY <1>1
  <2>. QED  BY <2>1, <2>2
<1>13. \A a : a \in free <=> a \in all /\ net + 1 <= a
  BY <1>1 DEF all
<1>14. \A a \in all : a \in Nat /\ (a < net + 1 <=> ~(net + 1 <= a))
  BY <1>3
<1>. HIDE DEF free
<1>15. IF free = {} THEN walk[net + 1] = NoneFree
       ELSE walk[net + 1] \in free /\ \A a \in free : walk[net + 1] <= a
  BY <1>12, <1>13, <1>14 DEF FoundFrom
<1>. QED  BY <1>2, <1>15 DEF free, size
=============================================================================
