----------------------------- MODULE IPSetSwap -----------------------------
(***************************************************************************)
(* Real.IPSetReplace (kernel/real.go) at the grain of its commands: create *)
(* the set if it is missing, destroy a stale <name>_new, fill a new one,   *)
(* swap the two, destroy what was swapped out.  Resources takes all of it  *)
(* for one step, AfterInstall or AfterFailedInstall; here that is shown.   *)
(*                                                                         *)
(* A command that reports an error has taken effect or not.                *)
(***************************************************************************)
EXTENDS Integers

CONSTANTS Entry,       \* prefixes
          MaxReplaces, \* bound: calls
          MaxFailures  \* bound: commands that report an error

(* As in Resources: no set, or one with these entries.                     *)
NoSet == <<>>
SetCell == {NoSet} \cup {<<entries>> : entries \in SUBSET Entry}

VARIABLES
    set, tmp,  \* <name> and <name>_new
    swap,      \* the call in progress
    replaces, failures,
    (* remembered for the properties                                       *)
    before,    \* set, when the call began
    mixed      \* the fill may have added to a stale <name>_new

swapVars == <<set, tmp, swap, replaces, failures, before, mixed>>

NoSwap == [pc |-> "idle", want |-> {}]
Stages == {"idle", "create", "clear", "fill", "swap", "drop", "abandon"}

SwapTypeOK ==
    /\ set \in SetCell /\ tmp \in SetCell /\ before \in SetCell
    /\ swap \in [pc : Stages, want : SUBSET Entry]
    /\ replaces \in Nat /\ failures \in Nat /\ mixed \in BOOLEAN

SwapInit ==
    /\ set \in {NoSet} \cup {<<{e}>> : e \in Entry}
    /\ tmp = NoSet
    /\ swap = NoSwap
    /\ replaces = 0 /\ failures = 0
    /\ before = set
    /\ mixed = FALSE

Works == UNCHANGED failures
Breaks == failures < MaxFailures /\ failures' = failures + 1
At(pc) == swap.pc = pc
Proceeds(pc) == swap' = [swap EXCEPT !.pc = pc]
Returns == swap' = NoSwap

Replaces(want) ==
    /\ At("idle")
    /\ replaces < MaxReplaces
    /\ replaces' = replaces + 1
    /\ swap' = [pc |-> "create", want |-> want]
    /\ before' = set
    /\ mixed' = FALSE
    /\ UNCHANGED <<set, tmp, failures>>

Created == IF set = NoSet THEN <<{}>> ELSE set

(* ipset create -exist                                                     *)
Creates ==
    /\ At("create")
    /\ \/ Works /\ set' = Created /\ Proceeds("clear")
       \/ Breaks /\ set' \in {set, Created} /\ Returns
    /\ UNCHANGED <<tmp, replaces, before, mixed>>

(* Mutant: a <name>_new a dead agent left behind is not destroyed.         *)
Clears_Nothing ==
    /\ At("clear")
    /\ Proceeds("fill")
    /\ UNCHANGED <<set, tmp, replaces, failures, before, mixed>>

(* The error of this destroy is dropped.                                   *)
Clears ==
    /\ At("clear")
    /\ \/ Works /\ tmp' = NoSet
       \/ Breaks /\ tmp' \in {tmp, NoSet}
    /\ Proceeds("fill")
    /\ mixed' = (tmp' # NoSet)
    /\ UNCHANGED <<set, replaces, before>>

(* Mutant: the new set is filled where the old one is.                     *)
Fills_InPlace ==
    /\ At("fill")
    /\ \/ Works /\ set' = <<swap.want>> /\ tmp' = set /\ Proceeds("swap")
       \/ /\ Breaks
          /\ \E added \in SUBSET swap.want : set' = <<added>>
          /\ tmp' = set
          /\ Proceeds("abandon")
    /\ UNCHANGED <<replaces, before, mixed>>

Stale == IF tmp = NoSet THEN {} ELSE tmp[1]

(* ipset restore -exist: adds to what there is; it may stop halfway.       *)
Fills ==
    /\ At("fill")
    /\ \/ Works /\ tmp' = <<Stale \cup swap.want>> /\ Proceeds("swap")
       \/ /\ Breaks
          /\ \/ UNCHANGED tmp
             \/ \E added \in SUBSET swap.want : tmp' = <<Stale \cup added>>
          /\ Proceeds("abandon")
    /\ UNCHANGED <<set, replaces, before, mixed>>

Swaps ==
    /\ At("swap")
    /\ \/ Works /\ set' = tmp /\ tmp' = set /\ Proceeds("drop")
       \/ Breaks /\ set' = tmp /\ tmp' = set /\ Proceeds("abandon")
       \/ Breaks /\ UNCHANGED <<set, tmp>> /\ Proceeds("abandon")
    /\ UNCHANGED <<replaces, before, mixed>>

(* The last destroy: an error is the call's error.                         *)
Drops ==
    /\ At("drop")
    /\ \/ Works /\ tmp' = NoSet
       \/ Breaks /\ tmp' \in {tmp, NoSet}
    /\ Returns
    /\ UNCHANGED <<set, replaces, before, mixed>>

(* After a failure: destroy <name>_new and return the failure's error.     *)
Abandons ==
    /\ At("abandon")
    /\ \/ Works /\ tmp' = NoSet
       \/ Breaks /\ tmp' \in {tmp, NoSet}
    /\ Returns
    /\ UNCHANGED <<set, replaces, before, mixed>>

(* The agent dies.                                                         *)
SwapDies ==
    /\ ~At("idle")
    /\ Breaks
    /\ Returns
    /\ UNCHANGED <<set, tmp, replaces, before, mixed>>

SwapNext ==
    \/ \E want \in SUBSET Entry : Replaces(want)
    \/ Creates \/ Clears \/ Fills \/ Swaps \/ Drops \/ Abandons \/ SwapDies

SwapSpec == SwapInit /\ [][SwapNext]_swapVars

-----------------------------------------------------------------------------
(* The one step Resources makes of the call.                               *)
Coarse == INSTANCE Resources WITH
    Resource <- {"set"}, Value <- SUBSET Entry, KindOf <- [r \in {"set"} |-> "ipset"],
    EmptySet <- {}, NotListed <- <<>>

Promised == Coarse!AfterFailedInstall("set", before, swap.want)

(* Rules that look the set up while it is being replaced, and the engine   *)
(* when the call has failed or died, find the old entries, the new ones,   *)
(* or an empty set where there was none: never a part, as long as the fill *)
(* did not add to a stale <name>_new that could not be destroyed.          *)
NeverPartial == ~At("idle") /\ ~mixed => set \in Promised

(* A call that succeeds has put the wanted entries in place, under the     *)
(* same condition.                                                         *)
SuccessIsInstalled == At("drop") /\ ~mixed => set = Coarse!AfterInstall("set", before, swap.want)
=============================================================================
