------------------------ MODULE AgentLeaves_proofs -------------------------
(***************************************************************************)
(* The leaves of the agent, each on its own: IPSetReplace for every set of *)
(* entries, the RTT prober for every set of peers, the opening of the      *)
(* database for every number of processes and migrations; with any number  *)
(* of calls, failing commands, restarts and deaths.                        *)
(***************************************************************************)
EXTENDS IPSetSwap, RttProber, Migrations, FiniteSetTheorems, SequenceTheorems, TLAPS

-----------------------------------------------------------------------------
(* IPSetReplace.  The inductive invariant says, stage by stage, what the   *)
(* two sets hold: up to the swap <name> is what the call found or the      *)
(* empty set it made, and <name>_new is exactly what is wanted once it is  *)
(* filled, unless the fill added to leftovers.                             *)

(* <name> after the first command.                                         *)
Base == IF before = NoSet THEN <<{}>> ELSE before

Clean == ~mixed

StageOK ==
    /\ At("create") => set = before
    /\ swap.pc \in {"clear", "fill", "swap"} => set = Base
    /\ At("fill") /\ Clean => tmp = NoSet
    /\ At("swap") /\ Clean => tmp = <<swap.want>>
    /\ At("drop") /\ Clean => set = <<swap.want>>
    /\ At("abandon") /\ Clean => set \in {Base, <<swap.want>>}

SwapInv == SwapTypeOK /\ StageOK

-----------------------------------------------------------------------------
LEMMA SwapInitOK == SwapInit => SwapInv
<1>. SUFFICES ASSUME SwapInit
              PROVE  SwapInv
  OBVIOUS
<1>1. set \in SetCell /\ NoSet \in SetCell
  <2>1. \A e \in Entry : {e} \in SUBSET Entry
    OBVIOUS
  <2>. QED  BY <2>1 DEF SwapInit, SetCell
<1>2. swap = [pc |-> "idle", want |-> {}] /\ swap \in [pc : Stages, want : SUBSET Entry]
  BY DEF SwapInit, NoSwap, Stages
<1>3. SwapTypeOK
  BY <1>1, <1>2 DEF SwapInit, SwapTypeOK
<1>4. StageOK
  BY <1>2 DEF StageOK, At
<1>. QED  BY <1>3, <1>4 DEF SwapInv

(* The contents of a set are entries.                                      *)
LEMMA CellContents ==
    ASSUME NEW c \in SetCell, c # NoSet
    PROVE  c[1] \subseteq Entry
<1>1. PICK entries \in SUBSET Entry : c = <<entries>>
  BY DEF SetCell
<1>. QED  BY <1>1

LEMMA SwapTypeStep == SwapTypeOK /\ [SwapNext]_swapVars => SwapTypeOK'
<1>. SUFFICES ASSUME SwapTypeOK, [SwapNext]_swapVars
              PROVE  SwapTypeOK'
  OBVIOUS
<1>. USE DEF SwapTypeOK, Stages, NoSwap, Works, Breaks, Proceeds, Returns, At
<1>1. ASSUME NEW want \in SUBSET Entry, Replaces(want)
      PROVE  SwapTypeOK'
  <2>1. swap' = [pc |-> "create", want |-> want]
    BY <1>1 DEF Replaces
  <2>2. replaces' \in Nat /\ set' = set /\ tmp' = tmp /\ failures' = failures
    BY <1>1 DEF Replaces
  <2>3. before' = set /\ mixed' = FALSE
    BY <1>1 DEF Replaces
  <2>. QED  BY <2>1, <2>2, <2>3
<1>2. CASE Creates
  <2>1. Created \in SetCell
    BY DEF Created, SetCell
  <2>. QED  BY <1>2, <2>1 DEF Creates
<1>3. CASE Clears
  BY <1>3 DEF Clears, SetCell, NoSet
<1>4. CASE Fills
  <2>1. Stale \subseteq Entry
    BY CellContents DEF Stale
  <2>2. \A added \in SUBSET Entry : <<Stale \cup added>> \in SetCell
    BY <2>1 DEF SetCell
  <2>3. swap.want \in SUBSET Entry
    OBVIOUS
  <2>4. tmp' \in SetCell
    BY <1>4, <2>2, <2>3 DEF Fills
  <2>. QED  BY <1>4, <2>4 DEF Fills
<1>5. CASE Swaps
  BY <1>5 DEF Swaps
<1>6. CASE Drops
  BY <1>6 DEF Drops, SetCell, NoSet
<1>7. CASE Abandons
  BY <1>7 DEF Abandons, SetCell, NoSet
<1>8. CASE SwapDies
  BY <1>8 DEF SwapDies
<1>9. CASE UNCHANGED swapVars
  BY <1>9 DEF swapVars
<1>. QED  BY <1>1, <1>2, <1>3, <1>4, <1>5, <1>6, <1>7, <1>8, <1>9 DEF SwapNext

LEMMA StageStep == SwapInv /\ [SwapNext]_swapVars => StageOK'
<1>. SUFFICES ASSUME SwapInv, [SwapNext]_swapVars
              PROVE  StageOK'
  OBVIOUS
<1>. USE DEF SwapInv, SwapTypeOK, Stages, StageOK, Base, Clean,
             NoSwap, Works, Breaks, Proceeds, Returns, At
<1>1. ASSUME NEW want \in SUBSET Entry, Replaces(want)
      PROVE  StageOK'
  BY <1>1 DEF Replaces
<1>2. CASE Creates
  BY <1>2 DEF Creates, Created
<1>3. CASE Clears
  BY <1>3 DEF Clears
<1>4. CASE Fills
  <2>1. Clean => <<Stale \cup swap.want>> = <<swap.want>>
    BY <1>4 DEF Fills, Stale
  <2>. QED  BY <1>4, <2>1 DEF Fills
<1>5. CASE Swaps
  BY <1>5 DEF Swaps
<1>6. CASE Drops
  BY <1>6 DEF Drops
<1>7. CASE Abandons
  BY <1>7 DEF Abandons
<1>8. CASE SwapDies
  BY <1>8 DEF SwapDies
<1>9. CASE UNCHANGED swapVars
  BY <1>9 DEF swapVars
<1>. QED  BY <1>1, <1>2, <1>3, <1>4, <1>5, <1>6, <1>7, <1>8, <1>9 DEF SwapNext

LEMMA SwapInvInductive == SwapSpec => []SwapInv
<1>1. SwapInv /\ [SwapNext]_swapVars => SwapInv'
  BY SwapTypeStep, StageStep DEF SwapInv
<1>. QED  BY SwapInitOK, <1>1, PTL DEF SwapSpec

-----------------------------------------------------------------------------
(* What the call's one step in Resources makes of the set.                 *)
LEMMA CoarseOutcomes ==
    /\ Coarse!AfterInstall("set", before, swap.want) = <<swap.want>>
    /\ Promised = {before, <<swap.want>>} \cup IF before = NoSet THEN {<<{}>>} ELSE {}
BY DEF Promised, Coarse!AfterInstall, Coarse!AfterFailedInstall, Coarse!IsRule, NoSet

LEMMA StagesArePromised == SwapInv => NeverPartial /\ SuccessIsInstalled
<1>. SUFFICES ASSUME SwapInv
              PROVE  NeverPartial /\ SuccessIsInstalled
  OBVIOUS
<1>1. Base \in Promised /\ <<swap.want>> \in Promised /\ before \in Promised
  BY CoarseOutcomes DEF Base
<1>2. NeverPartial
  BY <1>1 DEF NeverPartial, SwapInv, SwapTypeOK, StageOK, Stages, At, Clean
<1>3. SuccessIsInstalled
  BY CoarseOutcomes DEF SuccessIsInstalled, SwapInv, StageOK, At, Clean
<1>. QED  BY <1>2, <1>3

(* Rules that look a set up while IPSetReplace is at work, or after it     *)
(* failed or the agent died in it, find the old entries, the new ones or a *)
(* new set that is empty, unless a stale <name>_new could not be destroyed.*)
THEOREM SwapIsAtomic == SwapSpec => []NeverPartial
BY SwapInvInductive, StagesArePromised, PTL

(* An IPSetReplace that gets through its swap has installed exactly the    *)
(* wanted entries: what Resources!AfterInstall says of the call.           *)
THEOREM SwapInstalls == SwapSpec => []SuccessIsInstalled
BY SwapInvInductive, StagesArePromised, PTL

-----------------------------------------------------------------------------
(* The RTT prober.  The inductive invariant: pings are of the current      *)
(* round and there are as many as places are taken; no sample is younger   *)
(* than the current round, and none older than the last one that pruned,   *)
(* less Keep.                                                              *)

ProberSpec == ProberInit /\ [][ProberNext]_proberVars

PlacesAreCounted ==
    /\ IsFiniteSet(round.pinging)
    /\ round.places = Cardinality(round.pinging)
    /\ \A t \in round.todo, b \in 0..MaxClock : <<t, b>> \notin round.pinging

OneRound ==
    /\ \A x \in round.pinging : x[2] = round.now
    /\ ~round.probing => round.todo = {} /\ round.pinging = {}
    /\ round.now <= clock
    /\ lastRound <= round.now
    /\ \A p \in Peer : cache[p] # NoSample => cache[p].at <= round.now

ProberInv == ProberTypeOK /\ PlacesAreCounted /\ OneRound /\ SamplesAgeOut

(* At most MaxConcurrent pings run at a time (the semaphore of probeOnce). *)
PingsAreBounded == IsFiniteSet(round.pinging) /\ Cardinality(round.pinging) <= MaxConcurrent

-----------------------------------------------------------------------------
(* What round is: the third conjunct of ProberTypeOK.                      *)
Rounds == [probing : BOOLEAN, now : 0..MaxClock, todo : SUBSET Target,
           pinging : SUBSET (Target \X (0..MaxClock)), places : 0..MaxConcurrent]

LEMMA CountsOneMore ==
    ASSUME NEW S, IsFiniteSet(S), NEW x, x \notin S
    PROVE  IsFiniteSet(S \cup {x}) /\ Cardinality(S \cup {x}) = Cardinality(S) + 1
BY FS_AddElement

LEMMA ProberInitOK == ProberInit => ProberInv
<1>. SUFFICES ASSUME ProberInit
              PROVE  ProberInv
  OBVIOUS
<1>. USE ProberAssumption DEF ProberInit, NoRound
<1>1. ProberTypeOK
  BY DEF ProberTypeOK
<1>2. PlacesAreCounted
  BY FS_EmptySet DEF PlacesAreCounted
<1>3. OneRound /\ SamplesAgeOut
  BY DEF OneRound, SamplesAgeOut
<1>. QED  BY <1>1, <1>2, <1>3 DEF ProberInv

LEMMA IntervalKeeps == ProberInv /\ IntervalPasses => ProberInv'
<1>. SUFFICES ASSUME ProberInv, IntervalPasses
              PROVE  ProberInv'
  OBVIOUS
<1>. USE ProberAssumption DEF ProberInv, IntervalPasses
<1>1. ProberTypeOK'
  BY DEF ProberTypeOK
<1>2. PlacesAreCounted'
  BY DEF PlacesAreCounted
<1>3. OneRound' /\ SamplesAgeOut'
  BY DEF OneRound, SamplesAgeOut, ProberTypeOK
<1>. QED  BY <1>1, <1>2, <1>3

LEMMA RoundBeginsKeeps == ProberInv /\ RoundBegins => ProberInv'
<1>. SUFFICES ASSUME ProberInv, RoundBegins
              PROVE  ProberInv'
  OBVIOUS
<1>. USE ProberAssumption DEF ProberInv
<1>1. UNCHANGED <<clock, cache, lastRound>> /\ due' \in BOOLEAN /\ ~round.probing
  BY DEF RoundBegins
<1>2. round.pinging = {} /\ round.todo = {} /\ Cardinality(round.pinging) = 0
  BY <1>1, FS_EmptySet DEF OneRound
<1>3. PICK targets \in SUBSET Target :
          round' = IF targets = {} THEN round
                   ELSE [round EXCEPT !.probing = TRUE, !.now = clock, !.todo = targets, !.places = 0]
  BY DEF RoundBegins
<1>4. CASE targets = {}
  BY <1>1, <1>3, <1>4 DEF ProberTypeOK, PlacesAreCounted, OneRound, SamplesAgeOut
<1>5. CASE targets # {}
  <2>1. /\ round'.probing = TRUE /\ round'.now = clock /\ round'.todo = targets
        /\ round'.places = 0 /\ round'.pinging = {}
    BY <1>2, <1>3, <1>5 DEF ProberTypeOK
  <2>2. ProberTypeOK'
    <3>1. clock \in 0..MaxClock /\ round \in Rounds
      BY DEF ProberTypeOK, Rounds
    <3>2. round' = [round EXCEPT !.probing = TRUE, !.now = clock, !.todo = targets, !.places = 0]
      BY <1>3, <1>5
    <3>3. round' = [probing |-> TRUE, now |-> clock, todo |-> targets,
                    pinging |-> round.pinging, places |-> 0]
      BY <3>1, <3>2 DEF Rounds
    <3>4. round' \in Rounds
      BY <3>1, <3>3 DEF Rounds
    <3>. QED  BY <1>1, <3>4 DEF ProberTypeOK, Rounds
  <2>3. PlacesAreCounted'
    BY <1>2, <2>1, FS_EmptySet DEF PlacesAreCounted
  <2>4. OneRound' /\ SamplesAgeOut'
    BY <1>1, <2>1 DEF OneRound, SamplesAgeOut, ProberTypeOK
  <2>. QED  BY <2>2, <2>3, <2>4
<1>. QED  BY <1>4, <1>5

LEMMA PingStartsKeeps ==
    ASSUME ProberInv, NEW t \in Target, PingStarts(t)
    PROVE  ProberInv'
<1>. USE ProberAssumption DEF ProberInv
<1>. DEFINE x == <<t, round.now>>
<1>1. /\ UNCHANGED <<clock, due, cache, lastRound>>
      /\ t \in round.todo /\ round.places < MaxConcurrent
      /\ round' = [round EXCEPT !.todo = @ \ {t}, !.places = @ + 1,
                                !.pinging = @ \cup {x}]
  BY DEF PingStarts
<1>2. /\ round'.todo = round.todo \ {t} /\ round'.places = round.places + 1
      /\ round'.pinging = round.pinging \cup {x}
      /\ round'.now = round.now /\ round'.probing = round.probing
  BY <1>1 DEF ProberTypeOK
<1>3. round.now \in 0..MaxClock /\ x \in Target \X (0..MaxClock)
  BY DEF ProberTypeOK
<1>4. ProberTypeOK'
  <2>1. round \in Rounds
    BY DEF ProberTypeOK, Rounds
  <2>2. round.pinging \cup {x} \in SUBSET (Target \X (0..MaxClock))
    BY <1>3, <2>1 DEF Rounds
  <2>3. round.places + 1 \in 0..MaxConcurrent /\ round.todo \ {t} \in SUBSET Target
    BY <1>1, <2>1 DEF Rounds
  <2>4. round' = [probing |-> round.probing, now |-> round.now, todo |-> round.todo \ {t},
                  pinging |-> round.pinging \cup {x}, places |-> round.places + 1]
    BY <1>1, <2>1 DEF Rounds
  <2>5. round' \in Rounds
    BY <2>1, <2>2, <2>3, <2>4 DEF Rounds
  <2>. QED  BY <1>1, <2>5 DEF ProberTypeOK, Rounds
<1>5. PlacesAreCounted'
  <2>1. x \notin round.pinging
    BY <1>1, <1>3 DEF PlacesAreCounted
  <2>2. /\ IsFiniteSet(round'.pinging)
        /\ Cardinality(round'.pinging) = Cardinality(round.pinging) + 1
    BY <1>2, <2>1, CountsOneMore DEF PlacesAreCounted
  <2>3. \A u \in round'.todo, b \in 0..MaxClock : <<u, b>> \notin round'.pinging
    BY <1>2 DEF PlacesAreCounted
  <2>. QED  BY <1>2, <2>2, <2>3 DEF PlacesAreCounted
<1>6. OneRound' /\ SamplesAgeOut'
  <2>1. round.probing
    BY <1>1 DEF OneRound
  <2>2. \A y \in round'.pinging : y[2] = round'.now
    BY <1>2 DEF OneRound
  <2>. QED  BY <1>1, <1>2, <2>1, <2>2 DEF OneRound, SamplesAgeOut
<1>. QED  BY <1>4, <1>5, <1>6

LEMMA PingEndsKeeps ==
    ASSUME ProberInv, NEW t \in Target, NEW began \in 0..MaxClock, NEW ok \in BOOLEAN,
           PingEnds(t, began, ok)
    PROVE  ProberInv'
<1>. USE ProberAssumption DEF ProberInv
<1>. DEFINE x == <<t, began>>
<1>1. /\ UNCHANGED <<clock, due, lastRound>>
      /\ x \in round.pinging
      /\ cache' = [cache EXCEPT ![KeyOf[t]] = [at |-> began, ok |-> ok]]
      /\ round' = [round EXCEPT !.pinging = @ \ {x}, !.places = @ - 1]
  BY DEF PingEnds, PingDone
<1>2. /\ round'.todo = round.todo /\ round'.places = round.places - 1
      /\ round'.pinging = round.pinging \ {x}
      /\ round'.now = round.now /\ round'.probing = round.probing
  BY <1>1 DEF ProberTypeOK
<1>3. /\ IsFiniteSet(round'.pinging)
      /\ Cardinality(round'.pinging) = Cardinality(round.pinging) - 1
      /\ Cardinality(round'.pinging) \in Nat
  BY <1>1, <1>2, FS_RemoveElement, FS_CardinalityType DEF PlacesAreCounted
<1>4. KeyOf[t] \in Peer
  BY TargetAssumption
<1>5. ProberTypeOK'
  <2>1. round'.places \in 0..MaxConcurrent
    BY <1>2, <1>3 DEF PlacesAreCounted, ProberTypeOK
  <2>2. cache' \in [Peer -> [at : 0..MaxClock, ok : BOOLEAN] \cup {NoSample}]
    BY <1>1, <1>4 DEF ProberTypeOK
  <2>. QED  BY <1>1, <1>2, <2>1, <2>2 DEF ProberTypeOK
<1>6. PlacesAreCounted'
  BY <1>2, <1>3 DEF PlacesAreCounted
<1>7. began = round.now
  BY <1>1 DEF OneRound
<1>8. OneRound'
  <2>1. \A p \in Peer : cache'[p] # NoSample => cache'[p].at <= round'.now
    BY <1>1, <1>2, <1>4, <1>7 DEF OneRound, ProberTypeOK
  <2>. QED  BY <1>1, <1>2, <2>1 DEF OneRound
<1>9. SamplesAgeOut'
  BY <1>1, <1>4, <1>7 DEF OneRound, SamplesAgeOut, ProberTypeOK
<1>. QED  BY <1>5, <1>6, <1>8, <1>9

LEMMA RoundEndsKeeps == ProberInv /\ RoundEnds => ProberInv'
<1>. SUFFICES ASSUME ProberInv, RoundEnds
              PROVE  ProberInv'
  OBVIOUS
<1>. USE ProberAssumption DEF ProberInv
<1>1. /\ UNCHANGED <<clock, due>>
      /\ round.todo = {} /\ round.pinging = {}
      /\ cache' = Pruned(round.now)
      /\ lastRound' = round.now
      /\ round' = [round EXCEPT !.probing = FALSE]
  BY DEF RoundEnds, AllPinged
<1>2. /\ round'.todo = round.todo /\ round'.places = round.places
      /\ round'.pinging = round.pinging
      /\ round'.now = round.now /\ round'.probing = FALSE
  BY <1>1 DEF ProberTypeOK
<1>3. \A p \in Peer : cache'[p] # NoSample => cache'[p] = cache[p] /\ ~(cache[p].at < round.now - Keep)
  BY <1>1 DEF Pruned
<1>4. ProberTypeOK'
  BY <1>1, <1>2 DEF ProberTypeOK, Pruned
<1>5. PlacesAreCounted'
  BY <1>2 DEF PlacesAreCounted
<1>6. OneRound'
  BY <1>1, <1>2, <1>3 DEF OneRound, ProberTypeOK
<1>7. SamplesAgeOut'
  <2>. SUFFICES ASSUME NEW p \in Peer, cache'[p] # NoSample
                PROVE  cache'[p].at >= lastRound' - Keep
    BY DEF SamplesAgeOut
  <2>1. cache[p] # NoSample /\ cache'[p] = cache[p] /\ ~(cache[p].at < round.now - Keep)
    BY <1>3
  <2>2. cache[p].at \in 0..MaxClock /\ round.now \in 0..MaxClock
    BY <2>1 DEF ProberTypeOK
  <2>. QED  BY <1>1, <2>1, <2>2
<1>. QED  BY <1>4, <1>5, <1>6, <1>7

LEMMA ProberInvStep == ProberInv /\ [ProberNext]_proberVars => ProberInv'
<1>1. CASE ProberInv /\ UNCHANGED proberVars
  BY <1>1 DEF proberVars, ProberInv, ProberTypeOK, PlacesAreCounted, OneRound, SamplesAgeOut
<1>. QED  BY <1>1, IntervalKeeps, RoundBeginsKeeps, PingStartsKeeps, PingEndsKeeps, RoundEndsKeeps
          DEF ProberNext

LEMMA ProberInvariant == ProberSpec => []ProberInv
BY ProberInitOK, ProberInvStep, PTL DEF ProberSpec

-----------------------------------------------------------------------------
(* Samples of peers that are gone do not outlive Keep intervals, counted   *)
(* to the last round that probed anybody (the pruning of probeOnce).       *)
THEOREM SamplesArePruned == ProberSpec => []SamplesAgeOut
BY ProberInvariant, PTL DEF ProberInv

(* However many targets there are and however slow they answer, no more    *)
(* than MaxConcurrent pings run (the semaphore of probeOnce).              *)
THEOREM SemaphoreBounds == ProberSpec => []PingsAreBounded
<1>1. ProberInv => PingsAreBounded
  BY ProberAssumption DEF ProberInv, PlacesAreCounted, PingsAreBounded, ProberTypeOK
<1>. QED  BY <1>1, ProberInvariant, PTL

(* A late answer never replaces a younger sample: wg.Wait keeps the pings  *)
(* of a round from outliving it.                                           *)
THEOREM NoSampleGoesBack == ProberSpec => SamplesDoNotGoBack
<1>. DEFINE Forward == \A p \in Peer : cache[p] # NoSample /\ cache'[p] # NoSample
                          => cache'[p].at >= cache[p].at
<1>1. ProberInv /\ [ProberNext]_proberVars => [Forward]_proberVars
  <2>. SUFFICES ASSUME ProberInv, ProberNext
                PROVE  Forward
    OBVIOUS
  <2>0. \A p \in Peer : cache[p] # NoSample => cache[p].at \in 0..MaxClock
    BY DEF ProberInv, ProberTypeOK
  <2>1. CASE UNCHANGED cache
    BY <2>0, <2>1
  <2>2. ASSUME NEW t \in Target, NEW began \in 0..MaxClock, NEW ok \in BOOLEAN,
               PingEnds(t, began, ok)
        PROVE  Forward
    <3>1. began = round.now
      BY <2>2 DEF PingEnds, ProberInv, OneRound
    <3>2. cache' = [cache EXCEPT ![KeyOf[t]] = [at |-> began, ok |-> ok]]
      BY <2>2 DEF PingEnds
    <3>. QED  BY <2>0, <3>1, <3>2, TargetAssumption DEF ProberInv, OneRound, ProberTypeOK
  <2>3. CASE RoundEnds
    BY <2>0, <2>3 DEF RoundEnds, Pruned
  <2>4. CASE IntervalPasses \/ RoundBegins \/ \E t \in Target : PingStarts(t)
    BY <2>1, <2>4 DEF IntervalPasses, RoundBegins, PingStarts
  <2>. QED  BY <2>2, <2>3, <2>4 DEF ProberNext
<1>. QED  BY <1>1, ProberInvariant, PTL DEF ProberSpec, SamplesDoNotGoBack

-----------------------------------------------------------------------------
(* Opening the database.  What a process knows lags behind the database:   *)
(* the list it read holds recorded versions only, and its loop is not past *)
(* the last migration made.  So a version its loop is at is either         *)
(* recorded, and the transaction fails, or the very next one (NextIsNew).  *)

SchemaSpec == SchemaInit /\ [][SchemaNext]_schemaVars

Made == Len(schema)

Lags(p) ==
    /\ opener[p].applied \subseteq recorded
    /\ opener[p].at <= Made
    /\ opener[p].pc = "open" => Made = LastVersion

SchemaInv == MigrationsTypeOK /\ SchemaIsRecorded /\ \A p \in Process : Lags(p)

-----------------------------------------------------------------------------
LEMMA EffectsAreRecorded ==
    ASSUME MigrationsTypeOK, SchemaIsRecorded
    PROVE  Effects = recorded /\ Made \in Nat /\ Made <= LastVersion
<1>1. Made \in Nat /\ DOMAIN schema = 1..Made
  BY DEF MigrationsTypeOK, Made
<1>2. recorded = 1..Made /\ \A n \in 1..Made : schema[n] = n
  BY <1>1 DEF SchemaIsRecorded, Made
<1>3. Effects = 1..Made
  BY <1>1, <1>2 DEF Effects
<1>4. Made <= LastVersion
  <2>1. CASE Made = 0
    BY <2>1, VersionAssumption
  <2>2. CASE Made # 0
    <3>1. Made \in recorded
      BY <1>1, <1>2, <2>2
    <3>. QED  BY <3>1, VersionAssumption DEF MigrationsTypeOK, Version
  <2>. QED  BY <2>1, <2>2
<1>. QED  BY <1>1, <1>2, <1>3, <1>4

(* The version a loop is at, when it is not recorded, is the next one.     *)
LEMMA NextIsNew ==
    ASSUME SchemaInv, NEW p \in Process, NEW v \in Upcoming(opener[p]), v \notin recorded
    PROVE  v \in Version /\ v = Made + 1
<1>1. Made \in Nat /\ recorded = 1..Made
  BY EffectsAreRecorded DEF SchemaInv, SchemaIsRecorded, Made
<1>2. /\ opener[p].at \in Nat /\ opener[p].at <= Made
      /\ opener[p].applied \subseteq 1..Made
  BY <1>1, VersionAssumption DEF SchemaInv, Lags, MigrationsTypeOK
<1>3. /\ v \in Version /\ v > opener[p].at
      /\ \A w \in Version : w > opener[p].at /\ w \notin opener[p].applied => v <= w
  BY DEF Upcoming, Missing
<1>4. v \in Nat /\ v > Made
  BY <1>1, <1>3, VersionAssumption DEF Version
<1>5. ~(v > Made + 1)
  <2>. SUFFICES ASSUME v > Made + 1
                PROVE  FALSE
    OBVIOUS
  <2>1. Made + 1 \in Version /\ Made + 1 > opener[p].at /\ Made + 1 \notin opener[p].applied
    BY <1>1, <1>2, <1>3, VersionAssumption DEF Version
  <2>. QED  BY <1>1, <1>3, <1>4, <2>1
<1>. QED  BY <1>1, <1>3, <1>4, <1>5

LEMMA SchemaInitOK == SchemaInit => SchemaInv
<1>. SUFFICES ASSUME SchemaInit
              PROVE  SchemaInv
  OBVIOUS
<1>1. PICK n \in 0..LastVersion :
          /\ schema = [v \in 1..n |-> v]
          /\ recorded = 1..n
          /\ duplicates \in IF n \in 1..(UniqueIndex - 1) THEN BOOLEAN ELSE {FALSE}
  BY DEF SchemaInit
<1>2. schema \in Seq(Version) /\ Len(schema) = n
  BY <1>1, VersionAssumption DEF Version
<1>3. opener = [p \in Process |-> [pc |-> "closed", applied |-> {}, at |-> 0]]
  BY DEF SchemaInit, Closed
<1>4. MigrationsTypeOK
  <2>1. duplicates \in BOOLEAN
    <3>1. CASE n \in 1..(UniqueIndex - 1)
      BY <1>1, <3>1
    <3>2. CASE n \notin 1..(UniqueIndex - 1)
      BY <1>1, <3>2
    <3>. QED  BY <3>1, <3>2
  <2>2. recorded \subseteq Version
    BY <1>1, VersionAssumption DEF Version
  <2>3. opener \in [Process -> [pc : {"closed", "migrating", "open"},
                                applied : SUBSET Version, at : 0..LastVersion]]
    BY <1>3, VersionAssumption
  <2>4. troubles \in 0..MaxTroubles
    BY VersionAssumption DEF SchemaInit
  <2>. QED  BY <1>2, <2>1, <2>2, <2>3, <2>4 DEF MigrationsTypeOK
<1>5. SchemaIsRecorded
  BY <1>1, <1>2 DEF SchemaIsRecorded
<1>6. ASSUME NEW p \in Process
      PROVE  Lags(p)
  <2>1. opener[p].applied = {} /\ opener[p].at = 0 /\ opener[p].pc = "closed"
    BY <1>3
  <2>2. 0 <= Made
    BY <1>2, VersionAssumption DEF Made
  <2>. QED  BY <2>1, <2>2 DEF Lags
<1>. QED  BY <1>4, <1>5, <1>6 DEF SchemaInv

LEMMA BeginsToOpenKeeps ==
    ASSUME SchemaInv, NEW p \in Process, BeginsToOpen(p)
    PROVE  SchemaInv'
<1>1. UNCHANGED <<schema, recorded, duplicates>> /\ (NoTrouble \/ Trouble)
  BY DEF BeginsToOpen
<1>2. PICK read \in SUBSET recorded : opener' = [opener EXCEPT ![p] = Migrating(read)]
  BY DEF BeginsToOpen
<1>3. MigrationsTypeOK'
  <2>1. troubles' \in 0..MaxTroubles
    BY <1>1, VersionAssumption DEF NoTrouble, Trouble, SchemaInv, MigrationsTypeOK
  <2>. QED  BY <1>1, <1>2, <2>1, VersionAssumption DEF SchemaInv, MigrationsTypeOK, Migrating
<1>4. SchemaIsRecorded'
  BY <1>1 DEF SchemaInv, SchemaIsRecorded
<1>5. Made \in Nat
  BY EffectsAreRecorded DEF SchemaInv
<1>6. \A q \in Process : Lags(q)'
  BY <1>1, <1>2, <1>5 DEF SchemaInv, MigrationsTypeOK, Lags, Made, Migrating
<1>. QED  BY <1>3, <1>4, <1>6 DEF SchemaInv

(* A process that gives up, by failing or dying.                           *)
LEMMA ClosesKeeps ==
    ASSUME SchemaInv, NEW p \in Process, Closes(p),
           UNCHANGED <<schema, recorded, duplicates>>, troubles' \in 0..MaxTroubles
    PROVE  SchemaInv'
<1>1. MigrationsTypeOK'
  BY VersionAssumption DEF SchemaInv, MigrationsTypeOK, Closes, Closed
<1>2. SchemaIsRecorded'
  BY DEF SchemaInv, SchemaIsRecorded
<1>3. Made \in Nat
  BY EffectsAreRecorded DEF SchemaInv
<1>4. \A q \in Process : Lags(q)'
  BY <1>3 DEF SchemaInv, MigrationsTypeOK, Lags, Made, Closes, Closed
<1>. QED  BY <1>1, <1>2, <1>4 DEF SchemaInv

LEMMA CommitKeeps ==
    ASSUME SchemaInv, NEW p \in Process, NEW v \in Upcoming(opener[p]),
           v \notin recorded, Commits(v), opener' = [opener EXCEPT ![p].at = v],
           UNCHANGED duplicates
    PROVE  SchemaInv'
<1>1. v \in Version /\ v = Made + 1
  BY NextIsNew
<1>2. Made \in Nat /\ Made <= LastVersion /\ recorded = 1..Made
  BY EffectsAreRecorded DEF SchemaInv, SchemaIsRecorded, Made
<1>3. schema \in Seq(Version) /\ schema' = Append(schema, v)
  BY DEF SchemaInv, MigrationsTypeOK, Commits
<1>4. /\ schema' \in Seq(Version) /\ Made' = Made + 1
      /\ \A n \in 1..Made : schema'[n] = schema[n]
      /\ schema'[Made + 1] = v
  BY <1>1, <1>3, AppendProperties DEF Made
<1>5. recorded' = 1..Made'
  BY <1>1, <1>2, <1>4 DEF Commits
<1>6. SchemaIsRecorded'
  <2>1. \A n \in 1..Made' : schema'[n] = n
    BY <1>1, <1>2, <1>4 DEF SchemaInv, SchemaIsRecorded, Made
  <2>2. schema' = [n \in 1..Len(schema') |-> schema'[n]]
    BY <1>4
  <2>3. Len(schema') = Made'
    BY DEF Made
  <2>. QED  BY <1>5, <2>1, <2>2, <2>3 DEF SchemaIsRecorded
<1>7. MigrationsTypeOK'
  <2>1. opener' \in [Process -> [pc : {"closed", "migrating", "open"},
                                 applied : SUBSET Version, at : 0..LastVersion]]
    <3>1. v \in 0..LastVersion
      BY <1>1, VersionAssumption DEF Version
    <3>2. [opener[p] EXCEPT !.at = v] \in [pc : {"closed", "migrating", "open"},
                                           applied : SUBSET Version, at : 0..LastVersion]
      BY <3>1 DEF SchemaInv, MigrationsTypeOK
    <3>. QED  BY <3>2 DEF SchemaInv, MigrationsTypeOK
  <2>2. recorded' \subseteq Version /\ UNCHANGED <<duplicates, troubles>>
    BY <1>1 DEF SchemaInv, MigrationsTypeOK, Commits, NoTrouble
  <2>. QED  BY <1>4, <2>1, <2>2 DEF SchemaInv, MigrationsTypeOK
<1>8. ASSUME NEW q \in Process
      PROVE  Lags(q)'
  <2>1. opener[q].at \in Nat /\ LastVersion \in Nat
    BY VersionAssumption DEF SchemaInv, MigrationsTypeOK
  <2>2. Lags(q)
    BY DEF SchemaInv
  <2>3. opener[q].pc # "open"
    BY <1>1, <1>2, <2>1, <2>2, VersionAssumption DEF Lags, Version
  <2>4. opener'[q].applied = opener[q].applied /\ opener'[q].pc = opener[q].pc
    BY DEF SchemaInv, MigrationsTypeOK
  <2>5. opener'[q].at = IF q = p THEN v ELSE opener[q].at
    BY DEF SchemaInv, MigrationsTypeOK
  <2>6. recorded \subseteq recorded'
    BY DEF Commits
  <2>. QED  BY <1>1, <1>2, <1>4, <2>1, <2>2, <2>3, <2>4, <2>5, <2>6 DEF Lags
<1>. QED  BY <1>6, <1>7, <1>8 DEF SchemaInv

LEMMA MigratesKeeps ==
    ASSUME SchemaInv, NEW p \in Process, Migrates(p)
    PROVE  SchemaInv'
<1>1. PICK v \in Upcoming(opener[p]) :
          \/ /\ v \notin recorded
             /\ Commits(v)
             /\ opener' = [opener EXCEPT ![p].at = v]
          \/ /\ NoTrouble \/ Trouble
             /\ RollsBack(p)
             /\ UNCHANGED <<schema, recorded>>
  BY DEF Migrates
<1>2. UNCHANGED duplicates
  BY DEF Migrates
<1>3. CASE v \notin recorded /\ Commits(v) /\ opener' = [opener EXCEPT ![p].at = v]
  BY <1>2, <1>3, CommitKeeps
<1>4. CASE (NoTrouble \/ Trouble) /\ RollsBack(p) /\ UNCHANGED <<schema, recorded>>
  <2>1. troubles' \in 0..MaxTroubles
    BY <1>4, VersionAssumption DEF NoTrouble, Trouble, SchemaInv, MigrationsTypeOK
  <2>. QED  BY <1>2, <1>4, <2>1, ClosesKeeps DEF RollsBack
<1>. QED  BY <1>1, <1>3, <1>4

LEMMA IsOpenKeeps ==
    ASSUME SchemaInv, NEW p \in Process, IsOpen(p)
    PROVE  SchemaInv'
<1>1. /\ UNCHANGED <<schema, recorded, duplicates, troubles>>
      /\ opener' = [opener EXCEPT ![p] = Opened]
      /\ Missing(opener[p]) = {}
  BY DEF IsOpen, NoTrouble
<1>2. Made \in Nat /\ Made <= LastVersion /\ recorded = 1..Made
  BY EffectsAreRecorded DEF SchemaInv, SchemaIsRecorded, Made
<1>3. opener[p].at \in Nat /\ opener[p].at <= Made /\ opener[p].applied \subseteq 1..Made
  BY <1>2, VersionAssumption DEF SchemaInv, MigrationsTypeOK, Lags
<1>4. Made = LastVersion
  <2>. SUFFICES ASSUME Made < LastVersion
                PROVE  FALSE
    BY <1>2, VersionAssumption
  <2>1. Made + 1 \in Version /\ Made + 1 > opener[p].at /\ Made + 1 \notin opener[p].applied
    BY <1>2, <1>3, VersionAssumption DEF Version
  <2>. QED  BY <1>1, <2>1 DEF Missing
<1>5. MigrationsTypeOK'
  BY <1>1, VersionAssumption DEF SchemaInv, MigrationsTypeOK, Opened
<1>6. SchemaIsRecorded'
  BY <1>1 DEF SchemaInv, SchemaIsRecorded
<1>7. \A q \in Process : Lags(q)'
  BY <1>1, <1>2, <1>4 DEF SchemaInv, MigrationsTypeOK, Lags, Made, Opened
<1>. QED  BY <1>5, <1>6, <1>7 DEF SchemaInv

LEMMA OpenerDiesKeeps ==
    ASSUME SchemaInv, NEW p \in Process, OpenerDies(p)
    PROVE  SchemaInv'
<1>1. troubles' \in 0..MaxTroubles
  BY VersionAssumption DEF OpenerDies, NoTrouble, Trouble, SchemaInv, MigrationsTypeOK
<1>. QED  BY <1>1, ClosesKeeps DEF OpenerDies

LEMMA SchemaInvariant == SchemaSpec => []SchemaInv
<1>1. SchemaInv /\ UNCHANGED schemaVars => SchemaInv'
  BY DEF schemaVars, SchemaInv, MigrationsTypeOK, SchemaIsRecorded, Lags, Made
<1>2. SchemaInv /\ [SchemaNext]_schemaVars => SchemaInv'
  BY <1>1, BeginsToOpenKeeps, MigratesKeeps, IsOpenKeeps, OpenerDiesKeeps DEF SchemaNext
<1>. QED  BY SchemaInitOK, <1>2, PTL DEF SchemaSpec

-----------------------------------------------------------------------------
(* However many processes migrate at a time and wherever they die, each    *)
(* migration is made once, in order, and recorded if and only if it was    *)
(* made (migrate, one transaction for the SQL and its row).                *)
THEOREM MigrationsAreRecorded == SchemaSpec => []SchemaIsRecorded
BY SchemaInvariant, PTL DEF SchemaInv

(* A process that has opened the database has the whole schema, also when  *)
(* the list it read was cut short (store.Open).                            *)
THEOREM OpenedIsMigrated == SchemaSpec => []OpenIsMigrated
<1>1. SchemaInv => OpenIsMigrated
  <2>. SUFFICES ASSUME SchemaInv, NEW p \in Process, opener[p].pc = "open"
                PROVE  Effects = Version
    BY DEF OpenIsMigrated
  <2>1. Made = LastVersion
    BY DEF SchemaInv, Lags
  <2>2. Effects = recorded /\ recorded = 1..Made
    BY EffectsAreRecorded DEF SchemaInv, SchemaIsRecorded, Made
  <2>. QED  BY <2>1, <2>2 DEF Version
<1>. QED  BY <1>1, SchemaInvariant, PTL
=============================================================================
