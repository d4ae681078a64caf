------------------------------- MODULE Leaves -------------------------------
(***************************************************************************)
(* The leaves of the system: in a browser tab the page of a plan and the   *)
(* traffic store, in the agent the RTT prober, the replacement of an ipset *)
(* and the opening of the database.  None reads what another writes, so a  *)
(* behaviour exercises one of them: the interleavings of two would say     *)
(* nothing more.                                                           *)
(***************************************************************************)
EXTENDS PlanPage, TrafficStore, RttProber, IPSetSwap, Migrations

VARIABLE part       \* the one this behaviour exercises

leafVars == <<pageVars, trafficVars, proberVars, swapVars, schemaVars, part>>

TypeOK == /\ PageTypeOK /\ TrafficTypeOK /\ ProberTypeOK /\ SwapTypeOK
          /\ MigrationsTypeOK

Init == /\ PageInit /\ TrafficInit /\ ProberInit /\ SwapInit /\ SchemaInit
        /\ part \in {"page", "traffic", "prober", "ipset", "schema"}
        /\ part # "page" => plan = "pending"
        /\ part # "ipset" => set = NoSet
        /\ part # "schema" => schema = <<>>

OfPage(A) ==
    part = "page" /\ A /\ UNCHANGED <<trafficVars, proberVars, swapVars, schemaVars, part>>
OfTraffic(A) ==
    part = "traffic" /\ A /\ UNCHANGED <<pageVars, proberVars, swapVars, schemaVars, part>>
OfProber(A) ==
    part = "prober" /\ A /\ UNCHANGED <<pageVars, trafficVars, swapVars, schemaVars, part>>
OfIPSet(A) ==
    part = "ipset" /\ A /\ UNCHANGED <<pageVars, trafficVars, proberVars, schemaVars, part>>
OfSchema(A) ==
    part = "schema" /\ A /\ UNCHANGED <<pageVars, trafficVars, proberVars, swapVars, part>>

Next == \/ OfPage(PageNext) \/ OfTraffic(TrafficNext) \/ OfProber(ProberNext)
        \/ OfIPSet(SwapNext) \/ OfSchema(SchemaNext)

(* The agent answers, the browser delivers, the timers tick, a ping ends,  *)
(* systemd restarts the daemon.  Users and other clients need do nothing.  *)
Fairness ==
    /\ \A c \in Call : /\ WF_leafVars(OfPage(AgentAnswers(c)))
                       /\ WF_leafVars(OfPage(PageHears(c)))
    /\ SF_leafVars(OfPage(Polls))
    /\ \A t \in Target :
          /\ WF_leafVars(OfProber(PingStarts(t)))
          /\ WF_leafVars(OfProber(\E began \in 0..MaxClock, ok \in BOOLEAN : PingEnds(t, began, ok)))
    /\ WF_leafVars(OfProber(RoundEnds))
    /\ WF_leafVars(OfSchema(BeginsToOpen(Daemon)))
    /\ WF_leafVars(OfSchema(Migrates(Daemon) \/ IsOpen(Daemon)))

Spec == Init /\ [][Next]_leafVars /\ Fairness

(* Beside an importer that wants the same migrations the daemon comes up   *)
(* all the same, by being restarted; but for a database in which two peers *)
(* share an address, which no restart can open.                            *)
DaemonOpens == part = "schema" /\ ~duplicates ~> opener[Daemon].pc = "open"
=============================================================================
