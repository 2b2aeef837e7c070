--------------------------- MODULE OperatorService ---------------------------
(***************************************************************************)
(* The whole life of the operator process, main of operator/index.ts: it   *)
(* registers, whatever comes of that it starts monitoring, and when it is  *)
(* stopped and started again it does both once more.  Events that come     *)
(* while it registers have no listener.                                    *)
(***************************************************************************)
EXTENDS Operator, Registration

serviceVars == <<operatorVars, registrationVars>>

ServiceInit == OperatorInit /\ RegistrationInit

Register == RegistrationNext /\ UNCHANGED operatorVars

MissEvent(t) ==
    /\ awaits # "monitoring" /\ t \in events
    /\ events' = events \ {t}
    /\ UNCHANGED <<lookups, blockNumber, latestBatchNumber, batches, running, submissions, mined,
                   restarts, registrationVars>>

Monitor == awaits = "monitoring" /\ MonitorStep /\ UNCHANGED registrationVars

MineBatch == (\E k \in DOMAIN submissions : Mine(k)) /\ UNCHANGED registrationVars

StartAgain == Restart /\ StartOver

ServiceNext ==
    \/ Register \/ Monitor \/ MineBatch \/ StartAgain
    \/ \E t \in Tasks : MissEvent(t)

(* Each call of the node, the quoter and the wallet answers or times out.  *)
(* Nothing is assumed of a transaction that registration waits for: it may *)
(* never be mined, and the wait has no timeout.                            *)
ServiceFairness ==
    /\ WF_serviceVars(Answered /\ UNCHANGED operatorVars)
    /\ \A b \in BatchNumbers : WF_serviceVars(BatchStep(b) /\ UNCHANGED registrationVars)

ServiceSpec == ServiceInit /\ [][ServiceNext]_serviceVars /\ ServiceFairness

------------------------------------------------------------------------------
(* Whichever of the registration calls fails, in a first start or in a     *)
(* later one that finds half a registration, the process comes to monitor, *)
(* unless a wait for a mined transaction never ends: safeRegisterOperator  *)
(* leaves no error to main.                                                *)
MonitoringStarts ==
    []<>(awaits \notin MiningWaits) => (awaits \in Awaited ~> awaits = "monitoring")
=============================================================================
