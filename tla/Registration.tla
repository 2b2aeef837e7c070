----------------------------- MODULE Registration -----------------------------
(***************************************************************************)
(* How the operator process starts: safeRegisterOperator of                *)
(* operator/index.ts around registerOperator of operator/register.ts, one  *)
(* action for the stretch of code that ends each awaited call.             *)
(*                                                                         *)
(* Of EigenLayer's contracts the model keeps whether the AVSDirectory has  *)
(* been initialized, which is possible once, and whether the stake         *)
(* registry knows the operator, by whatever means.                         *)
(***************************************************************************)
EXTENDS Naturals

VARIABLES
    awaits,        \* the call the process waits for, or "monitoring"
    initialized,   \* the AVSDirectory has been initialized, by whomever
    registered,    \* the stake registry knows the operator
    conclusion     \* what this process logged of its registration

chainVars == <<initialized, registered>>
registrationVars == <<awaits, chainVars, conclusion>>

(* A sent transaction is waited for until it is mined, without a timeout.  *)
MiningWaits == {"registerAsOperator.wait", "initialize.wait"}
Awaited ==
    MiningWaits \cup {"isOperatorRegistered", "registerAsOperator", "getTransactionCount",
                      "initialize", "calculateDigest", "registerOperatorWithSignature"}

RegistrationInit ==
    /\ awaits = "isOperatorRegistered" /\ conclusion = "none"
    /\ initialized \in BOOLEAN /\ registered \in BOOLEAN

(* safeRegisterOperator is done, whatever it logs, and main goes on to     *)
(* startMonitoring.  The wrong one lets an error end main.                 *)
RethrowError(logged) ==
    /\ awaits' = IF logged = "error" THEN "ended" ELSE "monitoring"
    /\ conclusion' = logged
Conclude(logged) == awaits' = "monitoring" /\ conclusion' = logged

Proceed(call) == awaits' = call /\ UNCHANGED conclusion

(* The service manager's ABI has no isOperatorRegistered: the call throws, *)
(* isRegistered stays false, and registration is attempted.                *)
CheckRegistration ==
    /\ awaits = "isOperatorRegistered"
    /\ Proceed("registerAsOperator")
    /\ UNCHANGED chainVars

(* It succeeds, or fails, when sent or when mined, and is logged:          *)
(* registerOperator goes on.                                               *)
RegisterAsOperator ==
    /\ awaits = "registerAsOperator"
    /\ Proceed("registerAsOperator.wait") \/ Proceed("getTransactionCount")
    /\ UNCHANGED chainVars

RegisterAsOperatorMined ==
    /\ awaits = "registerAsOperator.wait"
    /\ Proceed("getTransactionCount")
    /\ UNCHANGED chainVars

GetTransactionCount ==
    /\ awaits = "getTransactionCount"
    /\ Proceed("initialize") \/ Conclude("error")
    /\ UNCHANGED chainVars

(* A second initialization is refused with "already initialized" before it *)
(* is sent, which is taken to mean that the operator is registered; any    *)
(* other failure, of the transaction or of the wait for it, is an error.   *)
Initialize ==
    /\ awaits = "initialize"
    /\ \/ ~initialized /\ Proceed("initialize.wait")
       \/ initialized /\ Conclude("registered")
       \/ Conclude("error")
    /\ UNCHANGED chainVars

InitializeMined ==
    /\ awaits = "initialize.wait"
    /\ (initialized /\ Proceed("calculateDigest")) \/ Conclude("error")
    /\ UNCHANGED chainVars

CalculateDigest ==
    /\ awaits = "calculateDigest"
    /\ Proceed("registerOperatorWithSignature") \/ Conclude("error")
    /\ UNCHANGED chainVars

(* The digest has been signed, but the struct that is sent keeps the empty *)
(* signature it was declared with, which is not a value of type bytes.     *)
RegisterWithSignature ==
    /\ awaits = "registerOperatorWithSignature"
    /\ Conclude("error")
    /\ UNCHANGED chainVars

Answered ==
    \/ CheckRegistration \/ RegisterAsOperator \/ GetTransactionCount
    \/ Initialize \/ CalculateDigest \/ RegisterWithSignature

(* An initialization is mined: that of this process, one that an earlier   *)
(* process sent, or another account's.                                     *)
MineInitialization ==
    /\ ~initialized /\ initialized' = TRUE
    /\ UNCHANGED <<awaits, registered, conclusion>>

RegistrationNext ==
    Answered \/ RegisterAsOperatorMined \/ InitializeMined \/ MineInitialization

(* A new process starts over; the contracts keep what they have.           *)
StartOver ==
    /\ awaits' = "isOperatorRegistered" /\ conclusion' = "none"
    /\ UNCHANGED chainVars

------------------------------------------------------------------------------
(* What safeRegisterOperator logs is so: an operator it takes for already  *)
(* registered is known to the stake registry.                              *)
RegistrationBelieved == conclusion = "registered" => registered
=============================================================================
