---------------------------- MODULE HostContract ----------------------------
(***************************************************************************)
(* What a shost Host promises to its caller and to its services, without   *)
(* goroutines, channels or contexts (README.md, "Lifecycle semantics"):    *)
(* services come up in order; once stopping, nothing comes up any more and *)
(* the ones that came up are asked to stop one at a time, the last first;  *)
(* the next one is asked only when the one before has finished or, after   *)
(* the shared deadline, was given up; and Run returns nil exactly when     *)
(* nothing went wrong.                                                     *)
(***************************************************************************)
EXTENDS Naturals

CONSTANT N    \* number of services

VARIABLES
  phase,      \* "starting", "running", "stopping", "stopped"
  up,         \* services 1..up were started
  active,     \* those of them that have not finished
  asked,      \* how many of them were asked to stop, from up downwards
  outcome,    \* what became of each service
  overtime,   \* the shutdown deadline has expired
  faulty,     \* a failure, not a request, ended startup or service
  result      \* what Run returned: "pending", "nil" or "error"

contractVars == <<phase, up, active, asked, outcome, overtime, faulty, result>>

Outcomes == {"none", "clean", "failed", "abandoned"}

ContractInit ==
  /\ phase = "starting"
  /\ up = 0
  /\ active = {}
  /\ asked = 0
  /\ outcome = [i \in 1..N |-> "none"]
  /\ overtime = FALSE
  /\ faulty = FALSE
  /\ result = "pending"

Start ==
  /\ phase = "starting"
  /\ up < N
  /\ up' = up + 1
  /\ active' = active \cup {up + 1}
  /\ UNCHANGED <<phase, asked, outcome, overtime, faulty, result>>

Serve ==
  /\ phase = "starting"
  /\ up = N
  /\ phase' = "running"
  /\ UNCHANGED <<up, active, asked, outcome, overtime, faulty, result>>

\* A request (nothing went wrong) or a failure ends startup or service.
Stop ==
  /\ phase \in {"starting", "running"}
  /\ phase' = "stopping"
  /\ faulty' \in BOOLEAN
  /\ UNCHANGED <<up, active, asked, outcome, overtime, result>>

\* The service asked last, and whether the host is done with it.
Current == up + 1 - asked
Resolved == asked > 0 => outcome[Current] # "none"

Ask ==
  /\ phase = "stopping"
  /\ asked < up
  /\ Resolved
  /\ asked' = asked + 1
  /\ UNCHANGED <<phase, up, active, outcome, overtime, faulty, result>>

\* A service that was asked finishes, in time or not.
Finish(i) ==
  /\ i \in active
  /\ i >= Current
  /\ active' = active \ {i}
  /\ UNCHANGED <<phase, up, asked, outcome, overtime, faulty, result>>

Expire ==
  /\ phase = "stopping"
  /\ overtime' = TRUE
  /\ UNCHANGED <<phase, up, active, asked, outcome, faulty, result>>

Resolve(o) ==
  /\ phase = "stopping"
  /\ ~Resolved
  /\ IF o = "abandoned" THEN overtime ELSE Current \notin active
  /\ outcome' = [outcome EXCEPT ![Current] = o]
  /\ UNCHANGED <<phase, up, active, asked, overtime, faulty, result>>

Return ==
  /\ phase = "stopping"
  /\ asked = up
  /\ Resolved
  /\ phase' = "stopped"
  /\ result' = IF faulty \/ \E i \in 1..up : outcome[i] # "clean"
               THEN "error" ELSE "nil"
  /\ UNCHANGED <<up, active, asked, outcome, overtime, faulty>>

ContractNext ==
  \/ Start \/ Serve \/ Stop \/ Ask \/ Expire \/ Return
  \/ \E i \in 1..N : Finish(i)
  \/ \E o \in Outcomes \ {"none"} : Resolve(o)

ContractSpec == ContractInit /\ [][ContractNext]_contractVars
=============================================================================
