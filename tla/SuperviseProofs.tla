--------------------------- MODULE SuperviseProofs ---------------------------
(***************************************************************************)
(* Proofs about the supervisor goroutines, for any number of services, any *)
(* set of restart policies and any host.                                   *)
(***************************************************************************)
EXTENDS Supervise, FiniteSetTheorems, TLAPS

LEMMA SupTypesInit == SupInit => SupTypeOK
<1> SUFFICES ASSUME SupInit PROVE SupTypeOK
  OBVIOUS
<1>1. exits \in Seq(Exit)
  BY DEF SupInit
<1> QED BY <1>1 DEF SupInit, SupTypeOK, Results, SupStates

LEMMA SupTypesStep == SupTypeOK /\ [SupNext]_supVars => SupTypeOK'
<1> SUFFICES ASSUME SupTypeOK, [SupNext]_supVars PROVE SupTypeOK'
  OBVIOUS
<1> USE ServicesAssumption DEF SupTypeOK
<1>1. ASSUME NEW i \in Services, Service(i) PROVE SupTypeOK'
  <2>1. CASE BeginStart(i)
    BY <2>1 DEF BeginStart, Goto, SupStates
  <2>2. CASE BecomeReady(i)
    BY <2>2 DEF BecomeReady
  <2>3. CASE ReturnFromStart(i)
    BY <2>3 DEF ReturnFromStart, Goto, SupStates
  <2> QED BY <1>1, <2>1, <2>2, <2>3 DEF Service
<1>2. ASSUME NEW i \in Services, Supervisor(i) PROVE SupTypeOK'
  <2>0. \A longRun \in BOOLEAN : NextAttempt(i, longRun) \in Nat
    BY DEF NextAttempt
  <2>1. CASE StopAfterReturn(i)
    BY <2>1 DEF StopAfterReturn, Goto, SendDone, SupStates
  <2>2. CASE ExitUnsupervised(i)
    BY <2>2 DEF ExitUnsupervised, Goto, SupStates
  <2>3. CASE Retry(i)
    BY <2>0, <2>3 DEF Retry, Goto, SupStates
  <2>4. CASE Exhaust(i)
    BY <2>0, <2>4 DEF Exhaust, Goto, SupStates
  <2>5. CASE DeliverGiveUp(i)
    BY <2>5 DEF DeliverGiveUp, Goto, SendDone, SupStates
  <2>6. CASE ReportExit(i)
    <3>1. [svc |-> i, err |-> ret[i]] \in Exit
      BY DEF Exit
    <3> QED BY <2>6, <3>1 DEF ReportExit, Goto, SupStates
  <2>7. CASE QuitBackoff(i)
    BY <2>7 DEF QuitBackoff, Goto, SendDone, SupStates, Results
  <2>8. CASE BackoffElapsed(i)
    BY <2>8 DEF BackoffElapsed, Goto, SupStates
  <2> QED BY <1>2, <2>1, <2>2, <2>3, <2>4, <2>5, <2>6, <2>7, <2>8 DEF Supervisor
<1>3. ASSUME AnyHost PROVE SupTypeOK'
  <2>1. ASSUME NEW i \in Services, Launch(i) PROVE SupTypeOK'
    BY <2>1 DEF Launch, Goto, SupStates
  <2>2. ASSUME NEW i \in Services, Cancel(i) PROVE SupTypeOK'
    BY <2>2 DEF Cancel
  <2>3. CASE CloseStopping
    BY <2>3 DEF CloseStopping
  <2>4. CASE TakeExit
    BY <2>4 DEF TakeExit
  <2> QED BY <1>3, <2>1, <2>2, <2>3, <2>4 DEF AnyHost
<1>4. CASE UNCHANGED supVars
  BY <1>4 DEF supVars
<1> QED BY <1>1, <1>2, <1>3, <1>4 DEF SupNext

\* The types of the supervisors' state: in particular only Readiers signal
\* readiness, and only services that were registered appear in exits.
THEOREM SupTypes == SupSpec => []SupTypeOK
BY SupTypesInit, SupTypesStep, PTL DEF SupSpec

-----------------------------------------------------------------------------
\* done holds a result exactly when the goroutine will never call Start again:
\* stopAll can rely on it to learn that a service has stopped.
THEOREM FinalResults == SupSpec => []DoneIsFinal
<1>1. SupInit => DoneIsFinal
  BY DEF SupInit, DoneIsFinal
<1>2. SupTypeOK /\ DoneIsFinal /\ [SupNext]_supVars => DoneIsFinal'
  <2> SUFFICES ASSUME SupTypeOK, DoneIsFinal, [SupNext]_supVars,
                      NEW j \in Services
               PROVE  (done[j] # "empty" <=> sup[j] \in {"exitSend", "end"})'
    BY DEF DoneIsFinal
  <2>0. /\ done[j] # "empty" <=> sup[j] \in {"exitSend", "end"}
        /\ done \in [Services -> Results \cup {"empty"}]
        /\ sup \in [Services -> SupStates]
        /\ ret \in [Services -> Results]
    BY DEF DoneIsFinal, SupTypeOK
  <2>1. ASSUME NEW i \in Services, Service(i) PROVE (done[j] # "empty" <=> sup[j] \in {"exitSend", "end"})'
    BY <2>0, <2>1 DEF Service, BeginStart, BecomeReady, ReturnFromStart, Goto
  <2>2. ASSUME NEW i \in Services, Supervisor(i) PROVE (done[j] # "empty" <=> sup[j] \in {"exitSend", "end"})'
    <3>1. CASE StopAfterReturn(i) \/ DeliverGiveUp(i) \/ QuitBackoff(i)
      BY <2>0, <3>1 DEF StopAfterReturn, DeliverGiveUp, QuitBackoff, SendDone, Goto, Results
    <3>2. CASE ExitUnsupervised(i) \/ Retry(i) \/ Exhaust(i) \/ ReportExit(i) \/ BackoffElapsed(i)
      BY <2>0, <3>2 DEF ExitUnsupervised, Retry, Exhaust, ReportExit, BackoffElapsed, Goto
    <3> QED BY <2>2, <3>1, <3>2 DEF Supervisor
  <2>3. ASSUME AnyHost PROVE (done[j] # "empty" <=> sup[j] \in {"exitSend", "end"})'
    BY <2>0, <2>3 DEF AnyHost, Launch, Cancel, CloseStopping, TakeExit, Goto
  <2>4. CASE UNCHANGED supVars
    BY <2>0, <2>4 DEF supVars
  <2> QED BY <2>1, <2>2, <2>3, <2>4 DEF SupNext
<1> QED BY SupTypes, <1>1, <1>2, PTL DEF SupSpec

-----------------------------------------------------------------------------
(* Starts after stoppingCh was closed.                                     *)

\* The strengthening: a late start is counted only while stopping, and the
\* goroutine that made it is on its way out, where AskedToStop catches it.
LateInv ==
  \A i \in Services :
    \/ lateStarts[i] = 0
    \/ lateStarts[i] = 1 /\ stopping /\ sup[i] \in {"run", "check", "end"}

\* After stoppingCh was closed a service is started at most once more, whatever
\* its restart policy says.
THEOREM LateStarts == SupSpec => []AtMostOneLateStart
<1>1. SupInit => LateInv
  BY DEF SupInit, LateInv
<1>2. SupTypeOK /\ LateInv /\ [SupNext]_supVars => LateInv'
  <2> DEFINE Late(i) ==
        \/ lateStarts[i] = 0
        \/ lateStarts[i] = 1 /\ stopping /\ sup[i] \in {"run", "check", "end"}
  <2> SUFFICES ASSUME SupTypeOK, LateInv, [SupNext]_supVars, NEW j \in Services
               PROVE  Late(j)'
    BY DEF LateInv
  <2>0. /\ Late(j)
        /\ lateStarts \in [Services -> Nat]
        /\ sup \in [Services -> SupStates]
        /\ stopping \in BOOLEAN
    BY DEF LateInv, SupTypeOK
  <2>1. ASSUME NEW i \in Services, Service(i) PROVE Late(j)'
    <3>1. CASE BeginStart(i)
      BY <2>0, <3>1 DEF BeginStart, Goto
    <3>2. CASE BecomeReady(i) \/ ReturnFromStart(i)
      BY <2>0, <3>2 DEF BecomeReady, ReturnFromStart, Goto
    <3> QED BY <2>1, <3>1, <3>2 DEF Service
  <2>2. ASSUME NEW i \in Services, Supervisor(i) PROVE Late(j)'
    <3>1. CASE StopAfterReturn(i) \/ DeliverGiveUp(i) \/ ReportExit(i) \/ QuitBackoff(i) \/ BackoffElapsed(i)
      BY <2>0, <3>1 DEF StopAfterReturn, DeliverGiveUp, ReportExit, QuitBackoff, BackoffElapsed, Goto
    <3>2. CASE ExitUnsupervised(i) \/ Retry(i) \/ Exhaust(i)
      BY <2>0, <3>2 DEF ExitUnsupervised, Retry, Exhaust, AskedToStop, Goto
    <3> QED BY <2>2, <3>1, <3>2 DEF Supervisor
  <2>3. ASSUME AnyHost PROVE Late(j)'
    BY <2>0, <2>3 DEF AnyHost, Launch, Cancel, CloseStopping, TakeExit, Goto
  <2>4. CASE UNCHANGED supVars
    BY <2>0, <2>4 DEF supVars
  <2> QED BY <2>1, <2>2, <2>3, <2>4 DEF SupNext
<1>3. LateInv => AtMostOneLateStart
  BY DEF LateInv, AtMostOneLateStart
<1> QED BY SupTypes, <1>1, <1>2, <1>3, PTL DEF SupSpec

-----------------------------------------------------------------------------
(* Restart policies.                                                       *)

\* The strengthening: until a supervised service gives up, its counter is
\* within the policy; from then on it is one beyond it.
AttemptsInv ==
  \A i \in Supervised :
    /\ sup[i] \in {"none", "begin", "run", "check", "backoff"} => attempts[i] <= MaxAttempts[i]
    /\ sup[i] \in {"giveUp", "exitSend"} => UsedUp(i)

\* A supervised service gives up only when a limited policy is used up, with
\* exactly one attempt too many.
THEOREM PolicyKept == SupSpec => []OnlyExhaustedGiveUp
<1> USE ServicesAssumption DEF UsedUp
<1>1. SupInit => AttemptsInv
  BY DEF SupInit, AttemptsInv
<1>2. SupTypeOK /\ AttemptsInv /\ [SupNext]_supVars => AttemptsInv'
  <2> DEFINE Kept(i) ==
        /\ sup[i] \in {"none", "begin", "run", "check", "backoff"} => attempts[i] <= MaxAttempts[i]
        /\ sup[i] \in {"giveUp", "exitSend"} => UsedUp(i)
  <2> SUFFICES ASSUME SupTypeOK, AttemptsInv, [SupNext]_supVars, NEW j \in Supervised
               PROVE  Kept(j)'
    BY DEF AttemptsInv
  <2>0. /\ Kept(j)
        /\ j \in Services
        /\ MaxAttempts[j] \in Nat
        /\ attempts \in [Services -> Nat]
        /\ sup \in [Services -> SupStates]
    BY DEF AttemptsInv, SupTypeOK
  <2>1. ASSUME NEW i \in Services, Service(i) PROVE Kept(j)'
    BY <2>0, <2>1 DEF Service, BeginStart, BecomeReady, ReturnFromStart, Goto
  <2>2. ASSUME NEW i \in Services, Supervisor(i) PROVE Kept(j)'
    <3>1. CASE Retry(i)
      BY <2>0, <3>1 DEF Retry, NextAttempt, Exhausted, Goto
    <3>2. CASE Exhaust(i)
      BY <2>0, <3>2 DEF Exhaust, NextAttempt, Exhausted, Goto
    <3>3. CASE ExitUnsupervised(i)
      BY <2>0, <3>3 DEF ExitUnsupervised, Goto
    <3>4. CASE StopAfterReturn(i) \/ DeliverGiveUp(i) \/ ReportExit(i) \/ QuitBackoff(i) \/ BackoffElapsed(i)
      BY <2>0, <3>4 DEF StopAfterReturn, DeliverGiveUp, ReportExit, QuitBackoff, BackoffElapsed, Goto
    <3> QED BY <2>2, <3>1, <3>2, <3>3, <3>4 DEF Supervisor
  <2>3. ASSUME AnyHost PROVE Kept(j)'
    BY <2>0, <2>3 DEF AnyHost, Launch, Cancel, CloseStopping, TakeExit, Goto
  <2>4. CASE UNCHANGED supVars
    BY <2>0, <2>4 DEF supVars
  <2> QED BY <2>1, <2>2, <2>3, <2>4 DEF SupNext
<1>3. AttemptsInv => OnlyExhaustedGiveUp
  BY DEF AttemptsInv, OnlyExhaustedGiveUp
<1> QED BY SupTypes, <1>1, <1>2, <1>3, PTL DEF SupSpec

-----------------------------------------------------------------------------
(* The exits channel.                                                      *)

\* What is in exits: only goroutines that have ended, with the result they
\* delivered on done, their policy used up, and each of them once.
ExitsInv ==
  /\ \A i \in Services : sup[i] = "exitSend" => done[i] = ret[i]
  /\ \A k \in 1..Len(exits) :
       /\ sup[exits[k].svc] = "end"
       /\ done[exits[k].svc] = exits[k].err
       /\ exits[k].svc \in Supervised => UsedUp(exits[k].svc)
  /\ \A k, l \in 1..Len(exits) : exits[k].svc = exits[l].svc => k = l

LEMMA SeqElement ==
  ASSUME NEW S, NEW s \in Seq(S), NEW k \in 1..Len(s)
  PROVE  s[k] \in S
OBVIOUS

LEMMA ExitsElements ==
  SupTypeOK => \A k \in 1..Len(exits) : exits[k].svc \in Services /\ exits[k].err \in Results
<1> SUFFICES ASSUME SupTypeOK, NEW k \in 1..Len(exits)
             PROVE  exits[k].svc \in Services /\ exits[k].err \in Results
  OBVIOUS
<1>1. exits[k] \in Exit
  BY SeqElement DEF SupTypeOK
<1> QED BY <1>1 DEF Exit

\* The channel, when a step leaves it alone and unsettles no goroutine.
LEMMA ExitsKept ==
  ASSUME SupTypeOK, ExitsInv, exits' = exits,
         \A i \in Services : sup[i] = "end" =>
           sup'[i] = "end" /\ done'[i] = done[i] /\ attempts'[i] = attempts[i],
         \A i \in Services : sup'[i] = "exitSend" => done'[i] = ret'[i]
  PROVE  ExitsInv'
<1>1. \A k \in 1..Len(exits) : exits[k].svc \in Services
  BY ExitsElements
<1> QED BY <1>1 DEF ExitsInv, UsedUp

LEMMA ExitsStep == SupTypeOK /\ DoneIsFinal /\ OnlyExhaustedGiveUp /\ ExitsInv /\ [SupNext]_supVars => ExitsInv'
<1> SUFFICES ASSUME SupTypeOK, DoneIsFinal, OnlyExhaustedGiveUp, ExitsInv, [SupNext]_supVars PROVE ExitsInv'
  OBVIOUS
<1>0. /\ \A i \in Services : sup[i] = "exitSend" => done[i] = ret[i]
      /\ \A i \in Services : done[i] # "empty" <=> sup[i] \in {"exitSend", "end"}
      /\ sup \in [Services -> SupStates]
      /\ done \in [Services -> Results \cup {"empty"}]
      /\ ret \in [Services -> Results]
      /\ attempts \in [Services -> Nat]
  BY DEF ExitsInv, DoneIsFinal, SupTypeOK
<1> DEFINE Settles == /\ exits' = exits
                      /\ \A i \in Services : sup[i] = "end" =>
                           sup'[i] = "end" /\ done'[i] = done[i] /\ attempts'[i] = attempts[i]
                      /\ \A i \in Services : sup'[i] = "exitSend" => done'[i] = ret'[i]
<1>1. ASSUME NEW i \in Services, Service(i) PROVE Settles
  BY <1>0, <1>1 DEF Service, BeginStart, BecomeReady, ReturnFromStart, Goto
<1>2. ASSUME NEW i \in Services, Supervisor(i), ~ReportExit(i) PROVE Settles
  <2>1. CASE StopAfterReturn(i) \/ DeliverGiveUp(i) \/ QuitBackoff(i)
    BY <1>0, <2>1 DEF StopAfterReturn, DeliverGiveUp, QuitBackoff, SendDone, Goto
  <2>2. CASE ExitUnsupervised(i) \/ Retry(i) \/ Exhaust(i) \/ BackoffElapsed(i)
    BY <1>0, <2>2 DEF ExitUnsupervised, Retry, Exhaust, BackoffElapsed, Goto
  <2> QED BY <1>2, <2>1, <2>2 DEF Supervisor
<1>3. ASSUME AnyHost, ~TakeExit PROVE Settles
  BY <1>0, <1>3 DEF AnyHost, Launch, Cancel, CloseStopping, Goto
<1>4. ASSUME UNCHANGED supVars PROVE Settles
  BY <1>0, <1>4 DEF supVars
<1>5. ASSUME NEW i \in Services, ReportExit(i) PROVE ExitsInv'
  <2> DEFINE new == [svc |-> i, err |-> ret[i]]
  <2>1. /\ sup[i] = "exitSend"
        /\ sup' = [sup EXCEPT ![i] = "end"]
        /\ exits' = Append(exits, new)
        /\ UNCHANGED <<done, ret, attempts>>
    BY <1>5 DEF ReportExit, Goto
  <2>2. /\ exits \in Seq(Exit)
        /\ new \in Exit
    BY DEF SupTypeOK, Exit
  <2>3. /\ Len(exits') = Len(exits) + 1
        /\ \A k \in 1..Len(exits) : exits'[k] = exits[k]
        /\ exits'[Len(exits) + 1] = new
        /\ Len(exits) \in Nat
    BY <2>1, <2>2
  <2>4. \A k \in 1..Len(exits) :
          exits[k].svc \in Services /\ exits[k].svc # i /\ sup[exits[k].svc] = "end"
            /\ done[exits[k].svc] = exits[k].err
            /\ (exits[k].svc \in Supervised => UsedUp(exits[k].svc))
    BY <2>1, ExitsElements DEF ExitsInv
  <2>5. ASSUME NEW k \in 1..Len(exits')
        PROVE  /\ sup'[exits'[k].svc] = "end"
               /\ done'[exits'[k].svc] = exits'[k].err
               /\ exits'[k].svc \in Supervised => UsedUp(exits'[k].svc)
    <3>1. CASE k \in 1..Len(exits)
      BY <1>0, <2>1, <2>3, <2>4, <3>1
    <3>2. CASE k = Len(exits) + 1
      BY <1>0, <2>1, <2>3, <3>2 DEF OnlyExhaustedGiveUp
    <3> QED BY <2>3, <3>1, <3>2
  <2>6. \A k, l \in 1..Len(exits') : exits'[k].svc = exits'[l].svc => k = l
    BY <2>3, <2>4 DEF ExitsInv
  <2>7. \A j \in Services : sup'[j] = "exitSend" => done'[j] = ret'[j]
    BY <1>0, <2>1
  <2> QED BY <2>1, <2>5, <2>6, <2>7 DEF ExitsInv, UsedUp
<1>6. ASSUME TakeExit PROVE ExitsInv'
  <2>1. /\ exits \in Seq(Exit)
        /\ exits # <<>>
        /\ exits' = Tail(exits)
        /\ UNCHANGED <<sup, done, ret, attempts>>
    BY <1>6 DEF TakeExit, SupTypeOK
  <2>2. /\ Len(exits') = Len(exits) - 1
        /\ \A k \in 1..Len(exits') : k + 1 \in 1..Len(exits) /\ exits'[k] = exits[k + 1]
    BY <2>1
  <2> QED BY <2>1, <2>2 DEF ExitsInv, UsedUp
<1> QED BY <1>1, <1>2, <1>3, <1>4, <1>5, <1>6, ExitsKept DEF SupNext

\* What the host takes from exits is the final result of a supervisor that has
\* ended, once per supervisor, and only after its restart policy was used up.
THEOREM ExitsAccounted == SupSpec => []ExitsInv
<1>1. SupInit => ExitsInv
  BY DEF SupInit, ExitsInv
<1> QED BY SupTypes, FinalResults, PolicyKept, ExitsStep, <1>1, PTL DEF SupSpec

\* Whichever of its two channels the host reads, it learns the same of a
\* supervisor that gave up, and from exits only once (host.go:286-303).
THEOREM ExitsMatch == SupSpec => []ExitsMatchDone
<1>1. ExitsInv => ExitsMatchDone
  BY DEF ExitsInv, ExitsMatchDone
<1> QED BY ExitsAccounted, <1>1, PTL

\* A supervisor that gives up can always report it: exits has a free slot, even
\* if the host took its cause and never reads the channel again.
THEOREM ExitsRoom == SupSpec => []ExitsNeverBlock
<1>1. SupTypeOK /\ ExitsInv => ExitsNeverBlock
  <2> SUFFICES ASSUME SupTypeOK, ExitsInv, NEW i \in Services, sup[i] = "exitSend",
                      ~(Len(exits) < N)
               PROVE  FALSE
    BY DEF ExitsNeverBlock, ExitsCap
  <2>1. exits \in Seq(Exit) /\ Len(exits) \in Nat
    BY DEF SupTypeOK
  <2> DEFINE Slots == 1..Len(exits)
             Others == Services \ {i}
             Owner == [k \in Slots |-> exits[k].svc]
  <2>2. Owner \in [Slots -> Others]
    BY <2>1, ExitsElements DEF ExitsInv
  <2>3. IsFiniteSet(Slots) /\ Cardinality(Slots) = Len(exits)
    BY <2>1, FS_Interval
  <2>4. IsFiniteSet(Others) /\ Cardinality(Others) = N - 1
    <3>1. IsFiniteSet(Services) /\ Cardinality(Services) = N
      BY ServicesAssumption, FS_Interval DEF Services
    <3> QED BY <3>1, FS_RemoveElement
  <2>5. Cardinality(Others) < Cardinality(Slots)
    BY <2>1, <2>3, <2>4, ServicesAssumption
  <2>6. \E k, l \in Slots : k # l /\ Owner[k] = Owner[l]
    <3> HIDE DEF Slots, Others, Owner
    <3> QED BY <2>2, <2>3, <2>4, <2>5, FS_PigeonHole
  <2> QED BY <2>6 DEF ExitsInv
<1> QED BY SupTypes, ExitsAccounted, <1>1, PTL
=============================================================================
