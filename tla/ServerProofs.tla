---------------------------- MODULE ServerProofs ----------------------------
(***************************************************************************)
(* The server services, for any number of requests and of restarts: their  *)
(* types, the drain under the deadline, and the errors Start returns.      *)
(***************************************************************************)
EXTENDS Server, TLAPS

\* The parts of ServerTypeOK, by the steps that can disturb them.
StartTypes ==
  /\ start \in {"idle", "setup", "listen", "announce", "select", "wait", "backoff", "returned"}
  /\ ret \in {"none", "nil", "canceled", "err"}
  /\ srv \in {"none", "old", "current"}
  /\ addr \in BOOLEAN /\ ready \in BOOLEAN /\ (ready => addr)

ServeTypes ==
  /\ down \in BOOLEAN
  /\ serve \in {"none", "spawned", "serving", "sent"}
  /\ serveErr \in {"none", "closed", "nil", "err"}

StopTypes ==
  /\ cancelled \in BOOLEAN /\ late \in BOOLEAN
  /\ stop \in {"idle", "called", "drain", "force", "returned"}
  /\ stopRet \in {"none", "nil", "timeout", "err"}

CountTypes == starts \in 0..MaxStarts /\ conns \in 0..MaxConns

HistoryTypes == faulted \in BOOLEAN /\ cut \in BOOLEAN /\ missed \in BOOLEAN

\* Start stores its address before it announces itself, and while it is past
\* the announcement there is a goroutine that serves.
ServingInv ==
  /\ start \in {"select", "wait"} <=> serve # "none"
  /\ serve = "sent" => serveErr # "none"
  /\ start \in {"announce", "select", "wait"} => addr

ServerTypes == kind \in Kinds /\ StartTypes /\ ServeTypes /\ StopTypes /\ HistoryTypes
               /\ CountTypes /\ ServingInv

LEMMA ServerTypesInit == Init => ServerTypes
<1> SUFFICES ASSUME Init PROVE ServerTypes
  OBVIOUS
<1> USE ServerAssumption DEF Init
<1>1. kind \in Kinds /\ StartTypes
  BY DEF StartTypes
<1>2. ServeTypes
  BY DEF ServeTypes
<1>3. StopTypes /\ HistoryTypes
  BY DEF StopTypes, HistoryTypes
<1>4. ServingInv
  BY DEF ServingInv
<1>5. CountTypes
  BY DEF CountTypes
<1> QED
  BY <1>1, <1>2, <1>3, <1>4, <1>5 DEF ServerTypes

LEMMA ServerTypesStep == ServerTypes /\ [Next]_vars => ServerTypes'
<1> SUFFICES ASSUME ServerTypes, [Next]_vars PROVE ServerTypes'
  OBVIOUS
<1> USE ServerAssumption DEF startVars, serverVars, stopVars
<1>0. CASE BackOff \/ EndBackOff
  <2>1. kind' \in Kinds /\ StartTypes'
    BY <1>0 DEF BackOff, EndBackOff, ServerTypes, StartTypes, ServingInv
  <2>2. ServeTypes'
    BY <1>0 DEF BackOff, EndBackOff, ServerTypes, ServeTypes
  <2>3. StopTypes' /\ HistoryTypes'
    BY <1>0 DEF BackOff, EndBackOff, ServerTypes, StopTypes, HistoryTypes
  <2>4. ServingInv'
    BY <1>0 DEF BackOff, EndBackOff, ServerTypes, ServingInv
  <2>5. CountTypes'
    BY <1>0 DEF BackOff, EndBackOff, ServerTypes, CountTypes
  <2> QED
    BY <2>1, <2>2, <2>3, <2>4, <2>5 DEF ServerTypes
<1>1. CASE CallStart
  <2>1. kind' \in Kinds /\ StartTypes'
    BY <1>1 DEF CallStart, ServerTypes, StartTypes, ServingInv
  <2>2. ServeTypes'
    BY <1>1 DEF CallStart, ServerTypes, ServeTypes
  <2>3. StopTypes' /\ HistoryTypes'
    <3>1. missed' \in BOOLEAN
      <4>1. CASE kind = "gateway"
        <5>1. missed' = (stop \in {"drain", "returned"})
          BY <1>1, <4>1, SMT DEF CallStart
        <5> QED
          BY <5>1, SMT
      <4>2. CASE kind # "gateway"
        BY <1>1, <4>2 DEF CallStart, ServerTypes, HistoryTypes
      <4> QED
        BY <4>1, <4>2
    <3> QED
      BY <1>1, <3>1 DEF CallStart, ServerTypes, StopTypes, HistoryTypes
  <2>4. ServingInv'
    BY <1>1 DEF CallStart, ServerTypes, ServingInv
  <2>5. CountTypes'
    BY <1>1 DEF CallStart, ServerTypes, CountTypes
  <2> QED
    BY <2>1, <2>2, <2>3, <2>4, <2>5 DEF ServerTypes
<1>2. CASE SetUp
  <2>1. kind' \in Kinds /\ StartTypes'
    BY <1>2 DEF SetUp, Return, ServerTypes, StartTypes, ServingInv
  <2>2. ServeTypes'
    BY <1>2 DEF SetUp, Return, ServerTypes, ServeTypes
  <2>3. StopTypes' /\ HistoryTypes'
    BY <1>2 DEF SetUp, Return, ServerTypes, StopTypes, HistoryTypes
  <2>4. ServingInv'
    BY <1>2 DEF SetUp, Return, ServerTypes, ServingInv
  <2>5. CountTypes'
    BY <1>2 DEF SetUp, Return, ServerTypes, CountTypes
  <2> QED
    BY <2>1, <2>2, <2>3, <2>4, <2>5 DEF ServerTypes
<1>3. CASE Listen
  <2>1. kind' \in Kinds /\ StartTypes'
    BY <1>3 DEF Listen, Return, StoreAddr, ServerTypes, StartTypes, ServingInv
  <2>2. ServeTypes'
    BY <1>3 DEF Listen, Return, StoreAddr, ServerTypes, ServeTypes
  <2>3. StopTypes' /\ HistoryTypes'
    BY <1>3 DEF Listen, Return, StoreAddr, ServerTypes, StopTypes, HistoryTypes
  <2>4. ServingInv'
    BY <1>3 DEF Listen, Return, StoreAddr, ServerTypes, ServingInv
  <2>5. CountTypes'
    BY <1>3 DEF Listen, Return, StoreAddr, ServerTypes, CountTypes
  <2> QED
    BY <2>1, <2>2, <2>3, <2>4, <2>5 DEF ServerTypes
<1>4. CASE Announce
  <2>1. kind' \in Kinds /\ StartTypes'
    BY <1>4 DEF Announce, ServerTypes, StartTypes, ServingInv
  <2>2. ServeTypes'
    BY <1>4 DEF Announce, ServerTypes, ServeTypes
  <2>3. StopTypes' /\ HistoryTypes'
    BY <1>4 DEF Announce, ServerTypes, StopTypes, HistoryTypes
  <2>4. ServingInv'
    BY <1>4 DEF Announce, ServerTypes, ServingInv
  <2>5. CountTypes'
    BY <1>4 DEF Announce, ServerTypes, CountTypes
  <2> QED
    BY <2>1, <2>2, <2>3, <2>4, <2>5 DEF ServerTypes
<1>5. CASE SeeCancel
  <2>1. kind' \in Kinds /\ StartTypes'
    BY <1>5 DEF SeeCancel, ServerTypes, StartTypes, ServingInv
  <2>2. ServeTypes'
    BY <1>5 DEF SeeCancel, ServerTypes, ServeTypes
  <2>3. StopTypes' /\ HistoryTypes'
    BY <1>5 DEF SeeCancel, ServerTypes, StopTypes, HistoryTypes
  <2>4. ServingInv'
    BY <1>5 DEF SeeCancel, ServerTypes, ServingInv
  <2>5. CountTypes'
    BY <1>5 DEF SeeCancel, ServerTypes, CountTypes
  <2> QED
    BY <2>1, <2>2, <2>3, <2>4, <2>5 DEF ServerTypes
<1>6. CASE TakeServeErr
  <2>1. kind' \in Kinds /\ StartTypes'
    BY <1>6 DEF TakeServeErr, Return, Graceful, ServerTypes, StartTypes, ServingInv
  <2>2. ServeTypes'
    BY <1>6 DEF TakeServeErr, Return, Graceful, ServerTypes, ServeTypes
  <2>3. StopTypes' /\ HistoryTypes'
    BY <1>6 DEF TakeServeErr, Return, Graceful, ServerTypes, StopTypes, HistoryTypes
  <2>4. ServingInv'
    BY <1>6 DEF TakeServeErr, Return, Graceful, ServerTypes, ServingInv
  <2>5. CountTypes'
    BY <1>6 DEF TakeServeErr, Return, Graceful, ServerTypes, CountTypes
  <2> QED
    BY <2>1, <2>2, <2>3, <2>4, <2>5 DEF ServerTypes
<1>7. CASE BeginServe
  <2>1. kind' \in Kinds /\ StartTypes'
    BY <1>7 DEF BeginServe, SendServeErr, ServerTypes, StartTypes, ServingInv
  <2>2. ServeTypes'
    BY <1>7 DEF BeginServe, SendServeErr, ServerTypes, ServeTypes
  <2>3. StopTypes' /\ HistoryTypes'
    BY <1>7 DEF BeginServe, SendServeErr, ServerTypes, StopTypes, HistoryTypes
  <2>4. ServingInv'
    BY <1>7 DEF BeginServe, SendServeErr, ServerTypes, ServingInv
  <2>5. CountTypes'
    BY <1>7 DEF BeginServe, SendServeErr, ServerTypes, CountTypes
  <2> QED
    BY <2>1, <2>2, <2>3, <2>4, <2>5 DEF ServerTypes
<1>8. CASE Accept
  <2>1. kind' \in Kinds /\ StartTypes'
    BY <1>8 DEF Accept, ServerTypes, StartTypes, ServingInv
  <2>2. ServeTypes'
    BY <1>8 DEF Accept, ServerTypes, ServeTypes
  <2>3. StopTypes' /\ HistoryTypes'
    BY <1>8 DEF Accept, ServerTypes, StopTypes, HistoryTypes
  <2>4. ServingInv'
    BY <1>8 DEF Accept, ServerTypes, ServingInv
  <2>5. CountTypes'
    BY <1>8 DEF Accept, ServerTypes, CountTypes
  <2> QED
    BY <2>1, <2>2, <2>3, <2>4, <2>5 DEF ServerTypes
<1>9. CASE RequestEnds
  <2>1. kind' \in Kinds /\ StartTypes'
    BY <1>9 DEF RequestEnds, ServerTypes, StartTypes, ServingInv
  <2>2. ServeTypes'
    BY <1>9 DEF RequestEnds, ServerTypes, ServeTypes
  <2>3. StopTypes' /\ HistoryTypes'
    BY <1>9 DEF RequestEnds, ServerTypes, StopTypes, HistoryTypes
  <2>4. ServingInv'
    BY <1>9 DEF RequestEnds, ServerTypes, ServingInv
  <2>5. CountTypes'
    BY <1>9 DEF RequestEnds, ServerTypes, CountTypes
  <2> QED
    BY <2>1, <2>2, <2>3, <2>4, <2>5 DEF ServerTypes
<1>10. CASE AcceptFails
  <2>1. kind' \in Kinds /\ StartTypes'
    BY <1>10 DEF AcceptFails, SendServeErr, ServerTypes, StartTypes, ServingInv
  <2>2. ServeTypes'
    BY <1>10 DEF AcceptFails, SendServeErr, ServerTypes, ServeTypes
  <2>3. StopTypes' /\ HistoryTypes'
    BY <1>10 DEF AcceptFails, SendServeErr, ServerTypes, StopTypes, HistoryTypes
  <2>4. ServingInv'
    BY <1>10 DEF AcceptFails, SendServeErr, ServerTypes, ServingInv
  <2>5. CountTypes'
    BY <1>10 DEF AcceptFails, SendServeErr, ServerTypes, CountTypes
  <2> QED
    BY <2>1, <2>2, <2>3, <2>4, <2>5 DEF ServerTypes
<1>11. CASE EndServe
  <2>1. kind' \in Kinds /\ StartTypes'
    BY <1>11 DEF EndServe, SendServeErr, ServerTypes, StartTypes, ServingInv
  <2>2. ServeTypes'
    BY <1>11 DEF EndServe, SendServeErr, ServerTypes, ServeTypes
  <2>3. StopTypes' /\ HistoryTypes'
    BY <1>11 DEF EndServe, SendServeErr, ServerTypes, StopTypes, HistoryTypes
  <2>4. ServingInv'
    BY <1>11 DEF EndServe, SendServeErr, ServerTypes, ServingInv
  <2>5. CountTypes'
    BY <1>11 DEF EndServe, SendServeErr, ServerTypes, CountTypes
  <2> QED
    BY <2>1, <2>2, <2>3, <2>4, <2>5 DEF ServerTypes
<1>12. CASE Cancel
  <2>1. kind' \in Kinds /\ StartTypes'
    BY <1>12 DEF Cancel, ServerTypes, StartTypes, ServingInv
  <2>2. ServeTypes'
    BY <1>12 DEF Cancel, ServerTypes, ServeTypes
  <2>3. StopTypes' /\ HistoryTypes'
    BY <1>12 DEF Cancel, ServerTypes, StopTypes, HistoryTypes
  <2>4. ServingInv'
    BY <1>12 DEF Cancel, ServerTypes, ServingInv
  <2>5. CountTypes'
    BY <1>12 DEF Cancel, ServerTypes, CountTypes
  <2> QED
    BY <2>1, <2>2, <2>3, <2>4, <2>5 DEF ServerTypes
<1>13. CASE CallStop
  <2>1. kind' \in Kinds /\ StartTypes'
    BY <1>13 DEF CallStop, ServerTypes, StartTypes, ServingInv
  <2>2. ServeTypes'
    BY <1>13 DEF CallStop, ServerTypes, ServeTypes
  <2>3. StopTypes' /\ HistoryTypes'
    BY <1>13 DEF CallStop, ServerTypes, StopTypes, HistoryTypes
  <2>4. ServingInv'
    BY <1>13 DEF CallStop, ServerTypes, ServingInv
  <2>5. CountTypes'
    BY <1>13 DEF CallStop, ServerTypes, CountTypes
  <2> QED
    BY <2>1, <2>2, <2>3, <2>4, <2>5 DEF ServerTypes
<1>14. CASE Deadline
  <2>1. kind' \in Kinds /\ StartTypes'
    BY <1>14 DEF Deadline, ServerTypes, StartTypes, ServingInv
  <2>2. ServeTypes'
    BY <1>14 DEF Deadline, ServerTypes, ServeTypes
  <2>3. StopTypes' /\ HistoryTypes'
    BY <1>14 DEF Deadline, ServerTypes, StopTypes, HistoryTypes
  <2>4. ServingInv'
    BY <1>14 DEF Deadline, ServerTypes, ServingInv
  <2>5. CountTypes'
    BY <1>14 DEF Deadline, ServerTypes, CountTypes
  <2> QED
    BY <2>1, <2>2, <2>3, <2>4, <2>5 DEF ServerTypes
<1>15. CASE BeginStop
  <2>1. kind' \in Kinds /\ StartTypes'
    BY <1>15 DEF BeginStop, StopReturns, ShutDown, ServerTypes, StartTypes, ServingInv
  <2>2. ServeTypes'
    BY <1>15 DEF BeginStop, StopReturns, ShutDown, ServerTypes, ServeTypes
  <2>3. StopTypes' /\ HistoryTypes'
    BY <1>15 DEF BeginStop, StopReturns, ShutDown, ServerTypes, StopTypes, HistoryTypes
  <2>4. ServingInv'
    BY <1>15 DEF BeginStop, StopReturns, ShutDown, ServerTypes, ServingInv
  <2>5. CountTypes'
    BY <1>15 DEF BeginStop, StopReturns, ShutDown, ServerTypes, CountTypes
  <2> QED
    BY <2>1, <2>2, <2>3, <2>4, <2>5 DEF ServerTypes
<1>16. CASE Drained
  <2>1. kind' \in Kinds /\ StartTypes'
    BY <1>16 DEF Drained, StopReturns, ServerTypes, StartTypes, ServingInv
  <2>2. ServeTypes'
    BY <1>16 DEF Drained, StopReturns, ServerTypes, ServeTypes
  <2>3. StopTypes' /\ HistoryTypes'
    BY <1>16 DEF Drained, StopReturns, ServerTypes, StopTypes, HistoryTypes
  <2>4. ServingInv'
    BY <1>16 DEF Drained, StopReturns, ServerTypes, ServingInv
  <2>5. CountTypes'
    BY <1>16 DEF Drained, StopReturns, ServerTypes, CountTypes
  <2> QED
    BY <2>1, <2>2, <2>3, <2>4, <2>5 DEF ServerTypes
<1>17. CASE ForceClose
  <2>1. kind' \in Kinds /\ StartTypes'
    BY <1>17 DEF ForceClose, StopReturns, ConnsClosed, ServerTypes, StartTypes, ServingInv
  <2>2. ServeTypes'
    BY <1>17 DEF ForceClose, StopReturns, ConnsClosed, ServerTypes, ServeTypes
  <2>3. StopTypes' /\ HistoryTypes'
    BY <1>17 DEF ForceClose, StopReturns, ConnsClosed, ServerTypes, StopTypes, HistoryTypes
  <2>4. ServingInv'
    BY <1>17 DEF ForceClose, StopReturns, ConnsClosed, ServerTypes, ServingInv
  <2>5. CountTypes'
    BY <1>17 DEF ForceClose, StopReturns, ConnsClosed, ServerTypes, CountTypes
  <2> QED
    BY <2>1, <2>2, <2>3, <2>4, <2>5 DEF ServerTypes
<1>18. CASE HandlersDone
  <2>1. kind' \in Kinds /\ StartTypes'
    BY <1>18 DEF HandlersDone, StopReturns, ServerTypes, StartTypes, ServingInv
  <2>2. ServeTypes'
    BY <1>18 DEF HandlersDone, StopReturns, ServerTypes, ServeTypes
  <2>3. StopTypes' /\ HistoryTypes'
    BY <1>18 DEF HandlersDone, StopReturns, ServerTypes, StopTypes, HistoryTypes
  <2>4. ServingInv'
    BY <1>18 DEF HandlersDone, StopReturns, ServerTypes, ServingInv
  <2>5. CountTypes'
    BY <1>18 DEF HandlersDone, StopReturns, ServerTypes, CountTypes
  <2> QED
    BY <2>1, <2>2, <2>3, <2>4, <2>5 DEF ServerTypes
<1>19. CASE UNCHANGED vars
  <2>1. kind' \in Kinds /\ StartTypes'
    BY <1>19 DEF vars, ServerTypes, StartTypes, ServingInv
  <2>2. ServeTypes'
    BY <1>19 DEF vars, ServerTypes, ServeTypes
  <2>3. StopTypes' /\ HistoryTypes'
    BY <1>19 DEF vars, ServerTypes, StopTypes, HistoryTypes
  <2>4. ServingInv'
    BY <1>19 DEF vars, ServerTypes, ServingInv
  <2>5. CountTypes'
    BY <1>19 DEF vars, ServerTypes, CountTypes
  <2> QED
    BY <2>1, <2>2, <2>3, <2>4, <2>5 DEF ServerTypes
<1> QED
  BY <1>0, <1>1, <1>2, <1>3, <1>4, <1>5, <1>6, <1>7, <1>8, <1>9,
     <1>10, <1>11, <1>12, <1>13, <1>14, <1>15, <1>16, <1>17, <1>18, <1>19
  DEF Next, StartStep, ServeStep, StopStep

\* The state keeps its types, and who has seen Ready finds an address in Addr
\* (httpsvc.go:55-75).
THEOREM ServerTyped == Spec => []ServerTypeOK
<1>1. ServerTypes => ServerTypeOK
  BY DEF ServerTypes, StartTypes, ServeTypes, StopTypes, HistoryTypes, CountTypes, ServerTypeOK
<1> QED
  BY <1>1, ServerTypesInit, ServerTypesStep, PTL DEF Spec

-----------------------------------------------------------------------------
(* Stop and the drain.                                                     *)

\* Stop comes after the cancellation, and unless a Start has given the
\* service another server since, it has the one of this Start, shut down.
StopInv ==
  /\ stop # "idle" => cancelled
  /\ down => cancelled
  /\ start = "setup" => kind = "gateway"
  /\ kind = "gateway" /\ start \in {"idle", "setup"} => srv # "current"
  /\ stopRet # "none" <=> stop = "returned"
  /\ stop = "force" => kind = "grpc"
  /\ missed => stop \in {"drain", "force", "returned"}
  /\ stop \in {"drain", "force", "returned"} /\ ~missed => down /\ srv = "current"

LEMMA StopInvInit == Init => StopInv
  BY DEF Init, StopInv

LEMMA StopInvStep == StopInv /\ StopTypes /\ [Next]_vars => StopInv'
<1> SUFFICES ASSUME StopInv, StopTypes, [Next]_vars PROVE StopInv'
  OBVIOUS
<1> USE DEF StopInv, StopTypes, startVars, serverVars, stopVars
<1>0. CASE BackOff \/ EndBackOff
  BY <1>0 DEF BackOff, EndBackOff
<1>1. CASE CallStart
  BY <1>1 DEF CallStart
<1>2. CASE SetUp
  BY <1>2 DEF SetUp, Return
<1>3. CASE Listen
  BY <1>3 DEF Listen, Return, StoreAddr
<1>4. CASE Announce
  BY <1>4 DEF Announce
<1>5. CASE SeeCancel
  BY <1>5 DEF SeeCancel
<1>6. CASE TakeServeErr
  BY <1>6 DEF TakeServeErr, Return, Graceful
<1>7. CASE BeginServe
  BY <1>7 DEF BeginServe, SendServeErr
<1>8. CASE Accept
  BY <1>8 DEF Accept
<1>9. CASE RequestEnds
  BY <1>9 DEF RequestEnds
<1>10. CASE AcceptFails
  BY <1>10 DEF AcceptFails, SendServeErr
<1>11. CASE EndServe
  BY <1>11 DEF EndServe, SendServeErr
<1>12. CASE Cancel
  BY <1>12 DEF Cancel
<1>13. CASE CallStop
  BY <1>13 DEF CallStop
<1>14. CASE Deadline
  BY <1>14 DEF Deadline
<1>15. CASE BeginStop
  BY <1>15 DEF BeginStop, StopReturns, ShutDown
<1>16. CASE Drained
  BY <1>16 DEF Drained, StopReturns
<1>17. CASE ForceClose
  BY <1>17 DEF ForceClose, StopReturns, ConnsClosed, GraceOver
<1>18. CASE HandlersDone
  BY <1>18 DEF HandlersDone, StopReturns
<1>19. CASE UNCHANGED vars
  BY <1>19 DEF vars
<1> QED
  BY <1>0, <1>1, <1>2, <1>3, <1>4, <1>5, <1>6, <1>7, <1>8, <1>9,
     <1>10, <1>11, <1>12, <1>13, <1>14, <1>15, <1>16, <1>17, <1>18, <1>19
  DEF Next, StartStep, ServeStep, StopStep

\* DrainHonoured with the moment of the cut: Stop returns then, or waits for
\* the handlers of grpc.
DrainInv ==
  /\ cut => late /\ (stop = "force" \/ (stop = "returned" /\ stopRet = "timeout"))
  /\ stop = "returned" /\ ~missed => conns = 0

LEMMA DrainInvInit == Init => DrainInv
  BY DEF Init, DrainInv

LEMMA DrainInvStep == DrainInv /\ StopInv /\ CountTypes /\ [Next]_vars => DrainInv'
<1> SUFFICES ASSUME DrainInv, StopInv, CountTypes, [Next]_vars PROVE DrainInv'
  OBVIOUS
<1> USE DEF DrainInv, StopInv, CountTypes, startVars, serverVars, stopVars
<1>0. CASE BackOff \/ EndBackOff
  BY <1>0 DEF BackOff, EndBackOff
<1>1. CASE CallStart
  BY <1>1 DEF CallStart
<1>2. CASE SetUp
  BY <1>2 DEF SetUp, Return
<1>3. CASE Listen
  BY <1>3 DEF Listen, Return, StoreAddr
<1>4. CASE Announce
  BY <1>4 DEF Announce
<1>5. CASE SeeCancel
  BY <1>5 DEF SeeCancel
<1>6. CASE TakeServeErr
  BY <1>6 DEF TakeServeErr, Return, Graceful
<1>7. CASE BeginServe
  BY <1>7 DEF BeginServe, SendServeErr
<1>8. CASE Accept
  BY <1>8 DEF Accept
<1>9. CASE RequestEnds
  BY <1>9 DEF RequestEnds
<1>10. CASE AcceptFails
  BY <1>10 DEF AcceptFails, SendServeErr
<1>11. CASE EndServe
  BY <1>11 DEF EndServe, SendServeErr
<1>12. CASE Cancel
  BY <1>12 DEF Cancel
<1>13. CASE CallStop
  BY <1>13 DEF CallStop
<1>14. CASE Deadline
  BY <1>14 DEF Deadline
<1>15. CASE BeginStop
  BY <1>15 DEF BeginStop, StopReturns, ShutDown
<1>16. CASE Drained
  BY <1>16 DEF Drained, StopReturns
<1>17. CASE ForceClose
  BY <1>17 DEF ForceClose, StopReturns, ConnsClosed, GraceOver
<1>18. CASE HandlersDone
  BY <1>18 DEF HandlersDone, StopReturns
<1>19. CASE UNCHANGED vars
  BY <1>19 DEF vars
<1> QED
  BY <1>0, <1>1, <1>2, <1>3, <1>4, <1>5, <1>6, <1>7, <1>8, <1>9,
     <1>10, <1>11, <1>12, <1>13, <1>14, <1>15, <1>16, <1>17, <1>18, <1>19
  DEF Next, StartStep, ServeStep, StopStep

LEMMA DrainKept == Spec => [](ServerTypes /\ StopInv /\ DrainInv)
<1>1. ServerTypes => StopTypes /\ CountTypes
  BY DEF ServerTypes
<1> QED
  BY <1>1, ServerTypesInit, ServerTypesStep, StopInvInit, StopInvStep, DrainInvInit, DrainInvStep,
     PTL DEF Spec

\* A request in flight is cut off only after the deadline of Stop, Stop
\* reports it, and grpc's waits for its handlers (httpsvc.go:98-108,
\* grpcsvc.go:104-118).
THEOREM DrainIsHonoured == Spec => []DrainHonoured
<1>1. DrainInv => DrainHonoured
  BY DEF DrainInv, DrainHonoured
<1> QED
  BY <1>1, DrainKept, PTL

\* After Stop the number of requests in flight never grows: the Start that
\* comes late to serve finds its server shut down.
THEOREM NothingAccepted == Spec => NothingAcceptedAfterStop
<1>1. StopInv /\ CountTypes /\ [Next]_vars
        => [stop = "returned" /\ ~missed => conns' <= conns]_vars
  <2> SUFFICES ASSUME StopInv, CountTypes, Next, stop = "returned", ~missed
               PROVE  conns' <= conns
    BY DEF vars, startVars, serverVars, stopVars
  <2> USE DEF StopInv, CountTypes, startVars, serverVars, stopVars
  <2>1. conns' = conns \/ conns' = conns - 1 \/ conns' = 0
    <3>1. CASE StartStep
      BY <3>1 DEF StartStep, BackOff, EndBackOff, CallStart, SetUp, Listen, Announce, SeeCancel, TakeServeErr
    <3>2. CASE ServeStep
      BY <3>2 DEF ServeStep, BeginServe, Accept, RequestEnds, AcceptFails, EndServe
    <3>3. CASE StopStep
      BY <3>3 DEF StopStep, Cancel, CallStop, Deadline, BeginStop, Drained, ForceClose, ConnsClosed,
                  HandlersDone
    <3> QED
      BY <3>1, <3>2, <3>3 DEF Next
  <2> QED
    BY <2>1
<1>2. ServerTypes => CountTypes
  BY DEF ServerTypes
<1> QED
  BY <1>1, <1>2, DrainKept, PTL DEF Spec, NothingAcceptedAfterStop

-----------------------------------------------------------------------------
(* The errors of Start.                                                    *)

\* Start has returned, and may be restarted.
Over == start \in {"backoff", "returned"}

\* The error on its way: what Serve sent is an error exactly when this Start
\* met a failure, and anything else means that the server was shut down.
FaultInv ==
  /\ faulted => Over \/ serve = "sent"
  /\ serve = "sent" => (serveErr = "err" <=> faulted)
  /\ serve = "sent" /\ serveErr # "err" => down
  /\ Over => (ret = "err" <=> faulted)
  /\ Over /\ ret # "err" => cancelled

LEMMA FaultInvInit == Init => FaultInv
  BY DEF Init, FaultInv, Over

LEMMA FaultInvStep == FaultInv /\ StopInv /\ ServingInv /\ ServeTypes /\ HistoryTypes /\ [Next]_vars => FaultInv'
<1> SUFFICES ASSUME FaultInv, StopInv, ServingInv, ServeTypes, HistoryTypes, [Next]_vars PROVE FaultInv'
  OBVIOUS
<1> USE DEF FaultInv, Over, StopInv, ServingInv, ServeTypes, HistoryTypes, startVars, serverVars, stopVars
<1>0. CASE BackOff \/ EndBackOff
  BY <1>0 DEF BackOff, EndBackOff
<1>1. CASE CallStart
  BY <1>1 DEF CallStart
<1>2. CASE SetUp
  BY <1>2 DEF SetUp, Return
<1>3. CASE Listen
  BY <1>3 DEF Listen, Return, StoreAddr
<1>4. CASE Announce
  BY <1>4 DEF Announce
<1>5. CASE SeeCancel
  BY <1>5 DEF SeeCancel
<1>6. CASE TakeServeErr
  BY <1>6 DEF TakeServeErr, Return, Graceful
<1>7. CASE BeginServe
  BY <1>7 DEF BeginServe, SendServeErr
<1>8. CASE Accept
  BY <1>8 DEF Accept
<1>9. CASE RequestEnds
  BY <1>9 DEF RequestEnds
<1>10. CASE AcceptFails
  BY <1>10 DEF AcceptFails, SendServeErr
<1>11. CASE EndServe
  BY <1>11 DEF EndServe, SendServeErr
<1>12. CASE Cancel
  BY <1>12 DEF Cancel
<1>13. CASE CallStop
  BY <1>13 DEF CallStop
<1>14. CASE Deadline
  BY <1>14 DEF Deadline
<1>15. CASE BeginStop
  BY <1>15 DEF BeginStop, StopReturns, ShutDown
<1>16. CASE Drained
  BY <1>16 DEF Drained, StopReturns
<1>17. CASE ForceClose
  BY <1>17 DEF ForceClose, StopReturns, ConnsClosed, GraceOver
<1>18. CASE HandlersDone
  BY <1>18 DEF HandlersDone, StopReturns
<1>19. CASE UNCHANGED vars
  BY <1>19 DEF vars
<1> QED
  BY <1>0, <1>1, <1>2, <1>3, <1>4, <1>5, <1>6, <1>7, <1>8, <1>9,
     <1>10, <1>11, <1>12, <1>13, <1>14, <1>15, <1>16, <1>17, <1>18, <1>19
  DEF Next, StartStep, ServeStep, StopStep

\* Start returns an error exactly when the network or a handler failed, and
\* no error only after the host cancelled it (httpsvc.go:69-94).
THEOREM CleanExits == Spec => []CleanExitIffNoFault
<1>1. FaultInv => CleanExitIffNoFault
  BY DEF FaultInv, Over, CleanExitIffNoFault
<1>2. ServerTypes => ServingInv /\ ServeTypes /\ HistoryTypes
  BY DEF ServerTypes
<1> QED
  BY <1>1, <1>2, DrainKept, FaultInvInit, FaultInvStep, PTL DEF Spec
=============================================================================
