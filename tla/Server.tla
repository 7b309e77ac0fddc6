------------------------------- MODULE Server -------------------------------
(***************************************************************************)
(* The server services of shost: httpsvc, grpcsvc and grpcgw.  Each wraps  *)
(* a server of a library in a Service: Start listens and waits for the     *)
(* goroutine that serves, Stop drains the server under the host's          *)
(* deadline, and the two run at the same time, on goroutines of the host.  *)
(*                                                                         *)
(* The server itself (net/http, google.golang.org/grpc) is modelled from   *)
(* how the services use it: Serve accepts until the server is shut down or *)
(* its listener fails; a shutdown closes the listeners and waits for the   *)
(* requests in flight; closing it cuts them off; a server that was shut    *)
(* down refuses to serve again.  grpc's Serve returns nil, after the       *)
(* drain, where http's returns ErrServerClosed, before it.  http waits for *)
(* connections, which end when they are closed; grpc waits for handlers,   *)
(* which are only told so by their context.                                *)
(***************************************************************************)
EXTENDS Naturals

CONSTANTS
  Kinds,     \* which of the three services
  MaxConns,  \* bound on the requests in flight
  MaxStarts  \* bound on the calls of Start (a restart policy calls it again)

ASSUME ServerAssumption ==
  /\ Kinds \subseteq {"http", "grpc", "gateway"}
  /\ MaxConns \in Nat
  /\ MaxStarts \in Nat

VARIABLES
  kind,
  start,      \* where Start is
  starts,     \* calls of Start
  ret,        \* what Start returned
  srv,        \* Service.srv: no server yet, an earlier Start's, this Start's
  down,       \* the server of this Start was shut down
  conns,      \* its requests in flight; of grpc, the handlers that run
  serve,      \* where the goroutine that serves is
  serveErr,   \* what Serve returned
  addr,       \* the listen address was stored
  ready,      \* the Ready channel is closed
  cancelled,  \* the host cancelled the context of Start
  stop,       \* where Stop is
  stopRet,    \* what Stop returned
  late,       \* the context of Stop is over its deadline
  faulted,    \* history: this Start met a failure of the network or a handler
  cut,        \* history: requests were cut off
  missed      \* Stop has not the server of this Start

startVars == <<start, starts, ret, srv, addr, ready>>
serverVars == <<down, conns, serve, serveErr>>
stopVars == <<cancelled, stop, stopRet, late>>
vars == <<kind, startVars, serverVars, stopVars, faulted, cut, missed>>

Init ==
  /\ kind \in Kinds
  /\ start = "idle" /\ starts = 0 /\ ret = "none"
  /\ srv = IF kind = "gateway" THEN "none" ELSE "current"
  /\ down = FALSE /\ conns = 0 /\ serve = "none" /\ serveErr = "none"
  /\ addr = FALSE /\ ready = FALSE
  /\ cancelled = FALSE /\ stop = "idle" /\ stopRet = "none" /\ late = FALSE
  /\ faulted = FALSE /\ cut = FALSE /\ missed = FALSE

-----------------------------------------------------------------------------
(* Start.                                                                  *)

Return(r) == start' = "returned" /\ ret' = r

\* The supervisor will restart a Start that returned before the shutdown.
BackOff ==
  /\ start = "returned" /\ ~cancelled
  /\ start' = "backoff"
  /\ UNCHANGED <<kind, starts, ret, srv, addr, ready, serverVars, stopVars, faulted, cut, missed>>

\* Its backoff sees the shutdown.
EndBackOff ==
  /\ start = "backoff" /\ cancelled
  /\ start' = "returned"
  /\ UNCHANGED <<kind, starts, ret, srv, addr, ready, serverVars, stopVars, faulted, cut, missed>>

\* The supervisor calls Start, for the first time or to restart it; its
\* select may do so although the shutdown has begun.  The gateway makes a new
\* server every time, also behind the back of Stop; the others have one for
\* ever.
CallStart ==
  /\ start \in {"idle", "backoff"}
  /\ starts < MaxStarts
  /\ starts' = starts + 1
  /\ faulted' = FALSE
  /\ IF kind = "gateway"
     THEN /\ start' = "setup"
          /\ srv' = IF srv = "none" THEN "none" ELSE "old"
          /\ down' = FALSE /\ conns' = 0
          /\ missed' = (stop \in {"drain", "returned"})
     ELSE start' = "listen" /\ UNCHANGED <<srv, down, conns, missed>>
  /\ UNCHANGED <<kind, ret, serve, serveErr, addr, ready, stopVars, cut>>

\* The gateway dials, registers its handlers and stores its server.
SetUp ==
  /\ start = "setup"
  /\ \/ start' = "listen" /\ srv' = "current" /\ UNCHANGED <<ret, faulted>>
     \/ Return("err") /\ faulted' = TRUE /\ UNCHANGED srv
  /\ UNCHANGED <<kind, starts, addr, ready, serverVars, stopVars, cut, missed>>

\* Mutant: the address is stored after the announcement.
AddrLater == addr' = addr

\* s.addr.Store(ln.Addr().String())
StoreAddr == addr' = TRUE

Listen ==
  /\ start = "listen"
  /\ \/ StoreAddr /\ start' = "announce" /\ UNCHANGED <<ret, faulted>>
     \/ Return("err") /\ faulted' = TRUE /\ UNCHANGED addr
  /\ UNCHANGED <<kind, starts, srv, ready, serverVars, stopVars, cut, missed>>

\* Ready is closed, and the goroutine that serves begins.
Announce ==
  /\ start = "announce"
  /\ start' = "select"
  /\ ready' = TRUE
  /\ serve' = "spawned"
  /\ UNCHANGED <<kind, starts, ret, srv, addr, down, conns, serveErr, stopVars, faulted, cut, missed>>

\* The select takes ctx.Done(): Stop drives the shutdown, Start waits.
SeeCancel ==
  /\ start = "select" /\ cancelled
  /\ start' = "wait"
  /\ UNCHANGED <<kind, starts, ret, srv, addr, ready, serverVars, stopVars, faulted, cut, missed>>

\* Mutant: the error of a server that was shut down is passed on.
GracefulPassedOn(e, r) == IF e = "nil" THEN r ELSE "err"

\* What Start returns for the error of Serve: r when the server was shut
\* down, by either library's way of saying so.
Graceful(e, r) == IF e \in {"closed", "nil"} THEN r ELSE "err"

TakeServeErr ==
  /\ start \in {"select", "wait"} /\ serve = "sent"
  /\ Return(Graceful(serveErr, IF start = "wait" THEN "canceled" ELSE "nil"))
  /\ serve' = "none"
  /\ UNCHANGED <<kind, starts, srv, addr, ready, down, conns, serveErr, stopVars, faulted, cut, missed>>

-----------------------------------------------------------------------------
(* The goroutine that serves, and the server's requests.                   *)

SendServeErr(e) == serve' = "sent" /\ serveErr' = e

\* Serve is called; it returns at once if the server was shut down already.
BeginServe ==
  /\ serve = "spawned"
  /\ IF down THEN SendServeErr("closed") ELSE serve' = "serving" /\ UNCHANGED serveErr
  /\ UNCHANGED <<kind, startVars, down, conns, stopVars, faulted, cut, missed>>

Accept ==
  /\ serve = "serving" /\ ~down /\ conns < MaxConns
  /\ conns' = conns + 1
  /\ UNCHANGED <<kind, startVars, down, serve, serveErr, stopVars, faulted, cut, missed>>

RequestEnds ==
  /\ conns > 0
  /\ conns' = conns - 1
  /\ UNCHANGED <<kind, startVars, down, serve, serveErr, stopVars, faulted, cut, missed>>

AcceptFails ==
  /\ serve = "serving" /\ ~down
  /\ SendServeErr("err")
  /\ faulted' = TRUE
  /\ UNCHANGED <<kind, startVars, down, conns, stopVars, cut, missed>>

\* Serve sees the shutdown; grpc's returns once GracefulStop or Stop is done
\* with the connections.
EndServe ==
  /\ serve = "serving" /\ down
  /\ kind = "grpc" => conns = 0 \/ stop = "force"
  /\ SendServeErr(IF kind = "grpc" THEN "nil" ELSE "closed")
  /\ UNCHANGED <<kind, startVars, down, conns, stopVars, faulted, cut, missed>>

-----------------------------------------------------------------------------
(* Stop, and the host that calls it.                                       *)

Cancel ==
  /\ ~cancelled
  /\ cancelled' = TRUE
  /\ UNCHANGED <<kind, startVars, serverVars, stop, stopRet, late, faulted, cut, missed>>

\* stopAll calls Stop once, after it cancelled the context of Start.
CallStop ==
  /\ cancelled /\ stop = "idle"
  /\ stop' = "called"
  /\ UNCHANGED <<kind, startVars, serverVars, cancelled, stopRet, late, faulted, cut, missed>>

Deadline ==
  /\ stop # "idle" /\ ~late
  /\ late' = TRUE
  /\ UNCHANGED <<kind, startVars, serverVars, cancelled, stop, stopRet, faulted, cut, missed>>

StopReturns(r) == stop' = "returned" /\ stopRet' = r

\* Mutant: Stop does not shut the server down, it only waits for it.
ShutdownForgotten == UNCHANGED down

\* Shutdown and GracefulStop close the listeners first.
ShutDown == down' = TRUE

\* Stop reads the server.  A gateway without one has nothing to do; that of
\* an earlier Start serves no more, and its shutdown changes nothing here.
BeginStop ==
  /\ stop = "called"
  /\ \/ /\ srv = "none" /\ StopReturns("nil")
        /\ missed' = TRUE /\ UNCHANGED down
     \/ /\ srv = "old" /\ stop' = "drain"
        /\ missed' = TRUE /\ UNCHANGED <<down, stopRet>>
     \/ /\ srv = "current" /\ ShutDown /\ stop' = "drain"
        /\ UNCHANGED <<stopRet, missed>>
  /\ UNCHANGED <<kind, startVars, conns, serve, serveErr, cancelled, late, faulted, cut>>

\* The last request in flight has ended, on the server Stop has.  Shutdown of
\* net/http then returns the error of closing a listener, if there was one.
Drained ==
  /\ stop = "drain" /\ (missed \/ conns = 0)
  /\ \/ StopReturns("nil")
     \/ kind # "grpc" /\ ~missed /\ StopReturns("err")
  /\ UNCHANGED <<kind, startVars, serverVars, cancelled, late, faulted, cut, missed>>

\* Mutant: the server is closed without regard to the deadline.
GraceAtOnce == TRUE


\* ctx.Done() of Stop.
GraceOver == late

\* Close leaves no connection; grpc's Stop leaves none either, and cancels the
\* contexts of the handlers, which go on until they heed it.
ConnsClosed == IF kind = "grpc" THEN conns ELSE 0

\* The deadline has passed: the connections are closed forcefully.  grpc's
\* Stop then receives from done, to which GracefulStop has not come yet.
ForceClose ==
  /\ stop = "drain" /\ GraceOver
  /\ IF missed THEN UNCHANGED <<conns, cut>>
               ELSE conns' = ConnsClosed /\ cut' = (cut \/ conns > 0)
  /\ IF kind = "grpc" THEN stop' = "force" /\ UNCHANGED stopRet ELSE StopReturns("timeout")
  /\ UNCHANGED <<kind, startVars, down, serve, serveErr, cancelled, late, faulted, missed>>

\* <-done: GracefulStop has waited for the last handler.
HandlersDone ==
  /\ stop = "force" /\ conns = 0
  /\ StopReturns("timeout")
  /\ UNCHANGED <<kind, startVars, serverVars, cancelled, late, faulted, cut, missed>>

StartStep == BackOff \/ EndBackOff \/ CallStart \/ SetUp \/ Listen \/ Announce \/ SeeCancel \/ TakeServeErr
ServeStep == BeginServe \/ Accept \/ RequestEnds \/ AcceptFails \/ EndServe
StopStep == Cancel \/ CallStop \/ Deadline \/ BeginStop \/ Drained \/ ForceClose \/ HandlersDone

Next == StartStep \/ ServeStep \/ StopStep

Spec == Init /\ [][Next]_vars

\* Every goroutine is scheduled, and the deadline of Stop passes; requests
\* need not come, and need not end, also when they were cut off.
Fairness ==
  /\ WF_vars(start = "idle" /\ CallStart) /\ WF_vars(EndBackOff)
  /\ WF_vars(SetUp \/ Listen \/ Announce) /\ WF_vars(SeeCancel) /\ WF_vars(TakeServeErr)
  /\ WF_vars(BeginServe) /\ WF_vars(EndServe)
  /\ WF_vars(CallStop) /\ WF_vars(Deadline) /\ WF_vars(BeginStop)
  /\ WF_vars(Drained \/ ForceClose \/ HandlersDone)

FairSpec == Spec /\ Fairness

-----------------------------------------------------------------------------
(* Properties.                                                             *)

\* Types, and: who has seen Ready finds an address in Addr.
ServerTypeOK ==
  /\ kind \in Kinds
  /\ start \in {"idle", "setup", "listen", "announce", "select", "wait", "backoff",
                "returned"}
  /\ starts \in 0..MaxStarts
  /\ ret \in {"none", "nil", "canceled", "err"}
  /\ srv \in {"none", "old", "current"}
  /\ down \in BOOLEAN /\ conns \in 0..MaxConns
  /\ serve \in {"none", "spawned", "serving", "sent"}
  /\ serveErr \in {"none", "closed", "nil", "err"}
  /\ addr \in BOOLEAN /\ ready \in BOOLEAN /\ (ready => addr)
  /\ cancelled \in BOOLEAN /\ late \in BOOLEAN
  /\ stop \in {"idle", "called", "drain", "force", "returned"}
  /\ stopRet \in {"none", "nil", "timeout", "err"}
  /\ faulted \in BOOLEAN /\ cut \in BOOLEAN /\ missed \in BOOLEAN

\* A request in flight is cut off only after the shutdown deadline, and Stop,
\* when it returns, says so.  When Stop returns anything else the server it
\* shut down has none left; and grpc's Stop leaves no handler in any case.
DrainHonoured ==
  /\ cut => late /\ (stopRet = "timeout" \/ stop = "force")
  /\ stop = "returned" /\ ~missed /\ (stopRet # "timeout" \/ kind = "grpc") => conns = 0

\* A shutdown is not mistaken for a failure, nor a failure for a shutdown:
\* Start returns an error exactly when the network or a handler failed, and
\* a graceful return happens only after the host asked for it.
CleanExitIffNoFault ==
  start = "returned" =>
    /\ ret = "err" <=> faulted
    /\ ret # "err" => cancelled

\* Once Stop has returned, in time or not, the server it shut down takes no
\* request any more, however late its Start came to serve.
NothingAcceptedAfterStop == [][stop = "returned" /\ ~missed => conns' <= conns]_vars

\* A handler of grpc whose connection was cut off does not run for ever.
HandlersEnd == ~<>[](stop = "force" /\ conns > 0)


\* Start serves until the host initiates shutdown, and then returns.
ServesUntilShutdown == cancelled ~> start = "returned"
=============================================================================
