------------------------------ MODULE Process ------------------------------
(***************************************************************************)
(* A process that listens (internal/server/server.go, cmd/reelixd/main.go, *)
(* internal/compat/jellyfin/socket.go), on top of Startup: one request and *)
(* one web socket of each process, the drain when it is signalled, and its *)
(* end.  A socket has two goroutines, the handler that reads and the one   *)
(* that pings, and either may be the first to learn that the peer is gone. *)
(***************************************************************************)
EXTENDS Startup

CONSTANT Visited   \* the processes that clients talk to

ASSUME VisitedAssumption == Visited \subseteq Procs

VARIABLES request,   \* process -> "none", "streaming", "querying" or "cut"
          peer,      \* process -> the far end of its socket
          conn,      \* process -> the socket's connection: "none", "open" or "closed"
          handler,   \* process -> the handler of the socket
          pinger,    \* process -> the goroutine that pings
          cutAny     \* process -> a request was cut off since it started

serving == <<request, peer, conn, handler, pinger, cutAny>>
vars    == <<startup, serving>>

Rest == UNCHANGED <<binary, wait, applied, tx, db, store, boots>>

Init ==
  /\ StartupInit
  /\ request = [p \in Procs |-> "none"]
  /\ peer = [p \in Procs |-> "none"] /\ conn = [p \in Procs |-> "none"]
  /\ handler = [p \in Procs |-> "none"] /\ pinger = [p \in Procs |-> "none"]
  /\ cutAny = [p \in Procs |-> FALSE]

(* A process that ends takes its goroutines and its connections with it. *)
Gone(p) ==
  /\ request' = [request EXCEPT ![p] = "none"]
  /\ peer' = [peer EXCEPT ![p] = "none"] /\ conn' = [conn EXCEPT ![p] = "none"]
  /\ handler' = [handler EXCEPT ![p] = "none"] /\ pinger' = [pinger EXCEPT ![p] = "none"]

----------------------------------------------------------------------------
(* Server.Run.                                                             *)

(* net.Listen, which looks at no context; it may find the port taken. *)
Listen(p) ==
  /\ pc[p] = "listen"
  /\ \/ Goto(p, "serving") /\ UNCHANGED <<reason, faults>>
     \/ faults < MaxFaults /\ faults' = faults + 1 /\ Fail(p, "fault")
  /\ cutAny' = [cutAny EXCEPT ![p] = FALSE]
  /\ Rest /\ UNCHANGED <<signalled, request, peer, conn, handler, pinger>>

Accepting(p) == pc[p] = "serving" /\ p \in Visited

(* A request for bytes, which holds no connection of the pool while they   *)
(* are sent, or one in the middle of a statement.                          *)
RequestBegins(p) ==
  /\ Accepting(p) /\ request[p] = "none"
  /\ \E kind \in {"streaming", "querying"} : request' = [request EXCEPT ![p] = kind]
  /\ UNCHANGED <<startup, peer, conn, handler, pinger, cutAny>>

RequestEnds(p) ==
  /\ request[p] # "none"
  /\ request' = [request EXCEPT ![p] = "none"]
  /\ UNCHANGED <<startup, peer, conn, handler, pinger, cutAny>>

(* Serve returns an error of its own: Run answers it and waits for nobody, *)
(* or looks at the end of the context first and answers it after the drain.*)
ServeFails(p) ==
  /\ pc[p] = "serving" /\ faults < MaxFaults
  /\ faults' = faults + 1 /\ reason' = [reason EXCEPT ![p] = "fault"]
  /\ Goto(p, "closing") \/ (signalled[p] /\ Goto(p, "draining"))
  /\ Rest /\ UNCHANGED <<signalled, serving>>

(* The context ends: the listener closes, Shutdown begins. *)
Drain(p) ==
  /\ pc[p] = "serving" /\ signalled[p]
  /\ Goto(p, "draining")
  /\ Rest /\ UNCHANGED <<signalled, reason, faults, serving>>

(* Shutdown waits for the requests; a socket is hijacked and not waited for. *)

Drained(p) == request[p] = "none"

ShutdownReturns(p) ==
  /\ pc[p] = "draining" /\ Drained(p)
  /\ Goto(p, "closing")
  /\ Rest /\ UNCHANGED <<signalled, reason, faults, serving>>

(* The timeout passes: Close cuts what is left, and Run returns the error. *)

TimesOut(p) == ~ Drained(p)

ShutdownTimesOut(p) ==
  /\ pc[p] = "draining" /\ TimesOut(p)
  /\ Goto(p, "closing") /\ reason' = [reason EXCEPT ![p] = "timeout"]
  /\ request' = [request EXCEPT ![p] = "cut"]
  /\ cutAny' = [cutAny EXCEPT ![p] = TRUE]
  /\ Rest /\ UNCHANGED <<signalled, faults, peer, conn, handler, pinger>>

(* pool.Close waits for the connections in use, then the process is over.  *)
Exit(p) ==
  /\ pc[p] = "closing" /\ request[p] \notin {"cut", "querying"}
  /\ Goto(p, IF reason[p] = "none" THEN "exited" ELSE "failed")
  /\ cutAny' = [cutAny EXCEPT ![p] = @ \/ request[p] # "none"]
  /\ Gone(p)
  /\ Rest /\ UNCHANGED <<signalled, reason, faults>>

----------------------------------------------------------------------------
(* handleSocket.                                                           *)

(* Accepted; the pinger is started before the first read. *)
SocketOpens(p) ==
  /\ Accepting(p) /\ handler[p] \in {"none", "done"} /\ pinger[p] \in {"none", "gone"}
  /\ peer' = [peer EXCEPT ![p] = "there"] /\ conn' = [conn EXCEPT ![p] = "open"]
  /\ handler' = [handler EXCEPT ![p] = "reading"] /\ pinger' = [pinger EXCEPT ![p] = "waiting"]
  /\ UNCHANGED <<startup, request, cutAny>>

(* The peer closes, or sends a message over the limit; or it vanishes, of  *)
(* which no packet tells.                                                  *)
PeerLeaves(p) ==
  /\ peer[p] = "there"
  /\ \E how \in {"closed", "vanished"} : peer' = [peer EXCEPT ![p] = how]
  /\ UNCHANGED <<startup, request, conn, handler, pinger, cutAny>>

(* A read fails when the peer has closed or the pinger has. *)
ReadFails(p) ==
  /\ handler[p] = "reading"
  /\ peer[p] = "closed" \/ conn[p] = "closed"
  /\ handler' = [handler EXCEPT ![p] = "stopping"]   \* cancel()
  /\ UNCHANGED <<startup, request, peer, conn, pinger, cutAny>>

(* The handler waits for the pinger, then closes the connection. *)
PingsDone_NotWaited(p) == TRUE

PingsDone(p) == pinger[p] = "gone"

HandlerReturns(p) ==
  /\ handler[p] = "stopping" /\ PingsDone(p)
  /\ handler' = [handler EXCEPT ![p] = "done"]
  /\ conn' = [conn EXCEPT ![p] = "closed"]
  /\ UNCHANGED <<startup, request, peer, pinger, cutAny>>

Tick(p) ==
  /\ pinger[p] = "waiting" /\ handler[p] = "reading"
  /\ pinger' = [pinger EXCEPT ![p] = "pinging"]
  /\ UNCHANGED <<startup, request, peer, conn, handler, cutAny>>

(* A pong comes only from a peer that is there, through the read loop. *)
Pong(p) ==
  /\ pinger[p] = "pinging" /\ peer[p] = "there" /\ handler[p] = "reading" /\ conn[p] = "open"
  /\ pinger' = [pinger EXCEPT ![p] = "waiting"]
  /\ UNCHANGED <<startup, request, peer, conn, handler, cutAny>>

(* A ping fails when it times out, which a slow peer's may, when it is     *)
(* cancelled or the connection closed; the pinger closes the connection.   *)
AfterPing_LeftOpen(p) == conn[p]

AfterPing(p) == "closed"

PingLost(p) ==
  /\ pinger[p] = "pinging"
  /\ conn' = [conn EXCEPT ![p] = AfterPing(p)]
  /\ pinger' = [pinger EXCEPT ![p] = "gone"]
  /\ UNCHANGED <<startup, request, peer, handler, cutAny>>

PingerStops(p) ==
  /\ pinger[p] = "waiting" /\ handler[p] = "stopping"
  /\ pinger' = [pinger EXCEPT ![p] = "gone"]
  /\ UNCHANGED <<startup, request, peer, conn, handler, cutAny>>

----------------------------------------------------------------------------

(* Each process runs on; a request's bytes may take as long as they like,  *)
(* a statement comes back.                                                 *)
Advance(p) ==
  \/ Run(p) /\ UNCHANGED serving
  \/ Listen(p) \/ Drain(p) \/ ShutdownReturns(p) \/ ShutdownTimesOut(p) \/ Exit(p)

StatementReturns(p) == request[p] \in {"cut", "querying"} /\ RequestEnds(p)

Reader(p) == ReadFails(p) \/ HandlerReturns(p)
Pinger(p) == Tick(p) \/ Pong(p) \/ PingLost(p) \/ PingerStops(p)

Next ==
  \/ DatabaseUp /\ UNCHANGED serving
  \/ \E p \in Procs :
       \/ Boot(p) /\ UNCHANGED serving
       \/ Advance(p) \/ Reader(p) \/ Pinger(p)
       \/ (CommitLost(p) /\ UNCHANGED serving) \/ ServeFails(p)
       \/ Signal(p) /\ UNCHANGED serving
       \/ Kill(p) /\ Gone(p) /\ UNCHANGED cutAny
       \/ RequestBegins(p) \/ RequestEnds(p) \/ SocketOpens(p) \/ PeerLeaves(p)

(* Nobody else has requests or sockets. *)
Fairness ==
  /\ \A p \in Procs : WF_vars(Advance(p))
  /\ \A p \in Visited : WF_vars(StatementReturns(p)) /\ WF_vars(Reader(p)) /\ WF_vars(Pinger(p))

Spec == Init /\ [][Next]_vars /\ Fairness

----------------------------------------------------------------------------
(* Properties.                                                             *)

(* A handler that has returned leaves no goroutine that pings and no open  *)
(* connection: the number of goroutines is back where it was, however      *)
(* often a client reconnects.  A process that ends without an error has    *)
(* cut off no request.                                                     *)
EndsAreClean ==
  \A p \in Procs :
    /\ handler[p] = "done" => pinger[p] = "gone" /\ conn[p] = "closed"
    /\ pc[p] = "exited" => ~ cutAny[p] /\ reason[p] = "none"

(* A process that starts gets to serve or ends: it waits for ever neither  *)
(* for the database nor for the lock of another that is killed or stopped. *)
(* A signal ends a process wherever it is: no open socket and no endless   *)
(* stream keeps it.  A socket whose peer is gone is given up, also when    *)
(* nothing says so.                                                        *)
NothingWaitsForEver ==
  /\ \A p \in Procs : /\ pc[p] = "ping" ~> pc[p] \in {"serving", "draining"} \cup Ended
                      /\ signalled[p] ~> pc[p] \in Ended
  /\ \A p \in Visited : peer[p] \in {"closed", "vanished"} ~> handler[p] \in {"none", "done"}
=============================================================================
