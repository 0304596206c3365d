------------------------------- MODULE Daemon -------------------------------
(***************************************************************************)
(* run() of tassandra/main.go as a whole: the daemons started one after    *)
(* the other, or by mistake at a time, on one data directory and one gRPC  *)
(* address, from opening the store to the last deferred call; the signals, *)
(* the PID file and "tassandra-cli stop"; and what is in flight in the     *)
(* servers and in the poller while run unwinds.                            *)
(*                                                                         *)
(* A process is started under a PID of its own.  The store, the poller and *)
(* the servers are only as much as run waits for: Oracle and Servers have  *)
(* their insides.                                                          *)
(***************************************************************************)
EXTENDS Integers, Sequences

CONSTANTS Pids, None

ASSUME DaemonAssumption == None \notin Pids

VARIABLES
    proc,       \* PID -> what that process is, or was when it ended
    pidFile,    \* what tassandra.pid in the data directory names
    port,       \* who listens on the gRPC address
    cli         \* the PID "tassandra-cli stop" has read

vars == <<proc, pidFile, port, cli>>

\* phase: where run is, named for what it does next; defers: the calls it
\* has deferred; err: what it returns; signalled: ctx of NotifyContext is
\* done, and run has not seen it; serve and http: the goroutines that serve;
\* serveErr: grpcErrCh was sent an error; lookup: a handler of the HTTP
\* server is in flight.
NotStarted ==
    [phase |-> "new", defers |-> <<>>, err |-> "nil", ended |-> "no",
     signalled |-> FALSE, store |-> FALSE, poller |-> "off",
     serve |-> "off", serveErr |-> FALSE, http |-> "off", lookup |-> FALSE]

Init ==
    /\ proc = [p \in Pids |-> NotStarted]
    /\ pidFile = None
    /\ port = None
    /\ cli = None

Runs(p) == proc[p].ended = "no" /\ proc[p].phase # "new"

At(p, phase) == proc[p].ended = "no" /\ proc[p].phase = phase

Deferred(p, call) == \E i \in DOMAIN proc[p].defers : proc[p].defers[i] = call

Release(p) == port' = IF port = p THEN None ELSE port

\* The end of a process takes all that ran in it; proc keeps where run was.
Ends(p, how) ==
    /\ proc' = [proc EXCEPT ![p] =
                   [NotStarted EXCEPT !.phase = proc[p].phase,
                                      !.defers = proc[p].defers,
                                      !.serveErr = proc[p].serveErr,
                                      !.ended = how]]
    /\ Release(p)

\* run returns: the deferred calls are next.
Returns(p, err) ==
    /\ proc' = [proc EXCEPT ![p].phase = "unwind", ![p].err = err,
                            ![p].signalled = FALSE]
    /\ UNCHANGED <<pidFile, port, cli>>

-----------------------------------------------------------------------------
(***************************************************************************)
(* The way up.                                                             *)
(***************************************************************************)

\* main.
Launch(p) ==
    /\ proc[p].phase = "new"
    /\ proc' = [proc EXCEPT ![p].phase = "open"]
    /\ UNCHANGED <<pidFile, port, cli>>

\* loadConfig, the data directory, the log or NewSQLiteStore fails.
OpenFails(p) == At(p, "open") /\ Returns(p, "starting")

OpenStore(p) ==
    /\ At(p, "open")
    /\ proc' = [proc EXCEPT ![p].phase = "config", ![p].store = TRUE,
                            ![p].defers = Append(@, "store.Close")]
    /\ UNCHANGED <<pidFile, port, cli>>

\* A bad asset, no feed, or a pollinterval that is no duration.
ConfigFails(p) == At(p, "config") /\ Returns(p, "starting")

\* Start polls once before it returns, here.
InitialPoll(p) ==
    /\ At(p, "config")
    /\ proc' = [proc EXCEPT ![p].phase = "initial", ![p].poller = "polls"]
    /\ UNCHANGED <<pidFile, port, cli>>

StartReturns(p) ==
    /\ At(p, "initial")
    /\ proc' = [proc EXCEPT ![p].phase = "listen", ![p].poller = "waits",
                            ![p].defers = Append(@, "o.Stop")]
    /\ UNCHANGED <<pidFile, port, cli>>

\* The address is in use, or wrong.
ListenFails(p) == At(p, "listen") /\ Returns(p, "starting")

Listen(p) ==
    /\ At(p, "listen")
    /\ port = None
    /\ port' = p
    /\ proc' = [proc EXCEPT ![p].phase = "http", ![p].serve = "serves",
                            ![p].defers = Append(@, "GracefulStop")]
    /\ UNCHANGED <<pidFile, cli>>

\* HTTPServer.Start listens and serves in a goroutine of its own; if that
\* fails it is logged and nothing else.
StartHTTP(p) ==
    /\ At(p, "http")
    /\ \E result \in {"serves", "off"} :
          proc' = [proc EXCEPT ![p].phase = "pid", ![p].http = result]
    /\ UNCHANGED <<pidFile, port, cli>>

WriteFails(p) == At(p, "pid") /\ Returns(p, "writing PID file")

\* Mutant: the removal is deferred before the server's stop.
WriteAfterListen(p) ==
    /\ At(p, "pid")
    /\ pidFile' = p
    /\ proc' = [proc EXCEPT ![p].phase = "notify",
                            ![p].defers = <<"store.Close", "o.Stop", "Remove",
                                            "GracefulStop">>]
    /\ UNCHANGED <<port, cli>>

\* Over whatever the file names.
writePIDFile(p) ==
    /\ At(p, "pid")
    /\ pidFile' = p
    /\ proc' = [proc EXCEPT ![p].phase = "notify",
                            ![p].defers = Append(@, "Remove")]
    /\ UNCHANGED <<port, cli>>

\* From here on a signal does not kill.
NotifyContext(p) ==
    /\ At(p, "notify")
    /\ proc' = [proc EXCEPT ![p].phase = "select", ![p].defers = Append(@, "stop")]
    /\ UNCHANGED <<pidFile, port, cli>>

-----------------------------------------------------------------------------
(***************************************************************************)
(* The way down.                                                           *)
(***************************************************************************)

\* Shutdown closes the listener and waits for the lookup that may be in flight.
SignalReceived(p) ==
    /\ At(p, "select")
    /\ proc[p].signalled
    /\ \E inFlight \in {FALSE, proc[p].http = "serves"} :
          proc' = [proc EXCEPT ![p].phase = "shutdown", ![p].signalled = FALSE,
                               ![p].http = "stops", ![p].lookup = inFlight]
    /\ UNCHANGED <<pidFile, port, cli>>

\* Mutant: log.Fatal.
ServerErrorFatal(p) ==
    /\ At(p, "select")
    /\ proc[p].serveErr
    /\ Ends(p, "returned")
    /\ UNCHANGED <<pidFile, cli>>

\* The HTTP server is left as it is.
ServerError(p) ==
    At(p, "select") /\ proc[p].serveErr /\ Returns(p, "gRPC server error")

HandlersDone(p) ==
    /\ At(p, "shutdown")
    /\ ~proc[p].lookup
    /\ proc' = [proc EXCEPT ![p].phase = "unwind", ![p].http = "off"]
    /\ UNCHANGED <<pidFile, port, cli>>

\* Mutant: Shutdown has no deadline.
ShutdownWaits(p) == At(p, "shutdown") /\ ~proc[p].lookup /\ Returns(p, "nil")

\* After 30 seconds; the error is logged.
ShutdownTimesOut(p) == At(p, "shutdown") /\ proc[p].lookup /\ Returns(p, "nil")

\* The call deferred last is run next.
Unwinding(p, call) ==
    /\ At(p, "unwind")
    /\ proc[p].defers # <<>>
    /\ call = proc[p].defers[Len(proc[p].defers)]

Popped(p) == SubSeq(proc[p].defers, 1, Len(proc[p].defers) - 1)

\* A signal kills again.
StopNotify(p) ==
    /\ Unwinding(p, "stop")
    /\ proc' = [proc EXCEPT ![p].defers = Popped(p)]
    /\ UNCHANGED <<pidFile, port, cli>>

\* os.Remove, whatever the file names.
RemovePidFile(p) ==
    /\ Unwinding(p, "Remove")
    /\ pidFile' = None
    /\ proc' = [proc EXCEPT ![p].defers = Popped(p)]
    /\ UNCHANGED <<port, cli>>

\* GracefulStop closes the listener and then waits for the RPCs in flight.
GracefulStop(p) ==
    /\ Unwinding(p, "GracefulStop")
    /\ proc[p].serve \in {"serves", "failed"}
    /\ Release(p)
    /\ proc' = [proc EXCEPT ![p].serve = "stops"]
    /\ UNCHANGED <<pidFile, cli>>

RpcsDone(p) ==
    /\ Unwinding(p, "GracefulStop")
    /\ proc[p].serve = "stops"
    /\ proc' = [proc EXCEPT ![p].serve = "stopped", ![p].defers = Popped(p)]
    /\ UNCHANGED <<pidFile, port, cli>>

\* Mutant: Stop does not wait for the poll in flight.
StopAtOnce(p) ==
    /\ Unwinding(p, "o.Stop")
    /\ proc' = [proc EXCEPT ![p].defers = Popped(p)]
    /\ UNCHANGED <<pidFile, port, cli>>

\* Stop: pollLoop, between two polls, finds quit closed.
StopOracle(p) ==
    /\ Unwinding(p, "o.Stop")
    /\ proc[p].poller = "waits"
    /\ proc' = [proc EXCEPT ![p].defers = Popped(p), ![p].poller = "off"]
    /\ UNCHANGED <<pidFile, port, cli>>

CloseStore(p) ==
    /\ Unwinding(p, "store.Close")
    /\ proc' = [proc EXCEPT ![p].defers = Popped(p), ![p].store = FALSE]
    /\ UNCHANGED <<pidFile, port, cli>>

Exit(p) ==
    /\ At(p, "unwind")
    /\ proc[p].defers = <<>>
    /\ Ends(p, "returned")
    /\ UNCHANGED <<pidFile, cli>>

-----------------------------------------------------------------------------
(***************************************************************************)
(* The goroutines beside run.                                              *)
(***************************************************************************)

\* A tick; then the poll is over.  The initial poll ends in StartReturns.
PollStarts(p) ==
    /\ Runs(p)
    /\ proc[p].poller = "waits"
    /\ proc' = [proc EXCEPT ![p].poller = "polls"]
    /\ UNCHANGED <<pidFile, port, cli>>

PollEnds(p) ==
    /\ Runs(p)
    /\ proc[p].phase # "initial"
    /\ proc[p].poller = "polls"
    /\ proc' = [proc EXCEPT ![p].poller = "waits"]
    /\ UNCHANGED <<pidFile, port, cli>>

\* Serve returns an error: it has closed its listener.
ServeFails(p) ==
    /\ Runs(p)
    /\ proc[p].serve = "serves"
    /\ Release(p)
    /\ proc' = [proc EXCEPT ![p].serve = "failed", ![p].serveErr = TRUE]
    /\ UNCHANGED <<pidFile, cli>>

\* A lookup in the store, where run returns and Shutdown was not called: of
\* those before nothing but what is in flight at Shutdown matters.
LookupStarts(p) ==
    /\ At(p, "unwind")
    /\ proc[p].http = "serves"
    /\ ~proc[p].lookup
    /\ proc' = [proc EXCEPT ![p].lookup = TRUE]
    /\ UNCHANGED <<pidFile, port, cli>>

LookupEnds(p) ==
    /\ Runs(p)
    /\ proc[p].lookup
    /\ proc' = [proc EXCEPT ![p].lookup = FALSE]
    /\ UNCHANGED <<pidFile, port, cli>>

-----------------------------------------------------------------------------
(***************************************************************************)
(* The world.                                                              *)
(***************************************************************************)

\* SIGINT or SIGTERM: without a handler it ends the process at once, with one
\* ctx is done, and after the select nobody looks at that any more.
Signal(p) ==
    IF Deferred(p, "stop")
    THEN /\ proc' = [proc EXCEPT ![p].signalled = At(p, "select")]
         /\ UNCHANGED port
    ELSE Ends(p, "signal")

\* By an operator or a service manager.
OperatorSignals(p) == Runs(p) /\ Signal(p) /\ UNCHANGED <<pidFile, cli>>

\* A panic, or SIGKILL.
Crash(p) == Runs(p) /\ Ends(p, "crash") /\ UNCHANGED <<pidFile, cli>>

\* tassandra-cli stop: without a file it is an error.
CliReads ==
    /\ cli = None
    /\ pidFile # None
    /\ cli' = pidFile
    /\ UNCHANGED <<proc, pidFile, port>>

\* No such process is an error.
CliSignals ==
    /\ cli # None
    /\ cli' = None
    /\ IF Runs(cli) THEN Signal(cli) ELSE UNCHANGED <<proc, port>>
    /\ UNCHANGED pidFile

-----------------------------------------------------------------------------
WayUp(p) ==
    \/ OpenFails(p) \/ OpenStore(p)
    \/ ConfigFails(p) \/ InitialPoll(p) \/ StartReturns(p)
    \/ ListenFails(p) \/ Listen(p) \/ StartHTTP(p)
    \/ WriteFails(p) \/ writePIDFile(p) \/ NotifyContext(p)

WayDown(p) ==
    \/ SignalReceived(p) \/ ServerError(p)
    \/ HandlersDone(p) \/ ShutdownTimesOut(p)
    \/ StopNotify(p) \/ RemovePidFile(p)
    \/ GracefulStop(p) \/ RpcsDone(p)
    \/ StopOracle(p) \/ CloseStore(p) \/ Exit(p)

Goroutine(p) ==
    \/ PollStarts(p) \/ PollEnds(p)
    \/ ServeFails(p)
    \/ LookupStarts(p) \/ LookupEnds(p)

Next ==
    \/ \E p \in Pids :
          \/ Launch(p) \/ WayUp(p) \/ WayDown(p) \/ Goroutine(p)
          \/ OperatorSignals(p) \/ Crash(p)
    \/ CliReads \/ CliSignals

Spec == Init /\ [][Next]_vars

(***************************************************************************)
(* On its way down run is not blocked for good: a poll ends (PollsEnd of   *)
(* Oracle), an RPC waits for nothing, and the select of pollLoop does not  *)
(* ignore quit for ever.  And tassandra-cli sends the signal.  Nothing     *)
(* makes a lookup end.                                                     *)
(***************************************************************************)
Fairness ==
    /\ \A p \in Pids :
          /\ WF_vars(WayDown(p)) /\ SF_vars(StopOracle(p))
          /\ WF_vars(PollEnds(p))
    /\ WF_vars(CliSignals)

FairSpec == Spec /\ Fairness

-----------------------------------------------------------------------------
\* What run defers, in this order.
Calls == <<"store.Close", "o.Stop", "GracefulStop", "Remove", "stop">>

Stack(n) == SubSeq(Calls, 1, n)

Stacks == {Stack(n) : n \in 0 .. 5}

Processes ==
    [phase : {"new", "open", "config", "initial", "listen", "http", "pid",
              "notify", "select", "shutdown", "unwind"},
     defers : Stacks,
     err : {"nil", "starting", "writing PID file",
            "gRPC server error"},
     ended : {"no", "returned", "signal", "crash"},
     signalled : BOOLEAN,
     store : BOOLEAN,
     poller : {"off", "polls", "waits"},
     serve : {"off", "serves", "failed", "stops", "stopped"},
     serveErr : BOOLEAN,
     http : {"off", "serves", "stops"},
     lookup : BOOLEAN]

DaemonTypeOK ==
    /\ proc \in [Pids -> Processes]
    /\ pidFile \in Pids \cup {None}
    /\ port \in Pids \cup {None}
    /\ cli \in Pids \cup {None}

(***************************************************************************)
(* The strengthening of the properties below: how many calls are deferred  *)
(* where, and what their number says of the rest of the process; and what  *)
(* the port and the PID file say of the processes.                         *)
(***************************************************************************)
Height(r) == Len(r.defers)

StackOK(r) ==
    /\ r.phase \in {"new", "open"} => r.defers = Stack(0)
    /\ r.phase \in {"config", "initial"} => r.defers = Stack(1)
    /\ r.phase = "listen" => r.defers = Stack(2)
    /\ r.phase \in {"http", "pid"} => r.defers = Stack(3)
    /\ r.phase = "notify" => r.defers = Stack(4)
    /\ r.phase \in {"select", "shutdown"} => r.defers = Stack(5)
    /\ r.phase = "new" => r.ended = "no" /\ r.poller = "off"

HeldOK(r) ==
    /\ r.store <=> Height(r) >= 1
    /\ r.poller # "off" => r.phase = "initial" \/ Height(r) >= 2

ServeOK(r) ==
    /\ r.serve = "serves" => Height(r) >= 3
    /\ r.serve = "failed" => r.serveErr
    /\ Height(r) >= 4 \/ r.phase \in {"http", "pid"} => r.serve \in {"serves", "failed"}

LookupOK(r) ==
    /\ r.lookup => r.phase \in {"shutdown", "unwind"} /\ r.http \in {"serves", "stops"}
    /\ r.http = "serves" =>
          \/ r.phase \in {"pid", "notify", "select"}
          \/ r.phase = "unwind" /\ r.err \in {"writing PID file", "gRPC server error"}

ProcessOK(r) ==
    /\ StackOK(r)
    /\ r.ended = "no" => HeldOK(r) /\ ServeOK(r) /\ LookupOK(r)

WorldOK ==
    /\ port # None => Runs(port) /\ proc[port].serve = "serves"
    /\ \A p \in Pids : pidFile = p /\ Runs(p) => Height(proc[p]) >= 4
    /\ (\A q \in Pids : ~proc[q].serveErr) =>
          \A p \in Pids :
             /\ Runs(p) /\ proc[p].serve = "serves" => port = p
             /\ Runs(p) /\ Height(proc[p]) >= 4 => pidFile = p

(***************************************************************************)
(* tassandra-cli stop finds the daemon that waits for it: as long as no    *)
(* Serve has failed, the PID file names the daemon from before it is ready *)
(* until it has begun to shut down, whatever other daemons are started     *)
(* meanwhile on the same directory, stopped or killed, and whatever file a *)
(* crash left behind (main.go:122-155; the port is freed after the file is *)
(* gone).  After a failed Serve another daemon can bind, and lose its file *)
(* to the first.                                                           *)
(***************************************************************************)
WaitingDaemonIsNamed ==
    (\A p \in Pids : ~proc[p].serveErr) =>
        \A p \in Pids :
            Runs(p) /\ proc[p].phase \in {"notify", "select", "shutdown"} => pidFile = p

(***************************************************************************)
(* Nothing uses the store once it is closed (main.go:73): neither the      *)
(* poller, by whatever way run returns, nor a lookup, unless Shutdown gave *)
(* it up after 30 seconds or run returned without Shutdown (main.go:145,   *)
(* 162).                                                                   *)
(***************************************************************************)
NothingUsesClosedStore ==
    \A p \in Pids :
        Runs(p) /\ ~proc[p].store =>
            /\ proc[p].poller = "off"
            /\ proc[p].lookup =>
                  \/ proc[p].http = "stops"
                  \/ proc[p].err \in {"writing PID file", "gRPC server error"}

(***************************************************************************)
(* A PID file without its process is left by a crash, or by a signal in    *)
(* one of two windows: after the file is written and before NotifyContext  *)
(* (main.go:144-152), and after stop and before the removal (main.go:147,  *)
(* 155).  Whoever returns from run has removed it.                         *)
(***************************************************************************)
StaleFileOnlyByKill ==
    \A p \in Pids :
        pidFile = p /\ ~Runs(p) =>
            \/ proc[p].ended = "crash"
            \/ /\ proc[p].ended = "signal"
               /\ \/ proc[p].phase = "notify"
                  \/ proc[p].phase = "unwind" /\ proc[p].defers = Stack(4)

(***************************************************************************)
(* A daemon whose PID tassandra-cli stop has read comes to its end, with   *)
(* lookups that never end, polls and RPCs in flight, and ticks that come   *)
(* before quit is looked at (tassandra-cli/main.go:250-288;                *)
(* tassandra/main.go:152-177).                                             *)
(***************************************************************************)
StopCommandStops ==
    \A p \in Pids : cli = p /\ Runs(p) ~> ~Runs(p)
=============================================================================
