---------------------------- MODULE DaemonProofs ----------------------------
(***************************************************************************)
(* The safety properties of Daemon for any number of processes.  The calls *)
(* a process has deferred are always the first ones of Calls, so how many  *)
(* they are says what run has acquired and not yet released; most steps    *)
(* touch neither the port nor the PID file, and QuietStep is about those.  *)
(***************************************************************************)
EXTENDS Daemon, SequenceTheorems, TLAPS

DaemonInv ==
    /\ DaemonTypeOK
    /\ \A p \in Pids : ProcessOK(proc[p])
    /\ WorldOK
    /\ StaleFileOnlyByKill

-----------------------------------------------------------------------------
(***************************************************************************)
(* Stacks of deferred calls                                                *)
(***************************************************************************)
Names == {"store.Close", "o.Stop", "GracefulStop", "Remove", "stop"}

\* The five deferred calls differ.
LEMMA CallNames ==
    /\ \A i \in 1 .. 5 : Calls[i] \in Names
    /\ \A i \in 1 .. 5 : Calls[i] = "stop" <=> i = 5
    /\ \A i, j \in 1 .. 5 : Calls[i] = Calls[j] => i = j
    /\ Calls[1] = "store.Close" /\ Calls[2] = "o.Stop"
    /\ Calls[3] = "GracefulStop" /\ Calls[4] = "Remove" /\ Calls[5] = "stop"
<1>1. /\ Calls[1] = "store.Close" /\ Calls[2] = "o.Stop"
      /\ Calls[3] = "GracefulStop" /\ Calls[4] = "Remove" /\ Calls[5] = "stop"
  BY DEF Calls
<1>2. \A i \in 1 .. 5 : i = 1 \/ i = 2 \/ i = 3 \/ i = 4 \/ i = 5
  OBVIOUS
<1> QED
  BY <1>1, <1>2 DEF Names

\* A stack of n calls holds the first n.
LEMMA StackElements ==
    ASSUME NEW n \in 0 .. 5
    PROVE  /\ Stack(n) \in Seq(Names)
           /\ Len(Stack(n)) = n
           /\ \A i \in 1 .. n : Stack(n)[i] = Calls[i]
<1>1. \A i \in 1 .. n : Calls[i] \in Names
  BY CallNames
<1>2. /\ Stack(n) \in Seq(Names)
      /\ Len(Stack(n)) = IF 1 <= n THEN n - 1 + 1 ELSE 0
      /\ \A i \in 1 .. n - 1 + 1 : Stack(n)[i] = Calls[1 + i - 1]
  <2>1. 1 \in Int /\ n \in Int
    OBVIOUS
  <2> QED
    BY <1>1, <2>1, SubSeqProperties DEF Stack
<1>3. \A i \in 1 .. n : Stack(n)[i] = Calls[i]
  BY <1>2
<1> QED
  BY <1>2, <1>3

\* defer pushes the next call.
LEMMA StackPush ==
    ASSUME NEW n \in 0 .. 4
    PROVE  Append(Stack(n), Calls[n + 1]) = Stack(n + 1)
<1> DEFINE s == Append(Stack(n), Calls[n + 1])
<1>0. n + 1 \in 1 .. 5 /\ n \in 0 .. 5 /\ n + 1 \in 0 .. 5
  OBVIOUS
<1>1. Calls[n + 1] \in Names
  BY <1>0, CallNames
<1>2. Stack(n) \in Seq(Names) /\ Len(Stack(n)) = n
      /\ \A i \in 1 .. n : Stack(n)[i] = Calls[i]
  BY <1>0, StackElements
<1>3. s \in Seq(Names) /\ Len(s) = n + 1 /\ \A i \in 1 .. n + 1 : s[i] = Calls[i]
  BY <1>1, <1>2
<1>4. /\ Stack(n + 1) \in Seq(Names)
      /\ Len(Stack(n + 1)) = n + 1
      /\ \A i \in 1 .. n + 1 : Stack(n + 1)[i] = Calls[i]
  BY <1>0, StackElements
<1>5. Len(s) = Len(Stack(n + 1)) /\ \A i \in 1 .. Len(s) : s[i] = Stack(n + 1)[i]
  BY <1>3, <1>4
<1> HIDE DEF s
<1>6. s = Stack(n + 1)
  BY <1>3, <1>4, <1>5, SeqEqual
<1> QED
  BY <1>6 DEF s

\* Running the call on top leaves the stack below.
LEMMA StackPop ==
    ASSUME NEW n \in 1 .. 5
    PROVE  SubSeq(Stack(n), 1, Len(Stack(n)) - 1) = Stack(n - 1)
<1> DEFINE s == SubSeq(Stack(n), 1, n - 1)
<1>0. n \in 0 .. 5 /\ n - 1 \in 0 .. 5 /\ 1 \in Int /\ n - 1 \in Int
  OBVIOUS
<1>a. Len(Stack(n)) = n /\ \A i \in 1 .. n : Stack(n)[i] = Calls[i]
  BY <1>0, StackElements
<1>b. \A i \in 1 .. n : Calls[i] \in Names
  BY CallNames
<1>1. /\ Len(Stack(n)) = n
      /\ \A i \in 1 .. n : Stack(n)[i] = Calls[i] /\ Calls[i] \in Names
  BY <1>a, <1>b
<1>2. \A i \in 1 .. n - 1 : Stack(n)[i] \in Names
  BY <1>1
<1>3. /\ s \in Seq(Names)
      /\ Len(s) = IF 1 <= n - 1 THEN n - 1 - 1 + 1 ELSE 0
      /\ \A i \in 1 .. n - 1 - 1 + 1 : s[i] = Stack(n)[1 + i - 1]
  BY <1>0, <1>2, SubSeqProperties
<1>4. /\ Stack(n - 1) \in Seq(Names)
      /\ Len(Stack(n - 1)) = n - 1
      /\ \A i \in 1 .. n - 1 : Stack(n - 1)[i] = Calls[i]
  BY <1>0, StackElements
<1> HIDE DEF s
<1>5. Len(s) = n - 1
  BY <1>3
<1>6. \A i \in 1 .. n - 1 : s[i] = Calls[i]
  <2> TAKE i \in 1 .. n - 1
  <2>1. i \in 1 .. n /\ i \in 1 .. n - 1 - 1 + 1 /\ 1 + i - 1 = i
    OBVIOUS
  <2>2. s[i] = Stack(n)[i]
    BY <1>3, <2>1
  <2> QED
    BY <1>1, <2>1, <2>2
<1>7. Len(s) = Len(Stack(n - 1)) /\ \A i \in 1 .. Len(s) : s[i] = Stack(n - 1)[i]
  BY <1>4, <1>5, <1>6
<1>8. s = Stack(n - 1)
  BY <1>3, <1>4, <1>7, SeqEqual
<1> QED
  BY <1>1, <1>8 DEF s

\* What is on top says how many there are.
LEMMA StackTop ==
    ASSUME NEW n \in 0 .. 5, Stack(n) # <<>>
    PROVE  /\ n \in 1 .. 5
           /\ Stack(n)[Len(Stack(n))] = Calls[n]
<1>1. /\ Stack(n) \in Seq(Names) /\ Len(Stack(n)) = n
      /\ \A i \in 1 .. n : Stack(n)[i] = Calls[i]
  BY StackElements
<1>2. Len(Stack(n)) \in Nat \ {0}
  BY <1>1, EmptySeq
<1> QED
  BY <1>1, <1>2

LEMMA StackEmpty == Stack(0) = <<>>
BY SubSeqEmpty DEF Stack

\* The signal handler is installed exactly while all five are deferred.
LEMMA StackHandler ==
    ASSUME NEW n \in 0 .. 5
    PROVE  (\E i \in DOMAIN Stack(n) : Stack(n)[i] = "stop") <=> n = 5
<1>1. /\ Stack(n) \in Seq(Names) /\ Len(Stack(n)) = n
      /\ \A i \in 1 .. n : Stack(n)[i] = Calls[i]
  BY StackElements
<1>2. DOMAIN Stack(n) = 1 .. n
  BY <1>1, LenProperties
<1>3. \A i \in 1 .. n : Stack(n)[i] = "stop" <=> i = 5
  BY <1>1, CallNames
<1> QED
  BY <1>2, <1>3

-----------------------------------------------------------------------------
(***************************************************************************)
(* Steps of one process that leave the port, the PID file and all they     *)
(* depend on.                                                              *)
(***************************************************************************)
Moves(p) ==
    /\ proc'[p] \in Processes
    /\ ProcessOK(proc'[p])
    /\ proc' \in [Pids -> Processes]
    /\ \A q \in Pids \ {p} : proc'[q] = proc[q]

Quiet(p) ==
    /\ Runs(p) /\ Runs(p)'
    /\ proc'[p].serve = "serves" <=> proc[p].serve = "serves"
    /\ proc'[p].serveErr = proc[p].serveErr
    /\ Height(proc'[p]) >= 4 <=> Height(proc[p]) >= 4

\* A quiet step keeps the invariant if the process it moves stays in order.
LEMMA QuietStep ==
    ASSUME DaemonInv, NEW p \in Pids, Moves(p), Quiet(p),
           port' = port, pidFile' = pidFile, cli' \in Pids \cup {None}
    PROVE  DaemonInv'
<1>1. DaemonTypeOK'
  BY DEF DaemonInv, DaemonTypeOK, Moves
<1>2. \A q \in Pids : ProcessOK(proc'[q])
  BY DEF DaemonInv, Moves
<1>3. \A q \in Pids :
         /\ Runs(q)' = Runs(q)
         /\ proc'[q].serve = "serves" <=> proc[q].serve = "serves"
         /\ proc'[q].serveErr = proc[q].serveErr
         /\ Height(proc'[q]) >= 4 <=> Height(proc[q]) >= 4
  BY DEF Moves, Quiet, Runs
<1>4. WorldOK'
  <2>1. port' # None => Runs(port)' /\ proc'[port'].serve = "serves"
    <3> SUFFICES ASSUME port # None
                 PROVE  Runs(port)' /\ proc'[port].serve = "serves"
      OBVIOUS
    <3>1. port \in Pids /\ Runs(port) /\ proc[port].serve = "serves"
      BY DEF DaemonInv, DaemonTypeOK, WorldOK
    <3>2. Runs(port)' = (proc'[port].ended = "no" /\ proc'[port].phase # "new")
      BY DEF Runs
    <3> QED
      BY <1>3, <3>1, <3>2 DEF Runs
  <2>2. \A q \in Pids : pidFile' = q /\ Runs(q)' => Height(proc'[q]) >= 4
    BY <1>3 DEF DaemonInv, WorldOK
  <2>3. (\A q \in Pids : ~proc'[q].serveErr) =>
           \A q \in Pids :
              /\ Runs(q)' /\ proc'[q].serve = "serves" => port' = q
              /\ Runs(q)' /\ Height(proc'[q]) >= 4 => pidFile' = q
    BY <1>3 DEF DaemonInv, WorldOK
  <2> QED
    BY <2>1, <2>2, <2>3 DEF WorldOK
<1>5. StaleFileOnlyByKill'
  <2>1. ASSUME NEW q \in Pids, pidFile' = q, ~Runs(q)'
        PROVE  /\ proc'[q] = proc[q]
               /\ pidFile = q /\ ~Runs(q)
    BY <2>1, <1>3 DEF Moves, Quiet
  <2> QED
    BY <2>1 DEF DaemonInv, StaleFileOnlyByKill
<1> QED
  BY <1>1, <1>2, <1>4, <1>5 DEF DaemonInv

\* A step that is not quiet has the rest of the invariant to show.
LEMMA StrongStep ==
    ASSUME DaemonInv, NEW p \in Pids, Moves(p),
           DaemonTypeOK', WorldOK', StaleFileOnlyByKill'
    PROVE  DaemonInv'
BY DEF DaemonInv, Moves

LEMMA StackIn ==
    /\ Stack(0) \in Stacks /\ Stack(1) \in Stacks /\ Stack(2) \in Stacks
    /\ Stack(3) \in Stacks /\ Stack(4) \in Stacks /\ Stack(5) \in Stacks
<1>1. \A n \in 0 .. 5 : Stack(n) \in Stacks
  BY DEF Stacks
<1> QED
  BY <1>1

\* The height of the stack says which stack it is.
LEMMA Heights ==
    ASSUME NEW r \in Processes
    PROVE  /\ Height(r) \in 0 .. 5
           /\ \A k \in 0 .. 5 : r.defers = Stack(k) <=> Height(r) = k
<1>1. PICK n \in 0 .. 5 : r.defers = Stack(n)
  BY DEF Processes, Stacks
<1>2. \A k \in 0 .. 5 : Len(Stack(k)) = k
  BY StackElements
<1>3. Height(r) = n
  BY <1>1, <1>2 DEF Height
<1> QED
  BY <1>1, <1>2, <1>3 DEF Height

\* run returns: too early, or because Serve or Shutdown has failed.
LEMMA ReturnsInv ==
    ASSUME DaemonInv, NEW p \in Pids, NEW err, Returns(p, err),
           \/ proc[p].phase \in {"open", "config", "listen"} /\ err = "starting"
           \/ proc[p].phase = "pid" /\ err = "writing PID file"
           \/ proc[p].phase = "select" /\ err = "gRPC server error"
           \/ proc[p].phase = "shutdown" /\ err = "nil" /\ proc[p].lookup,
           proc[p].ended = "no"
    PROVE  DaemonInv'
<1>1. proc[p] \in Processes /\ ProcessOK(proc[p]) /\ proc \in [Pids -> Processes]
  BY DEF DaemonInv, DaemonTypeOK
<1>2. proc'[p] = [proc[p] EXCEPT !.phase = "unwind", !.err = err, !.signalled = FALSE]
  BY <1>1 DEF Returns
<1>3. proc'[p] \in Processes
  BY ZenonT(40), <1>1, <1>2 DEF Processes
<1>4. /\ proc'[p].phase = "unwind" /\ proc'[p].err = err
      /\ proc'[p].ended = "no" /\ proc'[p].defers = proc[p].defers
      /\ proc'[p].store = proc[p].store /\ proc'[p].poller = proc[p].poller
      /\ proc'[p].serve = proc[p].serve /\ proc'[p].serveErr = proc[p].serveErr
      /\ proc'[p].http = proc[p].http /\ proc'[p].lookup = proc[p].lookup
  BY ZenonT(40), <1>1, <1>2 DEF Processes
<1>5. ProcessOK(proc'[p])
  BY <1>1, <1>3, <1>4, Heights DEF ProcessOK, StackOK, HeldOK, ServeOK, LookupOK, Height
<1>6. Moves(p)
  BY <1>1, <1>3, <1>5 DEF Moves, Returns
<1>7. Quiet(p)
  BY <1>4 DEF Quiet, Runs, Height
<1> QED
  BY <1>6, <1>7, QuietStep DEF Returns, DaemonInv, DaemonTypeOK

\* What holds of the process that is about to take a step.
LEMMA Before ==
    ASSUME DaemonInv, NEW p \in Pids
    PROVE  /\ proc \in [Pids -> Processes] /\ proc[p] \in Processes
           /\ ProcessOK(proc[p])
           /\ Height(proc[p]) \in 0 .. 5
           /\ \A k \in 0 .. 5 : proc[p].defers = Stack(k) <=> Height(proc[p]) = k
BY Heights DEF DaemonInv, DaemonTypeOK

\* What each defer in run makes of the stack.
LEMMA Pushes ==
    /\ Append(Stack(0), "store.Close") = Stack(1)
    /\ Append(Stack(1), "o.Stop") = Stack(2)
    /\ Append(Stack(2), "GracefulStop") = Stack(3)
    /\ Append(Stack(3), "Remove") = Stack(4)
    /\ Append(Stack(4), "stop") = Stack(5)
<1>1. \A n \in 0 .. 4 : Append(Stack(n), Calls[n + 1]) = Stack(n + 1)
  BY StackPush
<1>2. /\ Append(Stack(0), Calls[1]) = Stack(1)
      /\ Append(Stack(1), Calls[2]) = Stack(2)
      /\ Append(Stack(2), Calls[3]) = Stack(3)
      /\ Append(Stack(3), Calls[4]) = Stack(4)
      /\ Append(Stack(4), Calls[5]) = Stack(5)
  BY <1>1
<1> QED
  BY <1>2, CallNames

\* A deferred call that runs says how high the stack is.
LEMMA Pops ==
    ASSUME DaemonInv, NEW p \in Pids, NEW k \in 1 .. 5, Unwinding(p, Calls[k])
    PROVE  /\ Height(proc[p]) = k /\ proc[p].defers = Stack(k)
           /\ Popped(p) = Stack(k - 1)
<1>1. PICK n \in 0 .. 5 : proc[p].defers = Stack(n) /\ Height(proc[p]) = n
  BY Before
<1>2. n \in 1 .. 5 /\ Calls[k] = Calls[n]
  <2>1. Stack(n) # <<>> /\ Calls[k] = Stack(n)[Len(Stack(n))]
    BY <1>1 DEF Unwinding
  <2> QED
    BY <2>1, StackTop
<1>3. k = n
  BY <1>2, CallNames
<1>4. SubSeq(Stack(k), 1, Len(Stack(k)) - 1) = Stack(k - 1)
  BY StackPop
<1> QED
  BY <1>1, <1>3, <1>4 DEF Popped

-----------------------------------------------------------------------------
(***************************************************************************)
(* The actions of one process, those that are quiet first.  Each lemma     *)
(* computes the record of the process after the step (<1>3, <1>5), checks  *)
(* it part by part (<1>7), and leaves the world to QuietStep, or shows for *)
(* itself what becomes of the port and of the PID file (<1>10, <1>11).     *)
(***************************************************************************)
LEMMA OpenStoreInv ==
    ASSUME DaemonInv, NEW p \in Pids, OpenStore(p)
    PROVE  DaemonInv'
<1> DEFINE r == proc[p]  s == proc'[p]
<1>1. /\ proc \in [Pids -> Processes] /\ r \in Processes /\ ProcessOK(r)
      /\ \A k \in 0 .. 5 : r.defers = Stack(k) <=> Height(r) = k
  BY Before
<1>2. /\ r.phase = "open" /\ r.ended = "no" /\ r.defers = Stack(0)
  BY <1>1 DEF OpenStore, At, Runs, ProcessOK, StackOK
<1>3. s = [r EXCEPT !.phase = "config", !.store = TRUE, !.defers = Stack(1)]
  BY <1>1, <1>2, Pushes DEF OpenStore
<1>4. s \in Processes
  BY ZenonT(40), <1>1, <1>2, <1>3, StackIn DEF Processes
<1>5. /\ s.phase = "config" /\ s.store = TRUE /\ s.defers = Stack(1)
      /\ s.poller = r.poller /\ s.serve = r.serve /\ s.serveErr = r.serveErr
      /\ s.http = r.http /\ s.lookup = r.lookup /\ s.err = r.err
      /\ s.ended = r.ended
  BY <1>1, <1>3 DEF Processes
<1>6. Height(s) = 1 /\ Height(r) = 0
  BY <1>1, <1>2, <1>4, <1>5, Heights
<1> HIDE DEF r, s
<1>7. ProcessOK(s)
  <2>1. StackOK(s)
    BY <1>1, <1>2, <1>5 DEF ProcessOK, StackOK
  <2>2. HeldOK(s)
    BY <1>1, <1>2, <1>5, <1>6 DEF ProcessOK, HeldOK
  <2>3. ServeOK(s)
    BY <1>1, <1>2, <1>5, <1>6 DEF ProcessOK, ServeOK
  <2>4. LookupOK(s)
    BY <1>1, <1>2, <1>5 DEF ProcessOK, LookupOK
  <2> QED
    BY <2>1, <2>2, <2>3, <2>4 DEF ProcessOK
<1>8. Moves(p)
  BY <1>1, <1>4, <1>7 DEF Moves, OpenStore, r, s
<1>9. Quiet(p)
  BY <1>2, <1>5, <1>6 DEF Quiet, Runs, r, s
<1> QED
  BY <1>8, <1>9, QuietStep DEF OpenStore, DaemonInv, DaemonTypeOK

LEMMA InitialPollInv ==
    ASSUME DaemonInv, NEW p \in Pids, InitialPoll(p)
    PROVE  DaemonInv'
<1> DEFINE r == proc[p]  s == proc'[p]
<1>1. /\ proc \in [Pids -> Processes] /\ r \in Processes /\ ProcessOK(r)
      /\ \A k \in 0 .. 5 : r.defers = Stack(k) <=> Height(r) = k
  BY Before
<1>2. /\ r.phase = "config" /\ r.ended = "no" /\ r.defers = Stack(1)
  BY <1>1 DEF InitialPoll, At, Runs, ProcessOK, StackOK
<1>3. s = [r EXCEPT !.phase = "initial", !.poller = "polls"]
  BY <1>1, <1>2 DEF InitialPoll
<1>4. s \in Processes
  BY <1>1, <1>2, <1>3, StackIn DEF Processes
<1>5. /\ s.phase = "initial" /\ s.store = r.store /\ s.defers = r.defers
      /\ s.poller = "polls" /\ s.serve = r.serve /\ s.serveErr = r.serveErr
      /\ s.http = r.http /\ s.lookup = r.lookup /\ s.err = r.err
      /\ s.ended = r.ended
  BY ZenonT(40), <1>1, <1>3 DEF Processes
<1>6. Height(s) = 1 /\ Height(r) = 1
  BY <1>1, <1>2, <1>4, <1>5, Heights
<1> HIDE DEF r, s
<1>7. ProcessOK(s)
  <2>1. StackOK(s)
    BY <1>1, <1>2, <1>5 DEF ProcessOK, StackOK
  <2>2. HeldOK(s)
    BY <1>1, <1>2, <1>5, <1>6 DEF ProcessOK, HeldOK
  <2>3. ServeOK(s)
    BY <1>1, <1>2, <1>5, <1>6 DEF ProcessOK, ServeOK
  <2>4. LookupOK(s)
    BY <1>1, <1>2, <1>5 DEF ProcessOK, LookupOK
  <2> QED
    BY <2>1, <2>2, <2>3, <2>4 DEF ProcessOK
<1>8. Moves(p)
  BY <1>1, <1>4, <1>7 DEF Moves, InitialPoll, r, s
<1>9. Quiet(p)
  BY <1>2, <1>5, <1>6 DEF Quiet, Runs, r, s
<1> QED
  BY <1>8, <1>9, QuietStep DEF InitialPoll, DaemonInv, DaemonTypeOK

LEMMA StartReturnsInv ==
    ASSUME DaemonInv, NEW p \in Pids, StartReturns(p)
    PROVE  DaemonInv'
<1> DEFINE r == proc[p]  s == proc'[p]
<1>1. /\ proc \in [Pids -> Processes] /\ r \in Processes /\ ProcessOK(r)
      /\ \A k \in 0 .. 5 : r.defers = Stack(k) <=> Height(r) = k
  BY Before
<1>2. /\ r.phase = "initial" /\ r.ended = "no" /\ r.defers = Stack(1)
  BY <1>1 DEF StartReturns, At, Runs, ProcessOK, StackOK
<1>3. s = [r EXCEPT !.phase = "listen",
                     !.poller = "waits",
                     !.defers = Stack(2)]
  BY <1>1, <1>2, Pushes DEF StartReturns
<1>4. s \in Processes
  BY ZenonT(40), <1>1, <1>2, <1>3, StackIn DEF Processes
<1>5. /\ s.phase = "listen" /\ s.store = r.store /\ s.defers = Stack(2)
      /\ s.poller = "waits" /\ s.serve = r.serve /\ s.serveErr = r.serveErr
      /\ s.http = r.http /\ s.lookup = r.lookup /\ s.err = r.err
      /\ s.ended = r.ended
  BY <1>1, <1>3 DEF Processes
<1>6. Height(s) = 2 /\ Height(r) = 1
  BY <1>1, <1>2, <1>4, <1>5, Heights
<1> HIDE DEF r, s
<1>7. ProcessOK(s)
  <2>1. StackOK(s)
    BY <1>1, <1>2, <1>5 DEF ProcessOK, StackOK
  <2>2. HeldOK(s)
    BY <1>1, <1>2, <1>5, <1>6 DEF ProcessOK, HeldOK
  <2>3. ServeOK(s)
    BY <1>1, <1>2, <1>5, <1>6 DEF ProcessOK, ServeOK
  <2>4. LookupOK(s)
    BY <1>1, <1>2, <1>5 DEF ProcessOK, LookupOK
  <2> QED
    BY <2>1, <2>2, <2>3, <2>4 DEF ProcessOK
<1>8. Moves(p)
  BY <1>1, <1>4, <1>7 DEF Moves, StartReturns, r, s
<1>9. Quiet(p)
  BY <1>2, <1>5, <1>6 DEF Quiet, Runs, r, s
<1> QED
  BY <1>8, <1>9, QuietStep DEF StartReturns, DaemonInv, DaemonTypeOK

LEMMA StartHTTPInv ==
    ASSUME DaemonInv, NEW p \in Pids, StartHTTP(p)
    PROVE  DaemonInv'
<1> DEFINE r == proc[p]  s == proc'[p]
<1>1. /\ proc \in [Pids -> Processes] /\ r \in Processes /\ ProcessOK(r)
      /\ \A k \in 0 .. 5 : r.defers = Stack(k) <=> Height(r) = k
  BY Before
<1>2. /\ r.phase = "http" /\ r.ended = "no" /\ r.defers = Stack(3)
  BY <1>1 DEF StartHTTP, At, Runs, ProcessOK, StackOK
<1>3. PICK result \in {"serves", "off"} :
         s = [r EXCEPT !.phase = "pid", !.http = result]
  BY <1>1, <1>2 DEF StartHTTP
<1>4. s \in Processes
  BY ZenonT(40), <1>1, <1>2, <1>3, StackIn DEF Processes
<1>5. /\ s.phase = "pid" /\ s.store = r.store /\ s.defers = r.defers
      /\ s.poller = r.poller /\ s.serve = r.serve /\ s.serveErr = r.serveErr
      /\ s.http = result /\ s.lookup = r.lookup /\ s.err = r.err
      /\ s.ended = r.ended
  BY ZenonT(40), <1>1, <1>3 DEF Processes
<1>6. Height(s) = 3 /\ Height(r) = 3
  BY <1>1, <1>2, <1>4, <1>5, Heights
<1> HIDE DEF r, s
<1>7. ProcessOK(s)
  <2>1. StackOK(s)
    BY <1>1, <1>2, <1>5 DEF ProcessOK, StackOK
  <2>2. HeldOK(s)
    BY <1>1, <1>2, <1>5, <1>6 DEF ProcessOK, HeldOK
  <2>3. ServeOK(s)
    BY <1>1, <1>2, <1>5, <1>6 DEF ProcessOK, ServeOK
  <2>4. LookupOK(s)
    BY <1>1, <1>2, <1>5 DEF ProcessOK, LookupOK
  <2> QED
    BY <2>1, <2>2, <2>3, <2>4 DEF ProcessOK
<1>8. Moves(p)
  BY <1>1, <1>4, <1>7 DEF Moves, StartHTTP, r, s
<1>9. Quiet(p)
  BY <1>2, <1>5, <1>6 DEF Quiet, Runs, r, s
<1> QED
  BY <1>8, <1>9, QuietStep DEF StartHTTP, DaemonInv, DaemonTypeOK

LEMMA NotifyContextInv ==
    ASSUME DaemonInv, NEW p \in Pids, NotifyContext(p)
    PROVE  DaemonInv'
<1> DEFINE r == proc[p]  s == proc'[p]
<1>1. /\ proc \in [Pids -> Processes] /\ r \in Processes /\ ProcessOK(r)
      /\ \A k \in 0 .. 5 : r.defers = Stack(k) <=> Height(r) = k
  BY Before
<1>2. /\ r.phase = "notify" /\ r.ended = "no" /\ r.defers = Stack(4)
  BY <1>1 DEF NotifyContext, At, Runs, ProcessOK, StackOK
<1>3. s = [r EXCEPT !.phase = "select", !.defers = Stack(5)]
  BY <1>1, <1>2, Pushes DEF NotifyContext
<1>4. s \in Processes
  BY <1>1, <1>2, <1>3, StackIn DEF Processes
<1>5. /\ s.phase = "select" /\ s.store = r.store /\ s.defers = Stack(5)
      /\ s.poller = r.poller /\ s.serve = r.serve /\ s.serveErr = r.serveErr
      /\ s.http = r.http /\ s.lookup = r.lookup /\ s.err = r.err
      /\ s.ended = r.ended
  BY <1>1, <1>3 DEF Processes
<1>6. Height(s) = 5 /\ Height(r) = 4
  BY <1>1, <1>2, <1>4, <1>5, Heights
<1> HIDE DEF r, s
<1>7. ProcessOK(s)
  <2>1. StackOK(s)
    BY <1>1, <1>2, <1>5 DEF ProcessOK, StackOK
  <2>2. HeldOK(s)
    BY <1>1, <1>2, <1>5, <1>6 DEF ProcessOK, HeldOK
  <2>3. ServeOK(s)
    BY <1>1, <1>2, <1>5, <1>6 DEF ProcessOK, ServeOK
  <2>4. LookupOK(s)
    BY <1>1, <1>2, <1>5 DEF ProcessOK, LookupOK
  <2> QED
    BY <2>1, <2>2, <2>3, <2>4 DEF ProcessOK
<1>8. Moves(p)
  BY <1>1, <1>4, <1>7 DEF Moves, NotifyContext, r, s
<1>9. Quiet(p)
  BY <1>2, <1>5, <1>6 DEF Quiet, Runs, r, s
<1> QED
  BY <1>8, <1>9, QuietStep DEF NotifyContext, DaemonInv, DaemonTypeOK

LEMMA SignalReceivedInv ==
    ASSUME DaemonInv, NEW p \in Pids, SignalReceived(p)
    PROVE  DaemonInv'
<1> DEFINE r == proc[p]  s == proc'[p]
<1>1. /\ proc \in [Pids -> Processes] /\ r \in Processes /\ ProcessOK(r)
      /\ \A k \in 0 .. 5 : r.defers = Stack(k) <=> Height(r) = k
  BY Before
<1>2. /\ r.phase = "select" /\ r.ended = "no" /\ r.defers = Stack(5)
  BY <1>1 DEF SignalReceived, At, Runs, ProcessOK, StackOK
<1>3. PICK inFlight \in BOOLEAN :
         s = [r EXCEPT !.phase = "shutdown", !.signalled = FALSE,
                       !.http = "stops", !.lookup = inFlight]
  BY ZenonT(40), <1>1, <1>2 DEF SignalReceived
<1>4. s \in Processes
  BY <1>1, <1>2, <1>3, StackIn DEF Processes
<1>5. /\ s.phase = "shutdown" /\ s.store = r.store /\ s.defers = r.defers
      /\ s.poller = r.poller /\ s.serve = r.serve /\ s.serveErr = r.serveErr
      /\ s.http = "stops" /\ s.err = r.err /\ s.ended = r.ended
  BY ZenonT(40), <1>1, <1>3 DEF Processes
<1>6. Height(s) = 5 /\ Height(r) = 5
  BY <1>1, <1>2, <1>4, <1>5, Heights
<1> HIDE DEF r, s
<1>7. ProcessOK(s)
  <2>1. StackOK(s)
    BY <1>1, <1>2, <1>5 DEF ProcessOK, StackOK
  <2>2. HeldOK(s)
    BY <1>1, <1>2, <1>5, <1>6 DEF ProcessOK, HeldOK
  <2>3. ServeOK(s)
    BY <1>1, <1>2, <1>5, <1>6 DEF ProcessOK, ServeOK
  <2>4. LookupOK(s)
    BY <1>1, <1>2, <1>5 DEF ProcessOK, LookupOK
  <2> QED
    BY <2>1, <2>2, <2>3, <2>4 DEF ProcessOK
<1>8. Moves(p)
  BY <1>1, <1>4, <1>7 DEF Moves, SignalReceived, r, s
<1>9. Quiet(p)
  BY <1>2, <1>5, <1>6 DEF Quiet, Runs, r, s
<1> QED
  BY <1>8, <1>9, QuietStep DEF SignalReceived, DaemonInv, DaemonTypeOK

LEMMA HandlersDoneInv ==
    ASSUME DaemonInv, NEW p \in Pids, HandlersDone(p)
    PROVE  DaemonInv'
<1> DEFINE r == proc[p]  s == proc'[p]
<1>1. /\ proc \in [Pids -> Processes] /\ r \in Processes /\ ProcessOK(r)
      /\ \A k \in 0 .. 5 : r.defers = Stack(k) <=> Height(r) = k
  BY Before
<1>2. /\ r.phase = "shutdown" /\ r.ended = "no" /\ r.lookup = FALSE
      /\ r.defers = Stack(5)
  BY <1>1 DEF HandlersDone, At, Runs, ProcessOK, StackOK
<1>3. s = [r EXCEPT !.phase = "unwind", !.http = "off"]
  BY <1>1, <1>2 DEF HandlersDone
<1>4. s \in Processes
  BY <1>1, <1>2, <1>3, StackIn DEF Processes
<1>5. /\ s.phase = "unwind" /\ s.store = r.store /\ s.defers = r.defers
      /\ s.poller = r.poller /\ s.serve = r.serve /\ s.serveErr = r.serveErr
      /\ s.http = "off" /\ s.lookup = r.lookup /\ s.err = r.err
      /\ s.ended = r.ended
  BY ZenonT(40), <1>1, <1>3 DEF Processes
<1>6. Height(s) = 5 /\ Height(r) = 5
  BY <1>1, <1>2, <1>4, <1>5, Heights
<1> HIDE DEF r, s
<1>7. ProcessOK(s)
  <2>1. StackOK(s)
    BY <1>1, <1>2, <1>5 DEF ProcessOK, StackOK
  <2>2. HeldOK(s)
    BY <1>1, <1>2, <1>5, <1>6 DEF ProcessOK, HeldOK
  <2>3. ServeOK(s)
    BY <1>1, <1>2, <1>5, <1>6 DEF ProcessOK, ServeOK
  <2>4. LookupOK(s)
    BY <1>1, <1>2, <1>5 DEF ProcessOK, LookupOK
  <2> QED
    BY <2>1, <2>2, <2>3, <2>4 DEF ProcessOK
<1>8. Moves(p)
  BY <1>1, <1>4, <1>7 DEF Moves, HandlersDone, r, s
<1>9. Quiet(p)
  BY <1>2, <1>5, <1>6 DEF Quiet, Runs, r, s
<1> QED
  BY <1>8, <1>9, QuietStep DEF HandlersDone, DaemonInv, DaemonTypeOK

LEMMA StopNotifyInv ==
    ASSUME DaemonInv, NEW p \in Pids, StopNotify(p)
    PROVE  DaemonInv'
<1> DEFINE r == proc[p]  s == proc'[p]
<1>1. /\ proc \in [Pids -> Processes] /\ r \in Processes /\ ProcessOK(r)
      /\ \A k \in 0 .. 5 : r.defers = Stack(k) <=> Height(r) = k
  BY Before
<1>2. /\ r.phase = "unwind" /\ r.ended = "no" /\ r.defers = Stack(5)
  BY CallNames, Pops DEF StopNotify, Unwinding, At
<1>p. Popped(p) = Stack(4)
  BY CallNames, Pops DEF StopNotify
<1>3. s = [r EXCEPT !.defers = Stack(4)]
  BY <1>1, <1>2, <1>p DEF StopNotify
<1>4. s \in Processes
  BY <1>1, <1>2, <1>3, StackIn DEF Processes
<1>5. /\ s.phase = r.phase /\ s.store = r.store /\ s.defers = Stack(4)
      /\ s.poller = r.poller /\ s.serve = r.serve /\ s.serveErr = r.serveErr
      /\ s.http = r.http /\ s.lookup = r.lookup /\ s.err = r.err
      /\ s.ended = r.ended
  BY <1>1, <1>3 DEF Processes
<1>6. Height(s) = 4 /\ Height(r) = 5
  BY <1>1, <1>2, <1>4, <1>5, Heights
<1> HIDE DEF r, s
<1>7. ProcessOK(s)
  <2>1. StackOK(s)
    BY <1>1, <1>2, <1>5 DEF ProcessOK, StackOK
  <2>2. HeldOK(s)
    BY <1>1, <1>2, <1>5, <1>6 DEF ProcessOK, HeldOK
  <2>3. ServeOK(s)
    BY <1>1, <1>2, <1>5, <1>6 DEF ProcessOK, ServeOK
  <2>4. LookupOK(s)
    BY <1>1, <1>2, <1>5 DEF ProcessOK, LookupOK
  <2> QED
    BY <2>1, <2>2, <2>3, <2>4 DEF ProcessOK
<1>8. Moves(p)
  BY <1>1, <1>4, <1>7 DEF Moves, StopNotify, r, s
<1>9. Quiet(p)
  BY <1>2, <1>5, <1>6 DEF Quiet, Runs, r, s
<1> QED
  BY <1>8, <1>9, QuietStep DEF StopNotify, DaemonInv, DaemonTypeOK

LEMMA RpcsDoneInv ==
    ASSUME DaemonInv, NEW p \in Pids, RpcsDone(p)
    PROVE  DaemonInv'
<1> DEFINE r == proc[p]  s == proc'[p]
<1>1. /\ proc \in [Pids -> Processes] /\ r \in Processes /\ ProcessOK(r)
      /\ \A k \in 0 .. 5 : r.defers = Stack(k) <=> Height(r) = k
  BY Before
<1>2. /\ r.phase = "unwind" /\ r.ended = "no" /\ r.serve = "stops" /\ r.defers = Stack(3)
  BY CallNames, Pops DEF RpcsDone, Unwinding, At
<1>p. Popped(p) = Stack(2)
  BY CallNames, Pops DEF RpcsDone
<1>3. s = [r EXCEPT !.serve = "stopped", !.defers = Stack(2)]
  BY <1>1, <1>2, <1>p DEF RpcsDone
<1>4. s \in Processes
  BY <1>1, <1>2, <1>3, StackIn DEF Processes
<1>5. /\ s.phase = r.phase /\ s.store = r.store /\ s.defers = Stack(2)
      /\ s.poller = r.poller /\ s.serve = "stopped"
      /\ s.serveErr = r.serveErr /\ s.http = r.http /\ s.lookup = r.lookup
      /\ s.err = r.err /\ s.ended = r.ended
  BY ZenonT(40), <1>1, <1>3 DEF Processes
<1>6. Height(s) = 2 /\ Height(r) = 3
  BY <1>1, <1>2, <1>4, <1>5, Heights
<1> HIDE DEF r, s
<1>7. ProcessOK(s)
  <2>1. StackOK(s)
    BY <1>1, <1>2, <1>5 DEF ProcessOK, StackOK
  <2>2. HeldOK(s)
    BY <1>1, <1>2, <1>5, <1>6 DEF ProcessOK, HeldOK
  <2>3. ServeOK(s)
    BY <1>1, <1>2, <1>5, <1>6 DEF ProcessOK, ServeOK
  <2>4. LookupOK(s)
    BY <1>1, <1>2, <1>5 DEF ProcessOK, LookupOK
  <2> QED
    BY <2>1, <2>2, <2>3, <2>4 DEF ProcessOK
<1>8. Moves(p)
  BY <1>1, <1>4, <1>7 DEF Moves, RpcsDone, r, s
<1>9. Quiet(p)
  BY <1>2, <1>5, <1>6 DEF Quiet, Runs, r, s
<1> QED
  BY <1>8, <1>9, QuietStep DEF RpcsDone, DaemonInv, DaemonTypeOK

LEMMA StopOracleInv ==
    ASSUME DaemonInv, NEW p \in Pids, StopOracle(p)
    PROVE  DaemonInv'
<1> DEFINE r == proc[p]  s == proc'[p]
<1>1. /\ proc \in [Pids -> Processes] /\ r \in Processes /\ ProcessOK(r)
      /\ \A k \in 0 .. 5 : r.defers = Stack(k) <=> Height(r) = k
  BY Before
<1>2. /\ r.phase = "unwind" /\ r.ended = "no" /\ r.defers = Stack(2)
  BY CallNames, Pops DEF StopOracle, Unwinding, At
<1>p. Popped(p) = Stack(1)
  BY CallNames, Pops DEF StopOracle
<1>3. s = [r EXCEPT !.poller = "off", !.defers = Stack(1)]
  BY <1>1, <1>2, <1>p DEF StopOracle
<1>4. s \in Processes
  BY ZenonT(40), <1>1, <1>2, <1>3, StackIn DEF Processes
<1>5. /\ s.phase = r.phase /\ s.store = r.store /\ s.defers = Stack(1)
      /\ s.poller = "off" /\ s.serve = r.serve /\ s.serveErr = r.serveErr
      /\ s.http = r.http /\ s.lookup = r.lookup /\ s.err = r.err
      /\ s.ended = r.ended
  BY <1>1, <1>3 DEF Processes
<1>6. Height(s) = 1 /\ Height(r) = 2
  BY <1>1, <1>2, <1>4, <1>5, Heights
<1> HIDE DEF r, s
<1>7. ProcessOK(s)
  <2>1. StackOK(s)
    BY <1>1, <1>2, <1>5 DEF ProcessOK, StackOK
  <2>2. HeldOK(s)
    BY <1>1, <1>2, <1>5, <1>6 DEF ProcessOK, HeldOK
  <2>3. ServeOK(s)
    BY <1>1, <1>2, <1>5, <1>6 DEF ProcessOK, ServeOK
  <2>4. LookupOK(s)
    BY <1>1, <1>2, <1>5 DEF ProcessOK, LookupOK
  <2> QED
    BY <2>1, <2>2, <2>3, <2>4 DEF ProcessOK
<1>8. Moves(p)
  BY <1>1, <1>4, <1>7 DEF Moves, StopOracle, r, s
<1>9. Quiet(p)
  BY <1>2, <1>5, <1>6 DEF Quiet, Runs, r, s
<1> QED
  BY <1>8, <1>9, QuietStep DEF StopOracle, DaemonInv, DaemonTypeOK

LEMMA CloseStoreInv ==
    ASSUME DaemonInv, NEW p \in Pids, CloseStore(p)
    PROVE  DaemonInv'
<1> DEFINE r == proc[p]  s == proc'[p]
<1>1. /\ proc \in [Pids -> Processes] /\ r \in Processes /\ ProcessOK(r)
      /\ \A k \in 0 .. 5 : r.defers = Stack(k) <=> Height(r) = k
  BY Before
<1>2. /\ r.phase = "unwind" /\ r.ended = "no" /\ r.defers = Stack(1)
  BY CallNames, Pops DEF CloseStore, Unwinding, At
<1>p. Popped(p) = Stack(0)
  BY CallNames, Pops DEF CloseStore
<1>3. s = [r EXCEPT !.store = FALSE, !.defers = Stack(0)]
  BY <1>1, <1>2, <1>p DEF CloseStore
<1>4. s \in Processes
  BY ZenonT(40), <1>1, <1>2, <1>3, StackIn DEF Processes
<1>5. /\ s.phase = r.phase /\ s.store = FALSE /\ s.defers = Stack(0)
      /\ s.poller = r.poller /\ s.serve = r.serve /\ s.serveErr = r.serveErr
      /\ s.http = r.http /\ s.lookup = r.lookup /\ s.err = r.err
      /\ s.ended = r.ended
  BY <1>1, <1>3 DEF Processes
<1>6. Height(s) = 0 /\ Height(r) = 1
  BY <1>1, <1>2, <1>4, <1>5, Heights
<1> HIDE DEF r, s
<1>7. ProcessOK(s)
  <2>1. StackOK(s)
    BY <1>1, <1>2, <1>5 DEF ProcessOK, StackOK
  <2>2. HeldOK(s)
    BY <1>1, <1>2, <1>5, <1>6 DEF ProcessOK, HeldOK
  <2>3. ServeOK(s)
    BY <1>1, <1>2, <1>5, <1>6 DEF ProcessOK, ServeOK
  <2>4. LookupOK(s)
    BY <1>1, <1>2, <1>5 DEF ProcessOK, LookupOK
  <2> QED
    BY <2>1, <2>2, <2>3, <2>4 DEF ProcessOK
<1>8. Moves(p)
  BY <1>1, <1>4, <1>7 DEF Moves, CloseStore, r, s
<1>9. Quiet(p)
  BY <1>2, <1>5, <1>6 DEF Quiet, Runs, r, s
<1> QED
  BY <1>8, <1>9, QuietStep DEF CloseStore, DaemonInv, DaemonTypeOK

LEMMA PollStartsInv ==
    ASSUME DaemonInv, NEW p \in Pids, PollStarts(p)
    PROVE  DaemonInv'
<1> DEFINE r == proc[p]  s == proc'[p]
<1>1. /\ proc \in [Pids -> Processes] /\ r \in Processes /\ ProcessOK(r)
      /\ \A k \in 0 .. 5 : r.defers = Stack(k) <=> Height(r) = k
  BY Before
<1>2. /\ r.phase # "new" /\ r.ended = "no" /\ r.poller = "waits"
  BY <1>1 DEF PollStarts, At, Runs, ProcessOK, StackOK
<1>3. s = [r EXCEPT !.poller = "polls"]
  BY <1>1, <1>2 DEF PollStarts
<1>4. s \in Processes
  BY <1>1, <1>2, <1>3, StackIn DEF Processes
<1>5. /\ s.phase = r.phase /\ s.store = r.store /\ s.defers = r.defers
      /\ s.poller = "polls" /\ s.serve = r.serve /\ s.serveErr = r.serveErr
      /\ s.http = r.http /\ s.lookup = r.lookup /\ s.err = r.err
      /\ s.ended = r.ended
  BY <1>1, <1>3 DEF Processes
<1>6. Height(s) = Height(r)
  BY <1>5 DEF Height
<1> HIDE DEF r, s
<1>7. ProcessOK(s)
  <2>1. StackOK(s)
    BY <1>1, <1>2, <1>5 DEF ProcessOK, StackOK
  <2>2. HeldOK(s)
    BY <1>1, <1>2, <1>5, <1>6 DEF ProcessOK, HeldOK
  <2>3. ServeOK(s)
    BY <1>1, <1>2, <1>5, <1>6 DEF ProcessOK, ServeOK
  <2>4. LookupOK(s)
    BY <1>1, <1>2, <1>5 DEF ProcessOK, LookupOK
  <2> QED
    BY <2>1, <2>2, <2>3, <2>4 DEF ProcessOK
<1>8. Moves(p)
  BY <1>1, <1>4, <1>7 DEF Moves, PollStarts, r, s
<1>9. Quiet(p)
  BY <1>2, <1>5, <1>6 DEF Quiet, Runs, r, s
<1> QED
  BY <1>8, <1>9, QuietStep DEF PollStarts, DaemonInv, DaemonTypeOK

LEMMA PollEndsInv ==
    ASSUME DaemonInv, NEW p \in Pids, PollEnds(p)
    PROVE  DaemonInv'
<1> DEFINE r == proc[p]  s == proc'[p]
<1>1. /\ proc \in [Pids -> Processes] /\ r \in Processes /\ ProcessOK(r)
      /\ \A k \in 0 .. 5 : r.defers = Stack(k) <=> Height(r) = k
  BY Before
<1>2. /\ r.phase # "new" /\ r.ended = "no" /\ r.poller = "polls"
  BY <1>1 DEF PollEnds, At, Runs, ProcessOK, StackOK
<1>3. s = [r EXCEPT !.poller = "waits"]
  BY <1>1, <1>2 DEF PollEnds
<1>4. s \in Processes
  BY <1>1, <1>2, <1>3, StackIn DEF Processes
<1>5. /\ s.phase = r.phase /\ s.store = r.store /\ s.defers = r.defers
      /\ s.poller = "waits" /\ s.serve = r.serve /\ s.serveErr = r.serveErr
      /\ s.http = r.http /\ s.lookup = r.lookup /\ s.err = r.err
      /\ s.ended = r.ended
  BY <1>1, <1>3 DEF Processes
<1>6. Height(s) = Height(r)
  BY <1>5 DEF Height
<1> HIDE DEF r, s
<1>7. ProcessOK(s)
  <2>1. StackOK(s)
    BY <1>1, <1>2, <1>5 DEF ProcessOK, StackOK
  <2>2. HeldOK(s)
    BY <1>1, <1>2, <1>5, <1>6 DEF ProcessOK, HeldOK
  <2>3. ServeOK(s)
    BY <1>1, <1>2, <1>5, <1>6 DEF ProcessOK, ServeOK
  <2>4. LookupOK(s)
    BY <1>1, <1>2, <1>5 DEF ProcessOK, LookupOK
  <2> QED
    BY <2>1, <2>2, <2>3, <2>4 DEF ProcessOK
<1>8. Moves(p)
  BY <1>1, <1>4, <1>7 DEF Moves, PollEnds, r, s
<1>9. Quiet(p)
  BY <1>2, <1>5, <1>6 DEF Quiet, Runs, r, s
<1> QED
  BY <1>8, <1>9, QuietStep DEF PollEnds, DaemonInv, DaemonTypeOK

LEMMA LookupStartsInv ==
    ASSUME DaemonInv, NEW p \in Pids, LookupStarts(p)
    PROVE  DaemonInv'
<1> DEFINE r == proc[p]  s == proc'[p]
<1>1. /\ proc \in [Pids -> Processes] /\ r \in Processes /\ ProcessOK(r)
      /\ \A k \in 0 .. 5 : r.defers = Stack(k) <=> Height(r) = k
  BY Before
<1>2. /\ r.phase = "unwind" /\ r.ended = "no" /\ r.http = "serves"
  BY <1>1 DEF LookupStarts, At, Runs, ProcessOK, StackOK
<1>3. s = [r EXCEPT !.lookup = TRUE]
  BY <1>1, <1>2 DEF LookupStarts
<1>4. s \in Processes
  BY <1>1, <1>2, <1>3, StackIn DEF Processes
<1>5. /\ s.phase = r.phase /\ s.store = r.store /\ s.defers = r.defers
      /\ s.poller = r.poller /\ s.serve = r.serve /\ s.serveErr = r.serveErr
      /\ s.http = r.http /\ s.lookup = TRUE /\ s.err = r.err
      /\ s.ended = r.ended
  BY <1>1, <1>3 DEF Processes
<1>6. Height(s) = Height(r)
  BY <1>5 DEF Height
<1> HIDE DEF r, s
<1>7. ProcessOK(s)
  <2>1. StackOK(s)
    BY <1>1, <1>2, <1>5 DEF ProcessOK, StackOK
  <2>2. HeldOK(s)
    BY <1>1, <1>2, <1>5, <1>6 DEF ProcessOK, HeldOK
  <2>3. ServeOK(s)
    BY <1>1, <1>2, <1>5, <1>6 DEF ProcessOK, ServeOK
  <2>4. LookupOK(s)
    BY <1>1, <1>2, <1>5 DEF ProcessOK, LookupOK
  <2> QED
    BY <2>1, <2>2, <2>3, <2>4 DEF ProcessOK
<1>8. Moves(p)
  BY <1>1, <1>4, <1>7 DEF Moves, LookupStarts, r, s
<1>9. Quiet(p)
  BY <1>2, <1>5, <1>6 DEF Quiet, Runs, r, s
<1> QED
  BY <1>8, <1>9, QuietStep DEF LookupStarts, DaemonInv, DaemonTypeOK

LEMMA LookupEndsInv ==
    ASSUME DaemonInv, NEW p \in Pids, LookupEnds(p)
    PROVE  DaemonInv'
<1> DEFINE r == proc[p]  s == proc'[p]
<1>1. /\ proc \in [Pids -> Processes] /\ r \in Processes /\ ProcessOK(r)
      /\ \A k \in 0 .. 5 : r.defers = Stack(k) <=> Height(r) = k
  BY Before
<1>2. /\ r.phase # "new" /\ r.ended = "no"
  BY <1>1 DEF LookupEnds, At, Runs, ProcessOK, StackOK
<1>3. s = [r EXCEPT !.lookup = FALSE]
  BY <1>1, <1>2 DEF LookupEnds
<1>4. s \in Processes
  BY <1>1, <1>2, <1>3, StackIn DEF Processes
<1>5. /\ s.phase = r.phase /\ s.store = r.store /\ s.defers = r.defers
      /\ s.poller = r.poller /\ s.serve = r.serve /\ s.serveErr = r.serveErr
      /\ s.http = r.http /\ s.lookup = FALSE /\ s.err = r.err
      /\ s.ended = r.ended
  BY <1>1, <1>3 DEF Processes
<1>6. Height(s) = Height(r)
  BY <1>5 DEF Height
<1> HIDE DEF r, s
<1>7. ProcessOK(s)
  <2>1. StackOK(s)
    BY <1>1, <1>2, <1>5 DEF ProcessOK, StackOK
  <2>2. HeldOK(s)
    BY <1>1, <1>2, <1>5, <1>6 DEF ProcessOK, HeldOK
  <2>3. ServeOK(s)
    BY <1>1, <1>2, <1>5, <1>6 DEF ProcessOK, ServeOK
  <2>4. LookupOK(s)
    BY <1>1, <1>2, <1>5 DEF ProcessOK, LookupOK
  <2> QED
    BY <2>1, <2>2, <2>3, <2>4 DEF ProcessOK
<1>8. Moves(p)
  BY <1>1, <1>4, <1>7 DEF Moves, LookupEnds, r, s
<1>9. Quiet(p)
  BY <1>2, <1>5, <1>6 DEF Quiet, Runs, r, s
<1> QED
  BY <1>8, <1>9, QuietStep DEF LookupEnds, DaemonInv, DaemonTypeOK

LEMMA LaunchInv ==
    ASSUME DaemonInv, NEW p \in Pids, Launch(p)
    PROVE  DaemonInv'
<1> DEFINE r == proc[p]  s == proc'[p]
<1>1. /\ proc \in [Pids -> Processes] /\ r \in Processes /\ ProcessOK(r)
      /\ \A k \in 0 .. 5 : r.defers = Stack(k) <=> Height(r) = k
  BY Before
<1>2. /\ r.phase = "new" /\ r.ended = "no" /\ r.poller = "off"
      /\ r.defers = Stack(0)
  BY <1>1 DEF Launch, At, Runs, ProcessOK, StackOK
<1>3. s = [r EXCEPT !.phase = "open"]
  BY <1>1, <1>2 DEF Launch
<1>4. s \in Processes
  BY <1>1, <1>2, <1>3, StackIn DEF Processes
<1>5. /\ s.phase = "open" /\ s.store = r.store /\ s.defers = r.defers
      /\ s.poller = r.poller /\ s.serve = r.serve /\ s.serveErr = r.serveErr
      /\ s.http = r.http /\ s.lookup = r.lookup /\ s.err = r.err
      /\ s.ended = r.ended
  BY <1>1, <1>3 DEF Processes
<1>6. Height(s) = 0 /\ Height(r) = 0
  BY <1>1, <1>2, <1>4, <1>5, Heights
<1> HIDE DEF r, s
<1>7. ProcessOK(s)
  <2>1. StackOK(s)
    BY <1>1, <1>2, <1>5 DEF ProcessOK, StackOK
  <2>2. HeldOK(s)
    BY <1>1, <1>2, <1>5, <1>6 DEF ProcessOK, HeldOK
  <2>3. ServeOK(s)
    BY <1>1, <1>2, <1>5, <1>6 DEF ProcessOK, ServeOK
  <2>4. LookupOK(s)
    BY <1>1, <1>2, <1>5 DEF ProcessOK, LookupOK
  <2> QED
    BY <2>1, <2>2, <2>3, <2>4 DEF ProcessOK
<1>8. Moves(p)
  BY <1>1, <1>4, <1>7 DEF Moves, Launch, r, s
<1>w. WorldOK /\ StaleFileOnlyByKill /\ DaemonTypeOK
  BY DEF DaemonInv
<1>o. \A q \in Pids \ {p} : proc'[q] = proc[q] /\ (Runs(q)' <=> Runs(q))
  BY <1>8 DEF Moves, Runs
<1>9. DaemonTypeOK'
  BY <1>8 DEF Launch, Moves, DaemonInv, DaemonTypeOK
<1>10. WorldOK'
  <2>1. port' # None => Runs(port)' /\ proc'[port'].serve = "serves"
    BY <1>2, <1>5, <1>6, <1>w, <1>o, DaemonAssumption
      DEF Launch, Runs, WorldOK, DaemonTypeOK, r, s
  <2>2. \A q \in Pids : pidFile' = q /\ Runs(q)' => Height(proc'[q]) >= 4
    BY <1>2, <1>5, <1>6, <1>w, <1>o, DaemonAssumption
      DEF Launch, Runs, WorldOK, DaemonTypeOK, r, s, StaleFileOnlyByKill
  <2>3. (\A q \in Pids : ~proc'[q].serveErr) =>
           \A q \in Pids :
              /\ Runs(q)' /\ proc'[q].serve = "serves" => port' = q
              /\ Runs(q)' /\ Height(proc'[q]) >= 4 => pidFile' = q
    BY <1>7, <1>2, <1>5, <1>6, <1>w, <1>o, DaemonAssumption
      DEF Launch, Runs, WorldOK, DaemonTypeOK, r, s, ProcessOK, ServeOK
  <2> QED
    BY <2>1, <2>2, <2>3 DEF WorldOK
<1>11. StaleFileOnlyByKill'
  BY <1>2, <1>5, <1>8, <1>w DEF Launch, Runs, Moves, StaleFileOnlyByKill, r, s
<1> QED
  BY <1>8, <1>9, <1>10, <1>11, StrongStep

LEMMA ListenInv ==
    ASSUME DaemonInv, NEW p \in Pids, Listen(p)
    PROVE  DaemonInv'
<1> DEFINE r == proc[p]  s == proc'[p]
<1>1. /\ proc \in [Pids -> Processes] /\ r \in Processes /\ ProcessOK(r)
      /\ \A k \in 0 .. 5 : r.defers = Stack(k) <=> Height(r) = k
  BY Before
<1>2. /\ r.phase = "listen" /\ r.ended = "no" /\ r.defers = Stack(2)
  BY <1>1 DEF Listen, At, Runs, ProcessOK, StackOK
<1>3. s = [r EXCEPT !.phase = "http",
                     !.serve = "serves",
                     !.defers = Stack(3)]
  BY <1>1, <1>2, Pushes DEF Listen
<1>4. s \in Processes
  BY ZenonT(40), <1>1, <1>2, <1>3, StackIn DEF Processes
<1>5. /\ s.phase = "http" /\ s.store = r.store /\ s.defers = Stack(3)
      /\ s.poller = r.poller /\ s.serve = "serves"
      /\ s.serveErr = r.serveErr /\ s.http = r.http /\ s.lookup = r.lookup
      /\ s.err = r.err /\ s.ended = r.ended
  BY ZenonT(40), <1>1, <1>3 DEF Processes
<1>6. Height(s) = 3 /\ Height(r) = 2
  BY <1>1, <1>2, <1>4, <1>5, Heights
<1> HIDE DEF r, s
<1>7. ProcessOK(s)
  <2>1. StackOK(s)
    BY <1>1, <1>2, <1>5 DEF ProcessOK, StackOK
  <2>2. HeldOK(s)
    BY <1>1, <1>2, <1>5, <1>6 DEF ProcessOK, HeldOK
  <2>3. ServeOK(s)
    BY <1>1, <1>2, <1>5, <1>6 DEF ProcessOK, ServeOK
  <2>4. LookupOK(s)
    BY <1>1, <1>2, <1>5 DEF ProcessOK, LookupOK
  <2> QED
    BY <2>1, <2>2, <2>3, <2>4 DEF ProcessOK
<1>8. Moves(p)
  BY <1>1, <1>4, <1>7 DEF Moves, Listen, r, s
<1>w. WorldOK /\ StaleFileOnlyByKill /\ DaemonTypeOK
  BY DEF DaemonInv
<1>o. \A q \in Pids \ {p} : proc'[q] = proc[q] /\ (Runs(q)' <=> Runs(q))
  BY <1>8 DEF Moves, Runs
<1>9. DaemonTypeOK'
  BY <1>8 DEF Listen, Moves, DaemonInv, DaemonTypeOK
<1>10. WorldOK'
  <2>1. port' # None => Runs(port)' /\ proc'[port'].serve = "serves"
    BY <1>2, <1>5, <1>6, <1>w, <1>o, DaemonAssumption
      DEF Listen, Runs, WorldOK, DaemonTypeOK, r, s
  <2>2. \A q \in Pids : pidFile' = q /\ Runs(q)' => Height(proc'[q]) >= 4
    BY <1>2, <1>5, <1>6, <1>w, <1>o, DaemonAssumption
      DEF Listen, Runs, WorldOK, DaemonTypeOK, r, s
  <2>3. (\A q \in Pids : ~proc'[q].serveErr) =>
           \A q \in Pids :
              /\ Runs(q)' /\ proc'[q].serve = "serves" => port' = q
              /\ Runs(q)' /\ Height(proc'[q]) >= 4 => pidFile' = q
    <3>1. \A q \in Pids : q # p /\ Runs(q)' /\ proc'[q].serve = "serves" /\ (\A z \in Pids : ~proc'[z].serveErr) => FALSE
      <4>1. port = None
        BY DEF Listen
      <4>2. (\A z \in Pids : ~proc'[z].serveErr) => \A z \in Pids : ~proc[z].serveErr
        BY <1>5, <1>o DEF r, s
      <4> QED
        BY <4>1, <4>2, <1>o, <1>w, DaemonAssumption DEF WorldOK
    <3>2. port' = p /\ pidFile' = pidFile
      BY DEF Listen
    <3>3. (\A z \in Pids : ~proc'[z].serveErr) => \A z \in Pids : ~proc[z].serveErr
      BY <1>5, <1>o DEF r, s
    <3>4. Height(proc'[p]) = 3
      BY <1>6 DEF s
    <3> QED
      BY <1>o, <1>w, <3>1, <3>2, <3>3, <3>4 DEF WorldOK
  <2> QED
    BY <2>1, <2>2, <2>3 DEF WorldOK
<1>11. StaleFileOnlyByKill'
  BY <1>2, <1>5, <1>8, <1>w DEF Listen, Runs, Moves, StaleFileOnlyByKill, r, s
<1> QED
  BY <1>8, <1>9, <1>10, <1>11, StrongStep

LEMMA ServeFailsInv ==
    ASSUME DaemonInv, NEW p \in Pids, ServeFails(p)
    PROVE  DaemonInv'
<1> DEFINE r == proc[p]  s == proc'[p]
<1>1. /\ proc \in [Pids -> Processes] /\ r \in Processes /\ ProcessOK(r)
      /\ \A k \in 0 .. 5 : r.defers = Stack(k) <=> Height(r) = k
  BY Before
<1>2. /\ r.phase # "new" /\ r.ended = "no" /\ r.serve = "serves"
  BY <1>1 DEF ServeFails, At, Runs, ProcessOK, StackOK
<1>3. s = [r EXCEPT !.serve = "failed", !.serveErr = TRUE]
  BY <1>1, <1>2 DEF ServeFails
<1>4. s \in Processes
  BY <1>1, <1>2, <1>3, StackIn DEF Processes
<1>5. /\ s.phase = r.phase /\ s.store = r.store /\ s.defers = r.defers
      /\ s.poller = r.poller /\ s.serve = "failed" /\ s.serveErr = TRUE
      /\ s.http = r.http /\ s.lookup = r.lookup /\ s.err = r.err
      /\ s.ended = r.ended
  BY ZenonT(40), <1>1, <1>3 DEF Processes
<1>6. Height(s) = Height(r)
  BY <1>5 DEF Height
<1> HIDE DEF r, s
<1>7. ProcessOK(s)
  <2>1. StackOK(s)
    BY <1>1, <1>2, <1>5 DEF ProcessOK, StackOK
  <2>2. HeldOK(s)
    BY <1>1, <1>2, <1>5, <1>6 DEF ProcessOK, HeldOK
  <2>3. ServeOK(s)
    BY <1>1, <1>2, <1>5, <1>6 DEF ProcessOK, ServeOK
  <2>4. LookupOK(s)
    BY <1>1, <1>2, <1>5 DEF ProcessOK, LookupOK
  <2> QED
    BY <2>1, <2>2, <2>3, <2>4 DEF ProcessOK
<1>8. Moves(p)
  BY <1>1, <1>4, <1>7 DEF Moves, ServeFails, r, s
<1>w. WorldOK /\ StaleFileOnlyByKill /\ DaemonTypeOK
  BY DEF DaemonInv
<1>o. \A q \in Pids \ {p} : proc'[q] = proc[q] /\ (Runs(q)' <=> Runs(q))
  BY <1>8 DEF Moves, Runs
<1>9. DaemonTypeOK'
  BY <1>8 DEF ServeFails, Moves, DaemonInv, DaemonTypeOK, Release
<1>10. WorldOK'
  <2>1. port' # None => Runs(port)' /\ proc'[port'].serve = "serves"
    BY <1>2, <1>5, <1>6, <1>w, <1>o, DaemonAssumption
      DEF ServeFails, Runs, WorldOK, DaemonTypeOK, r, s, Release
  <2>2. \A q \in Pids : pidFile' = q /\ Runs(q)' => Height(proc'[q]) >= 4
    BY <1>2, <1>5, <1>6, <1>w, <1>o, DaemonAssumption
      DEF ServeFails, Runs, WorldOK, DaemonTypeOK, r, s
  <2>3. (\A q \in Pids : ~proc'[q].serveErr) =>
           \A q \in Pids :
              /\ Runs(q)' /\ proc'[q].serve = "serves" => port' = q
              /\ Runs(q)' /\ Height(proc'[q]) >= 4 => pidFile' = q
    BY <1>2, <1>5, <1>6, <1>w, <1>o, DaemonAssumption
      DEF ServeFails, Runs, WorldOK, DaemonTypeOK, r, s
  <2> QED
    BY <2>1, <2>2, <2>3 DEF WorldOK
<1>11. StaleFileOnlyByKill'
  BY <1>2, <1>5, <1>8, <1>w DEF ServeFails, Runs, Moves, StaleFileOnlyByKill, r, s
<1> QED
  BY <1>8, <1>9, <1>10, <1>11, StrongStep

LEMMA GracefulStopInv ==
    ASSUME DaemonInv, NEW p \in Pids, GracefulStop(p)
    PROVE  DaemonInv'
<1> DEFINE r == proc[p]  s == proc'[p]
<1>1. /\ proc \in [Pids -> Processes] /\ r \in Processes /\ ProcessOK(r)
      /\ \A k \in 0 .. 5 : r.defers = Stack(k) <=> Height(r) = k
  BY Before
<1>2. /\ r.phase = "unwind" /\ r.ended = "no" /\ r.defers = Stack(3)
  BY CallNames, Pops DEF GracefulStop, Unwinding, At
<1>3. s = [r EXCEPT !.serve = "stops"]
  BY <1>1, <1>2 DEF GracefulStop
<1>4. s \in Processes
  BY <1>1, <1>2, <1>3, StackIn DEF Processes
<1>5. /\ s.phase = r.phase /\ s.store = r.store /\ s.defers = r.defers
      /\ s.poller = r.poller /\ s.serve = "stops" /\ s.serveErr = r.serveErr
      /\ s.http = r.http /\ s.lookup = r.lookup /\ s.err = r.err
      /\ s.ended = r.ended
  BY ZenonT(40), <1>1, <1>3 DEF Processes
<1>6. Height(s) = 3 /\ Height(r) = 3
  BY <1>1, <1>2, <1>4, <1>5, Heights
<1> HIDE DEF r, s
<1>7. ProcessOK(s)
  <2>1. StackOK(s)
    BY <1>1, <1>2, <1>5 DEF ProcessOK, StackOK
  <2>2. HeldOK(s)
    BY <1>1, <1>2, <1>5, <1>6 DEF ProcessOK, HeldOK
  <2>3. ServeOK(s)
    BY <1>1, <1>2, <1>5, <1>6 DEF ProcessOK, ServeOK
  <2>4. LookupOK(s)
    BY <1>1, <1>2, <1>5 DEF ProcessOK, LookupOK
  <2> QED
    BY <2>1, <2>2, <2>3, <2>4 DEF ProcessOK
<1>8. Moves(p)
  BY <1>1, <1>4, <1>7 DEF Moves, GracefulStop, r, s
<1>w. WorldOK /\ StaleFileOnlyByKill /\ DaemonTypeOK
  BY DEF DaemonInv
<1>o. \A q \in Pids \ {p} : proc'[q] = proc[q] /\ (Runs(q)' <=> Runs(q))
  BY <1>8 DEF Moves, Runs
<1>9. DaemonTypeOK'
  BY <1>8 DEF GracefulStop, Moves, DaemonInv, DaemonTypeOK, Release
<1>10. WorldOK'
  <2>1. port' # None => Runs(port)' /\ proc'[port'].serve = "serves"
    BY <1>2, <1>5, <1>6, <1>w, <1>o, DaemonAssumption
      DEF GracefulStop, Runs, WorldOK, DaemonTypeOK, r, s, Release
  <2>2. \A q \in Pids : pidFile' = q /\ Runs(q)' => Height(proc'[q]) >= 4
    BY <1>2, <1>5, <1>6, <1>w, <1>o, DaemonAssumption
      DEF GracefulStop, Runs, WorldOK, DaemonTypeOK, r, s
  <2>3. (\A q \in Pids : ~proc'[q].serveErr) =>
           \A q \in Pids :
              /\ Runs(q)' /\ proc'[q].serve = "serves" => port' = q
              /\ Runs(q)' /\ Height(proc'[q]) >= 4 => pidFile' = q
    BY <1>2, <1>5, <1>6, <1>w, <1>o, DaemonAssumption
      DEF GracefulStop, Runs, WorldOK, DaemonTypeOK, r, s, Release
  <2> QED
    BY <2>1, <2>2, <2>3 DEF WorldOK
<1>11. StaleFileOnlyByKill'
  BY <1>2, <1>5, <1>8, <1>w DEF GracefulStop, Runs, Moves, StaleFileOnlyByKill, r, s
<1> QED
  BY <1>8, <1>9, <1>10, <1>11, StrongStep

LEMMA writePIDFileInv ==
    ASSUME DaemonInv, NEW p \in Pids, writePIDFile(p)
    PROVE  DaemonInv'
<1> DEFINE r == proc[p]  s == proc'[p]
<1>1. /\ proc \in [Pids -> Processes] /\ r \in Processes /\ ProcessOK(r)
      /\ \A k \in 0 .. 5 : r.defers = Stack(k) <=> Height(r) = k
  BY Before
<1>2. /\ r.phase = "pid" /\ r.ended = "no" /\ r.defers = Stack(3)
  BY <1>1 DEF writePIDFile, At, Runs, ProcessOK, StackOK
<1>3. s = [r EXCEPT !.phase = "notify", !.defers = Stack(4)]
  BY <1>1, <1>2, Pushes DEF writePIDFile
<1>4. s \in Processes
  BY <1>1, <1>2, <1>3, StackIn DEF Processes
<1>5. /\ s.phase = "notify" /\ s.store = r.store /\ s.defers = Stack(4)
      /\ s.poller = r.poller /\ s.serve = r.serve /\ s.serveErr = r.serveErr
      /\ s.http = r.http /\ s.lookup = r.lookup /\ s.err = r.err
      /\ s.ended = r.ended
  BY <1>1, <1>3 DEF Processes
<1>6. Height(s) = 4 /\ Height(r) = 3
  BY <1>1, <1>2, <1>4, <1>5, Heights
<1> HIDE DEF r, s
<1>7. ProcessOK(s)
  <2>1. StackOK(s)
    BY <1>1, <1>2, <1>5 DEF ProcessOK, StackOK
  <2>2. HeldOK(s)
    BY <1>1, <1>2, <1>5, <1>6 DEF ProcessOK, HeldOK
  <2>3. ServeOK(s)
    BY <1>1, <1>2, <1>5, <1>6 DEF ProcessOK, ServeOK
  <2>4. LookupOK(s)
    BY <1>1, <1>2, <1>5 DEF ProcessOK, LookupOK
  <2> QED
    BY <2>1, <2>2, <2>3, <2>4 DEF ProcessOK
<1>8. Moves(p)
  BY <1>1, <1>4, <1>7 DEF Moves, writePIDFile, r, s
<1>w. WorldOK /\ StaleFileOnlyByKill /\ DaemonTypeOK
  BY DEF DaemonInv
<1>o. \A q \in Pids \ {p} : proc'[q] = proc[q] /\ (Runs(q)' <=> Runs(q))
  BY <1>8 DEF Moves, Runs
<1>9. DaemonTypeOK'
  BY <1>8 DEF writePIDFile, Moves, DaemonInv, DaemonTypeOK
<1>10. WorldOK'
  <2>1. port' # None => Runs(port)' /\ proc'[port'].serve = "serves"
    BY <1>2, <1>5, <1>6, <1>w, <1>o, DaemonAssumption
      DEF writePIDFile, Runs, WorldOK, DaemonTypeOK, r, s
  <2>2. \A q \in Pids : pidFile' = q /\ Runs(q)' => Height(proc'[q]) >= 4
    BY <1>2, <1>5, <1>6, <1>w, <1>o, DaemonAssumption
      DEF writePIDFile, Runs, WorldOK, DaemonTypeOK, r, s
  <2>3. (\A q \in Pids : ~proc'[q].serveErr) =>
           \A q \in Pids :
              /\ Runs(q)' /\ proc'[q].serve = "serves" => port' = q
              /\ Runs(q)' /\ Height(proc'[q]) >= 4 => pidFile' = q
    <3>1. SUFFICES ASSUME \A q \in Pids : ~proc'[q].serveErr
                   PROVE  \A q \in Pids :
                             /\ Runs(q)' /\ proc'[q].serve = "serves" => port' = q
                             /\ Runs(q)' /\ Height(proc'[q]) >= 4 => pidFile' = q
      OBVIOUS
    <3>2. \A q \in Pids : ~proc[q].serveErr
      BY <3>1, <1>5, <1>o DEF r, s
    <3>3. r.serve = "serves" /\ Runs(p)
      BY <1>1, <1>2, <3>2 DEF ProcessOK, ServeOK, Runs, r
    <3>4. port = p /\ port' = p /\ pidFile' = p
      BY <1>w, <3>2, <3>3 DEF WorldOK, writePIDFile, r
    <3>5. \A q \in Pids : Runs(q) /\ Height(proc[q]) >= 4 => proc[q].serve = "serves"
      BY <3>2 DEF DaemonInv, ProcessOK, ServeOK, Runs
    <3>6. \A q \in Pids : Runs(q) /\ proc[q].serve = "serves" => q = p
      BY <1>w, <3>2, <3>4 DEF WorldOK
    <3> QED
      BY <1>o, <3>4, <3>5, <3>6
  <2> QED
    BY <2>1, <2>2, <2>3 DEF WorldOK
<1>11. StaleFileOnlyByKill'
  BY <1>2, <1>5, <1>8, <1>w DEF writePIDFile, Runs, Moves, StaleFileOnlyByKill, r, s
<1> QED
  BY <1>8, <1>9, <1>10, <1>11, StrongStep

LEMMA RemovePidFileInv ==
    ASSUME DaemonInv, NEW p \in Pids, RemovePidFile(p)
    PROVE  DaemonInv'
<1> DEFINE r == proc[p]  s == proc'[p]
<1>1. /\ proc \in [Pids -> Processes] /\ r \in Processes /\ ProcessOK(r)
      /\ \A k \in 0 .. 5 : r.defers = Stack(k) <=> Height(r) = k
  BY Before
<1>2. /\ r.phase = "unwind" /\ r.ended = "no" /\ r.defers = Stack(4)
  BY CallNames, Pops DEF RemovePidFile, Unwinding, At
<1>p. Popped(p) = Stack(3)
  BY CallNames, Pops DEF RemovePidFile
<1>3. s = [r EXCEPT !.defers = Stack(3)]
  BY <1>1, <1>2, <1>p DEF RemovePidFile
<1>4. s \in Processes
  BY <1>1, <1>2, <1>3, StackIn DEF Processes
<1>5. /\ s.phase = r.phase /\ s.store = r.store /\ s.defers = Stack(3)
      /\ s.poller = r.poller /\ s.serve = r.serve /\ s.serveErr = r.serveErr
      /\ s.http = r.http /\ s.lookup = r.lookup /\ s.err = r.err
      /\ s.ended = r.ended
  BY <1>1, <1>3 DEF Processes
<1>6. Height(s) = 3 /\ Height(r) = 4
  BY <1>1, <1>2, <1>4, <1>5, Heights
<1> HIDE DEF r, s
<1>7. ProcessOK(s)
  <2>1. StackOK(s)
    BY <1>1, <1>2, <1>5 DEF ProcessOK, StackOK
  <2>2. HeldOK(s)
    BY <1>1, <1>2, <1>5, <1>6 DEF ProcessOK, HeldOK
  <2>3. ServeOK(s)
    BY <1>1, <1>2, <1>5, <1>6 DEF ProcessOK, ServeOK
  <2>4. LookupOK(s)
    BY <1>1, <1>2, <1>5 DEF ProcessOK, LookupOK
  <2> QED
    BY <2>1, <2>2, <2>3, <2>4 DEF ProcessOK
<1>8. Moves(p)
  BY <1>1, <1>4, <1>7 DEF Moves, RemovePidFile, r, s
<1>w. WorldOK /\ StaleFileOnlyByKill /\ DaemonTypeOK
  BY DEF DaemonInv
<1>o. \A q \in Pids \ {p} : proc'[q] = proc[q] /\ (Runs(q)' <=> Runs(q))
  BY <1>8 DEF Moves, Runs
<1>9. DaemonTypeOK'
  BY <1>8 DEF RemovePidFile, Moves, DaemonInv, DaemonTypeOK
<1>10. WorldOK'
  <2>1. port' # None => Runs(port)' /\ proc'[port'].serve = "serves"
    BY <1>2, <1>5, <1>6, <1>w, <1>o, DaemonAssumption
      DEF RemovePidFile, Runs, WorldOK, DaemonTypeOK, r, s
  <2>2. \A q \in Pids : pidFile' = q /\ Runs(q)' => Height(proc'[q]) >= 4
    BY <1>2, <1>5, <1>6, <1>w, <1>o, DaemonAssumption
      DEF RemovePidFile, Runs, WorldOK, DaemonTypeOK, r, s
  <2>3. (\A q \in Pids : ~proc'[q].serveErr) =>
           \A q \in Pids :
              /\ Runs(q)' /\ proc'[q].serve = "serves" => port' = q
              /\ Runs(q)' /\ Height(proc'[q]) >= 4 => pidFile' = q
    BY <1>2, <1>5, <1>6, <1>w, <1>o, DaemonAssumption
      DEF RemovePidFile, Runs, WorldOK, DaemonTypeOK, r, s
  <2> QED
    BY <2>1, <2>2, <2>3 DEF WorldOK
<1>11. StaleFileOnlyByKill'
  BY <1>2, <1>5, <1>8, <1>w, DaemonAssumption
    DEF RemovePidFile, Runs, Moves, StaleFileOnlyByKill, r, s
<1> QED
  BY <1>8, <1>9, <1>10, <1>11, StrongStep

-----------------------------------------------------------------------------
(***************************************************************************)
(* The ends of a process.                                                  *)
(***************************************************************************)
\* A process ends by Exit only with all its deferred calls run, and by a
\* signal only without the handler.
LEMMA EndsInv ==
    ASSUME DaemonInv, NEW p \in Pids, Runs(p),
           NEW how \in {"returned", "signal", "crash"}, Ends(p, how),
           how = "returned" => Height(proc[p]) = 0,
           how = "signal" => Height(proc[p]) # 5,
           pidFile' = pidFile, cli' \in Pids \cup {None}
    PROVE  DaemonInv'
<1> DEFINE r == proc[p]  s == proc'[p]
<1>1. /\ proc \in [Pids -> Processes] /\ r \in Processes /\ ProcessOK(r)
      /\ Height(r) \in 0 .. 5
      /\ \A k \in 0 .. 5 : r.defers = Stack(k) <=> Height(r) = k
  BY Before
<1>2. s = [NotStarted EXCEPT !.phase = r.phase, !.defers = r.defers,
                             !.serveErr = r.serveErr, !.ended = how]
  BY <1>1 DEF Ends
<1>3. s \in Processes
  BY ZenonT(40), <1>1, <1>2 DEF Processes, NotStarted
<1>4. /\ s.phase = r.phase /\ s.defers = r.defers /\ s.serveErr = r.serveErr
      /\ s.ended = how /\ s.poller = "off"
  BY <1>2 DEF NotStarted
<1> HIDE DEF r, s
<1>5. ProcessOK(s)
  <2>1. r.phase # "new" /\ s.ended # "no"
    BY <1>4 DEF Runs, r
  <2> QED
    BY <1>1, <1>4, <2>1 DEF ProcessOK, StackOK
<1>6. Moves(p)
  BY <1>1, <1>3, <1>5 DEF Moves, Ends, r, s
<1>7. ~Runs(p)' /\ \A q \in Pids \ {p} : proc'[q] = proc[q] /\ (Runs(q)' <=> Runs(q))
  BY <1>4, <1>6 DEF Moves, Runs, s
<1>8. WorldOK /\ StaleFileOnlyByKill /\ DaemonTypeOK
  BY DEF DaemonInv
<1>9. DaemonTypeOK'
  BY <1>6, <1>8 DEF Moves, Ends, Release, DaemonTypeOK
<1>10. WorldOK'
  <2>1. port' = (IF port = p THEN None ELSE port)
    BY DEF Ends, Release
  <2>2. port' # None => Runs(port)' /\ proc'[port'].serve = "serves"
    <3> SUFFICES ASSUME port' # None PROVE Runs(port)' /\ proc'[port'].serve = "serves"
      BY DEF Runs
    <3>1. port # p /\ port' = port
      BY <2>1
    <3>2. port \in Pids \ {p} /\ Runs(port) /\ proc[port].serve = "serves"
      BY <1>8, <3>1 DEF DaemonTypeOK, WorldOK
    <3>3. proc'[port] = proc[port]
      BY <1>7, <3>2
    <3> QED
      BY <3>1, <3>2, <3>3 DEF Runs
  <2>3. \A q \in Pids : pidFile' = q /\ Runs(q)' => Height(proc'[q]) >= 4
    BY <1>7, <1>8 DEF WorldOK
  <2>4. (\A q \in Pids : ~proc'[q].serveErr) =>
           \A q \in Pids :
              /\ Runs(q)' /\ proc'[q].serve = "serves" => port' = q
              /\ Runs(q)' /\ Height(proc'[q]) >= 4 => pidFile' = q
    <3>1. (\A q \in Pids : ~proc'[q].serveErr) => \A q \in Pids : ~proc[q].serveErr
      BY <1>4, <1>7 DEF r, s
    <3> QED
      BY <1>7, <1>8, <2>1, <3>1 DEF WorldOK
  <2> QED
    BY <2>2, <2>3, <2>4 DEF WorldOK
<1>11. StaleFileOnlyByKill'
  <2>1. ASSUME pidFile = p, how # "crash"
        PROVE  /\ how = "signal"
               /\ r.phase = "notify" \/ (r.phase = "unwind" /\ r.defers = Stack(4))
    <3>1. Height(r) >= 4
      BY <1>8, <2>1 DEF WorldOK, r
    <3>2. how = "signal" /\ Height(r) = 4 /\ r.defers = Stack(4)
      BY <1>1, <2>1, <3>1 DEF r
    <3>3. r.phase \in {"notify", "unwind"}
      <4>1. /\ r.defers # Stack(0) /\ r.defers # Stack(1) /\ r.defers # Stack(2)
            /\ r.defers # Stack(3) /\ r.defers # Stack(5)
        BY <1>1, <3>2
      <4>2. StackOK(r)
        BY <1>1 DEF ProcessOK
      <4>3. r.phase \in {"new", "open", "config", "initial", "listen", "http", "pid",
                         "notify", "select", "shutdown", "unwind"}
        BY <1>1 DEF Processes
      <4> QED
        BY <4>1, <4>2, <4>3 DEF StackOK
    <3> QED
      BY <3>2, <3>3
  <2>2. pidFile' = p => \/ s.ended = "crash"
                        \/ /\ s.ended = "signal"
                           /\ \/ s.phase = "notify"
                              \/ s.phase = "unwind" /\ s.defers = Stack(4)
    BY <1>4, <2>1
  <2> QED
    BY <1>7, <1>8, <2>2 DEF StaleFileOnlyByKill, s
<1> QED
  BY <1>6, <1>9, <1>10, <1>11, StrongStep

LEMMA ExitInv ==
    ASSUME DaemonInv, NEW p \in Pids, Exit(p)
    PROVE  DaemonInv'
<1>1. Height(proc[p]) = 0
  BY Before, StackEmpty DEF Exit
<1> QED
  BY <1>1, EndsInv DEF Exit, At, Runs, DaemonInv, DaemonTypeOK

\* With the handler a signal is noted, without it the process is gone.
LEMMA SignalInv ==
    ASSUME DaemonInv, NEW p \in Pids, Runs(p), Signal(p),
           pidFile' = pidFile, cli' \in Pids \cup {None}
    PROVE  DaemonInv'
<1>1. /\ proc \in [Pids -> Processes] /\ proc[p] \in Processes /\ ProcessOK(proc[p])
      /\ Height(proc[p]) \in 0 .. 5
      /\ \A k \in 0 .. 5 : proc[p].defers = Stack(k) <=> Height(proc[p]) = k
  BY Before
<1>2. CASE Deferred(p, "stop")
  <2>1. /\ port' = port
        /\ proc' = [proc EXCEPT ![p].signalled = At(p, "select")]
    BY <1>2 DEF Signal
  <2>2. At(p, "select") \in BOOLEAN
    BY DEF At
  <2>3. proc'[p] \in Processes
    BY <1>1, <2>1, <2>2 DEF Processes
  <2>4. /\ proc'[p].phase = proc[p].phase /\ proc'[p].defers = proc[p].defers
        /\ proc'[p].err = proc[p].err /\ proc'[p].ended = proc[p].ended
        /\ proc'[p].store = proc[p].store /\ proc'[p].poller = proc[p].poller
        /\ proc'[p].serve = proc[p].serve /\ proc'[p].serveErr = proc[p].serveErr
        /\ proc'[p].http = proc[p].http /\ proc'[p].lookup = proc[p].lookup
    BY <1>1, <2>1 DEF Processes
  <2>5. ProcessOK(proc'[p])
    <3> DEFINE r == proc[p]  s == proc'[p]
    <3>1. Height(s) = Height(r)
      BY <2>4 DEF Height
    <3> HIDE DEF r, s
    <3>2. StackOK(s)
      BY <1>1, <2>4 DEF ProcessOK, StackOK, r, s
    <3>3. HeldOK(r) => HeldOK(s)
      BY <2>4, <3>1 DEF HeldOK, r, s
    <3>4. ServeOK(r) => ServeOK(s)
      BY <2>4, <3>1 DEF ServeOK, r, s
    <3>5. LookupOK(r) => LookupOK(s)
      BY <2>4 DEF LookupOK, r, s
    <3> QED
      BY <1>1, <2>4, <3>2, <3>3, <3>4, <3>5 DEF ProcessOK, r, s
  <2>6. Moves(p)
    BY <1>1, <2>1, <2>3, <2>5 DEF Moves
  <2>7. Quiet(p)
    BY <2>4 DEF Quiet, Runs, Height
  <2> QED
    BY <2>1, <2>6, <2>7, QuietStep
<1>3. CASE ~Deferred(p, "stop")
  <2>1. Height(proc[p]) # 5
    BY <1>1, <1>3, StackHandler DEF Deferred
  <2>2. Ends(p, "signal")
    BY <1>3 DEF Signal
  <2> QED
    BY <2>1, <2>2, EndsInv
<1> QED
  BY <1>2, <1>3

-----------------------------------------------------------------------------
(***************************************************************************)
(* The theorems.                                                           *)
(***************************************************************************)
LEMMA InitInv == Init => DaemonInv
<1> SUFFICES ASSUME Init PROVE DaemonInv
  OBVIOUS
<1>1. /\ NotStarted.phase = "new" /\ NotStarted.defers = Stack(0)
      /\ NotStarted.ended = "no" /\ NotStarted.poller = "off"
      /\ NotStarted.store = FALSE /\ NotStarted.serve = "off"
      /\ NotStarted.lookup = FALSE /\ NotStarted.http = "off"
  BY StackEmpty DEF NotStarted
<1>2. NotStarted \in Processes
  BY StackEmpty, StackIn DEF NotStarted, Processes
<1>3. Height(NotStarted) = 0
  BY <1>1, <1>2, Heights
<1>4. ProcessOK(NotStarted)
  BY <1>1, <1>3 DEF ProcessOK, StackOK, HeldOK, ServeOK, LookupOK
<1>5. DaemonTypeOK
  BY <1>2 DEF Init, DaemonTypeOK
<1>6. \A p \in Pids : proc[p] = NotStarted /\ ~Runs(p)
  BY <1>1 DEF Init, Runs
<1>7. WorldOK
  BY <1>6, DaemonAssumption DEF Init, WorldOK
<1>8. StaleFileOnlyByKill
  BY DaemonAssumption DEF Init, StaleFileOnlyByKill
<1> QED
  BY <1>4, <1>5, <1>6, <1>7, <1>8 DEF DaemonInv

LEMMA NextInv == DaemonInv /\ [Next]_vars => DaemonInv'
<1> SUFFICES ASSUME DaemonInv, [Next]_vars PROVE DaemonInv'
  OBVIOUS
<1>1. ASSUME NEW p \in Pids, Launch(p) PROVE DaemonInv'
  BY <1>1, LaunchInv
<1>2. ASSUME NEW p \in Pids, WayUp(p) PROVE DaemonInv'
  <2>1. CASE OpenFails(p) \/ ConfigFails(p) \/ ListenFails(p) \/ WriteFails(p)
    BY <2>1, ReturnsInv DEF OpenFails, ConfigFails, ListenFails, WriteFails, At
  <2> QED
    BY <1>2, <2>1, OpenStoreInv, InitialPollInv, StartReturnsInv, ListenInv,
       StartHTTPInv, writePIDFileInv, NotifyContextInv DEF WayUp
<1>3. ASSUME NEW p \in Pids, WayDown(p) PROVE DaemonInv'
  <2>1. CASE ServerError(p) \/ ShutdownTimesOut(p)
    BY <2>1, ReturnsInv DEF ServerError, ShutdownTimesOut, At
  <2> QED
    BY <1>3, <2>1, SignalReceivedInv, HandlersDoneInv, StopNotifyInv,
       RemovePidFileInv, GracefulStopInv, RpcsDoneInv, StopOracleInv,
       CloseStoreInv, ExitInv DEF WayDown
<1>4. ASSUME NEW p \in Pids, Goroutine(p) PROVE DaemonInv'
  BY <1>4, PollStartsInv, PollEndsInv, ServeFailsInv, LookupStartsInv,
     LookupEndsInv DEF Goroutine
<1>5. ASSUME NEW p \in Pids, OperatorSignals(p) \/ Crash(p) PROVE DaemonInv'
  BY <1>5, SignalInv, EndsInv DEF OperatorSignals, Crash, DaemonInv, DaemonTypeOK
<1>6. CASE CliReads \/ UNCHANGED vars
  <2>1. proc' = proc /\ pidFile' = pidFile /\ port' = port /\ cli' \in Pids \cup {None}
    BY <1>6 DEF CliReads, vars, DaemonInv, DaemonTypeOK
  <2> QED
    BY <2>1 DEF DaemonInv, DaemonTypeOK, WorldOK, StaleFileOnlyByKill, Runs
<1>7. CASE CliSignals
  <2>1. cli \in Pids /\ cli' \in Pids \cup {None} /\ pidFile' = pidFile
    BY <1>7 DEF CliSignals, DaemonInv, DaemonTypeOK
  <2>2. CASE Runs(cli)
    BY <1>7, <2>1, <2>2, SignalInv DEF CliSignals
  <2>3. CASE ~Runs(cli)
    <3>1. proc' = proc /\ port' = port
      BY <1>7, <2>3 DEF CliSignals
    <3> QED
      BY <2>1, <3>1 DEF DaemonInv, DaemonTypeOK, WorldOK, StaleFileOnlyByKill, Runs
  <2> QED
    BY <2>2, <2>3
<1> QED
  BY <1>1, <1>2, <1>3, <1>4, <1>5, <1>6, <1>7 DEF Next

\* In every reachable state of run, for any number of processes, the deferred
\* calls are a prefix of Calls fixed by the phase, every process holds what
\* they say, and the port and the PID file agree with the processes
\* (main.go:66-177).
THEOREM DaemonInvariant == Spec => []DaemonInv
<1> QED
  BY InitInv, NextInv, PTL DEF Spec

\* The state of the processes, the file, the port and the command line client
\* has its type, whatever happens.
THEOREM DaemonTypeCorrect == Spec => []DaemonTypeOK
<1>1. DaemonInv => DaemonTypeOK
  BY DEF DaemonInv
<1> QED
  BY <1>1, DaemonInvariant, PTL

\* Whatever processes are started, stopped and killed on the data directory,
\* the PID file names the one that waits, while no Serve has failed
\* (main.go:122-155).
THEOREM DaemonStaysNamed == Spec => []WaitingDaemonIsNamed
<1>1. DaemonInv => WaitingDaemonIsNamed
  <2> SUFFICES ASSUME DaemonInv, \A q \in Pids : ~proc[q].serveErr,
                      NEW p \in Pids, Runs(p),
                      proc[p].phase \in {"notify", "select", "shutdown"}
               PROVE  pidFile = p
    BY DEF WaitingDaemonIsNamed
  <2>1. Height(proc[p]) \in {4, 5}
    BY Before DEF ProcessOK, StackOK
  <2> QED
    BY <2>1 DEF DaemonInv, WorldOK
<1> QED
  BY <1>1, DaemonInvariant, PTL

\* However run returns, the poller is over before the store is closed, and so
\* is every lookup that Shutdown waited for (main.go:73-177).
THEOREM StoreClosedLast == Spec => []NothingUsesClosedStore
<1>1. DaemonInv => NothingUsesClosedStore
  <2> SUFFICES ASSUME DaemonInv, NEW p \in Pids, Runs(p), ~proc[p].store
               PROVE  /\ proc[p].poller = "off"
                      /\ proc[p].lookup =>
                            \/ proc[p].http = "stops"
                            \/ proc[p].err \in {"writing PID file", "gRPC server error"}
    BY DEF NothingUsesClosedStore
  <2>1. ProcessOK(proc[p]) /\ \A k \in 0 .. 5 : proc[p].defers = Stack(k) <=> Height(proc[p]) = k
    BY Before
  <2>2. StackOK(proc[p]) /\ HeldOK(proc[p]) /\ LookupOK(proc[p])
    BY <2>1 DEF ProcessOK, Runs
  <2>3. Height(proc[p]) \in 0 .. 5 /\ ~(Height(proc[p]) >= 1)
    BY <2>2, Before DEF HeldOK
  <2>4. proc[p].phase # "initial" /\ proc[p].phase # "shutdown"
        /\ proc[p].phase \notin {"pid", "notify", "select"}
    BY <2>1, <2>2, <2>3 DEF StackOK
  <2>5. proc[p].poller = "off"
    BY <2>2, <2>3, <2>4 DEF HeldOK
  <2>6. ASSUME proc[p].lookup
        PROVE  \/ proc[p].http = "stops"
               \/ proc[p].err \in {"writing PID file", "gRPC server error"}
    BY <2>2, <2>4, <2>6 DEF LookupOK
  <2> QED
    BY <2>5, <2>6
<1> QED
  BY <1>1, DaemonInvariant, PTL

\* A PID file that names no running process was left by a crash, or by a
\* signal before NotifyContext or after stop (main.go:144-155).
THEOREM StaleFilesExplained == Spec => []StaleFileOnlyByKill
<1>1. DaemonInv => StaleFileOnlyByKill
  BY DEF DaemonInv
<1> QED
  BY <1>1, DaemonInvariant, PTL
=============================================================================
