------------------------------- MODULE BibServer -------------------------------
(***************************************************************************)
(* The connection core of bibserver: the main thread's select loop, the    *)
(* descriptor set shared with the workers, the queue of ready descriptors, *)
(* the worker threads that serve them, the signal thread and the orderly   *)
(* shutdown.  What a worker does with one request (the search, the loans,  *)
(* the reply, the log) is the subject of LoanDesk; here a reply is a step. *)
(*                                                                         *)
(* One step is the code a thread runs between two accesses to what it      *)
(* shares with another thread.  The mutex m (bibserver.c:176) is modelled  *)
(* explicitly; the queue is the sequence its own mutex makes of it.        *)
(***************************************************************************)
EXTENDS Integers, Sequences, FiniteSets

CONSTANTS
  Clients,   \* client processes; each makes one connection to this server
  Workers,   \* the worker threads, thread_id[0 .. n_thr_Server - 1]
  Listen,    \* the descriptor serverSocket; all the lower ones are in use
  FDLimit,   \* descriptors of the process are 0 .. FDLimit - 1
  Main,      \* the main thread, as an owner of the mutex
  None       \* no owner of the mutex, no peer of a descriptor

ASSUME ServerAssumption ==
  /\ Listen \in Nat \ {0}
  /\ FDLimit \in Nat
  /\ Listen < FDLimit
  /\ Main \notin Workers
  /\ None \notin Workers \cup {Main}
  /\ None \notin Clients

VARIABLES
  running,   \* the static flag cleared by the signal thread
  mainpc,    \* where the main thread is
  allFDs,    \* descriptors select watches (shared, under m)
  maxFD,     \* greatest watched descriptor (shared, under m)
  m,         \* owner of the mutex m
  readFDs,   \* main: the copy given to select, then what is left to scan
  currMax,   \* main: the copy of maxFD that bounds select and the scan
  clientFD,  \* main: the last descriptor accept returned
  lastFd,    \* main: the last descriptor pushed
  queue,     \* queue_of_FDs
  wpc,       \* where each worker is
  wfd,       \* the descriptor a worker popped
  peer,      \* kernel: the client at the other end of a descriptor, or None
  backlog,   \* kernel: connections established and not accepted yet
  link,      \* a client's end of its connection
  request    \* how far a client's request has come

mainVars == <<mainpc, readFDs, currMax, clientFD, lastFd>>
workerVars == <<wpc, wfd>>
fdVars == <<allFDs, maxFD, m>>
kernelVars == <<peer, backlog, link, request>>
vars == <<running, mainVars, workerVars, fdVars, queue, kernelVars>>

FDs == (Listen + 1) .. (FDLimit - 1)   \* what accept may return

MainStates == {"loop", "select", "scan", "register", "raise", "join", "save",
               "exited", "failed", "killed"}
WorkerStates == {"pop", "check", "read", "size", "serve", "reject", "clear",
                 "aggiorna", "done"}

\* The process is gone once main returned, a thread called exit, or a signal
\* killed it: no thread takes another step.
Alive == mainpc \notin {"exited", "failed", "killed"}

\* What a client writes: a request with a year that is a year (or with none),
\* one with another year, or, when it was given -p and no field, the type only:
\* the size of the message is that of its fields and one more.
RequestKinds == {"valid", "invalid", "bare"}

Pending(c) == request[c] \in RequestKinds

\* A read on c's connection returns: with the request, or with end of file.
Readable(c) == Pending(c) \/ link[c] = "closed"

Ready(f) == IF f = Listen THEN backlog # <<>> ELSE Readable(peer[f])

-----------------------------------------------------------------------------
Init ==
  /\ running = TRUE
  /\ mainpc = "loop"
  /\ allFDs = {Listen}
  /\ maxFD = Listen
  /\ m = None
  /\ readFDs = {}
  /\ currMax = 0
  /\ clientFD = -1
  /\ lastFd = 0
  /\ queue = <<>>
  /\ wpc = [w \in Workers |-> "pop"]
  /\ wfd = [w \in Workers |-> 0]
  /\ peer = [f \in FDs |-> None]
  /\ backlog = <<>>
  /\ link = [c \in Clients |-> "idle"]
  /\ request = [c \in Clients |-> "unsent"]

-----------------------------------------------------------------------------
(* The main thread. *)

MainTo(s) == mainpc' = s

\* The head of the while loop: copy the watched set and its maximum.
MainSnapshot ==
  /\ mainpc = "loop" /\ running
  /\ m = None
  /\ readFDs' = allFDs
  /\ currMax' = maxFD
  /\ MainTo("select")
  /\ UNCHANGED <<running, clientFD, lastFd, workerVars, fdVars, queue, kernelVars>>

MainStop ==
  /\ mainpc = "loop" /\ ~running
  /\ MainTo("join")
  /\ UNCHANGED <<running, readFDs, currMax, clientFD, lastFd, workerVars, fdVars,
                 queue, kernelVars>>

\* select keeps the ready descriptors below nfds.  It always returns: its
\* timeout is one second, and zero once that second has been spent.
MainSelect ==
  /\ mainpc = "select"
  /\ readFDs' = {f \in readFDs : f < currMax + 1 /\ Ready(f)}
  /\ MainTo("scan")
  /\ UNCHANGED <<running, currMax, clientFD, lastFd, workerVars, fdVars, queue,
                 kernelVars>>

\* The for loop visits the set descriptors in ascending order.
ScanAt(i) ==
  /\ mainpc = "scan"
  /\ i \in readFDs
  /\ \A j \in readFDs : i <= j

\* accept returns the lowest free descriptor.
LowestFree(f) ==
  /\ peer[f] = None
  /\ \A g \in FDs : peer[g] = None => f <= g

MainAccept ==
  /\ ScanAt(Listen)
  /\ backlog # <<>>
  /\ \E f \in FDs :
       /\ LowestFree(f)
       /\ peer' = [peer EXCEPT ![f] = Head(backlog)]
       /\ clientFD' = f
  /\ backlog' = Tail(backlog)
  /\ readFDs' = readFDs \ {Listen}
  /\ MainTo("register")
  /\ UNCHANGED <<running, currMax, lastFd, workerVars, fdVars, queue, link, request>>

\* No descriptor is left: accept fails and the server exits at once.
MainAcceptFails ==
  /\ ScanAt(Listen)
  /\ \A f \in FDs : peer[f] # None
  /\ MainTo("failed")
  /\ UNCHANGED <<running, readFDs, currMax, clientFD, lastFd, workerVars, fdVars,
                 queue, kernelVars>>

MainRegister ==
  /\ mainpc = "register"
  /\ m = None
  /\ m' = Main
  /\ allFDs' = allFDs \cup {clientFD}
  /\ MainTo("raise")
  /\ UNCHANGED <<running, maxFD, readFDs, currMax, clientFD, lastFd, workerVars,
                 queue, kernelVars>>

MutantKeptMax == maxFD

RaisedMax == IF clientFD > maxFD THEN clientFD ELSE maxFD

MainRaiseMax ==
  /\ mainpc = "raise"
  /\ maxFD' = RaisedMax
  /\ m' = None
  /\ MainTo("scan")
  /\ UNCHANGED <<running, allFDs, readFDs, currMax, clientFD, lastFd, workerVars,
                 queue, kernelVars>>

MutantAnyDescriptor(i) == i # Listen
MutantNotTheLast(i) == i # lastFd

\* Which ready descriptors the loop hands to the workers.
Dispatchable(i) == i > lastFd

MainPush ==
  \E i \in FDs :
    /\ ScanAt(i)
    /\ Dispatchable(i)
    /\ queue' = Append(queue, i)
    /\ lastFd' = i
    /\ readFDs' = readFDs \ {i}
    /\ UNCHANGED <<running, mainpc, currMax, clientFD, workerVars, fdVars, kernelVars>>

MainSkip ==
  \E i \in FDs :
    /\ ScanAt(i)
    /\ ~Dispatchable(i)
    /\ readFDs' = readFDs \ {i}
    /\ UNCHANGED <<running, mainpc, currMax, clientFD, lastFd, workerVars, fdVars,
                   queue, kernelVars>>

MainScanDone ==
  /\ mainpc = "scan" /\ readFDs = {}
  /\ MainTo("loop")
  /\ UNCHANGED <<running, readFDs, currMax, clientFD, lastFd, workerVars, fdVars,
                 queue, kernelVars>>

MainJoin ==
  /\ mainpc = "join"
  /\ \A w \in Workers : wpc[w] = "done"
  /\ MainTo("save")
  /\ UNCHANGED <<running, readFDs, currMax, clientFD, lastFd, workerVars, fdVars,
                 queue, kernelVars>>

\* Write every record to bibData_to_test and return, or fail to open the file.
MainSave ==
  /\ mainpc = "save"
  /\ \/ MainTo("exited")
     \/ MainTo("failed")
  /\ UNCHANGED <<running, readFDs, currMax, clientFD, lastFd, workerVars, fdVars,
                 queue, kernelVars>>

MainNext ==
  \/ MainSnapshot \/ MainStop \/ MainSelect
  \/ MainAccept \/ MainAcceptFails \/ MainRegister \/ MainRaiseMax
  \/ MainPush \/ MainSkip \/ MainScanDone
  \/ MainJoin \/ MainSave

-----------------------------------------------------------------------------
(* The worker threads. *)

WorkerTo(w, s) == wpc' = [wpc EXCEPT ![w] = s]

\* non_blocking_pop takes the head of the queue ...
WorkerPop(w) ==
  /\ Alive /\ wpc[w] = "pop"
  /\ queue # <<>>
  /\ wfd' = [wfd EXCEPT ![w] = Head(queue)]
  /\ queue' = Tail(queue)
  /\ WorkerTo(w, "read")
  /\ UNCHANGED <<running, mainVars, fdVars, kernelVars>>

\* ... or returns NULL, and the worker will look at the flag in a later step.
WorkerPopNothing(w) ==
  /\ Alive /\ wpc[w] = "pop"
  /\ queue = <<>>
  /\ WorkerTo(w, "check")
  /\ UNCHANGED <<running, mainVars, wfd, fdVars, queue, kernelVars>>

MutantGivesUp == "done"
MutantKeepsPolling == "pop"

\* The static flag decides whether a worker with nothing to do polls again.
AfterNothing == IF running THEN "pop" ELSE "done"

WorkerCheck(w) ==
  /\ Alive /\ wpc[w] = "check"
  /\ WorkerTo(w, AfterNothing)
  /\ UNCHANGED <<running, mainVars, wfd, fdVars, queue, kernelVars>>

\* The year decides between reply and rejection; of a bare request the worker
\* has the type and asks for the size.
AfterRead(kind) ==
  IF kind = "bare" THEN "size" ELSE IF kind = "valid" THEN "serve" ELSE "reject"

\* The three reads: type, size and data, which the client sends in one write,
\* or nothing at end of file.
WorkerRead(w) ==
  /\ Alive /\ wpc[w] = "read"
  /\ LET c == peer[wfd[w]]
     IN \/ /\ Pending(c)
           /\ request' = [request EXCEPT ![c] = "taken"]
           /\ WorkerTo(w, AfterRead(request[c]))
        \/ /\ ~Pending(c) /\ link[c] = "closed"
           /\ WorkerTo(w, "clear")
           /\ UNCHANGED request
  /\ UNCHANGED <<running, mainVars, wfd, fdVars, queue, peer, backlog, link>>

\* The size of a bare request never comes: the read returns when its client
\* has gone, and the read of no data after it counts as the end of file.
WorkerReadSize(w) ==
  /\ Alive /\ wpc[w] = "size"
  /\ link[peer[wfd[w]]] = "closed"
  /\ WorkerTo(w, "clear")
  /\ UNCHANGED <<running, mainVars, wfd, fdVars, queue, kernelVars>>

\* The records or the negative reply, the log lines, then MSG_END.
WorkerServe(w) ==
  /\ Alive /\ wpc[w] = "serve"
  /\ request' = [request EXCEPT ![peer[wfd[w]]] = "answered"]
  /\ WorkerTo(w, "pop")
  /\ UNCHANGED <<running, mainVars, wfd, fdVars, queue, peer, backlog, link>>

\* A reply is two writes at least.  The first one to a connection the client
\* closed draws a reset, the next one raises SIGPIPE, which nothing blocks.
WorkerSigpipe(w) ==
  /\ Alive /\ wpc[w] = "serve"
  /\ link[peer[wfd[w]]] = "closed"
  /\ mainpc' = "killed"
  /\ UNCHANGED <<running, readFDs, currMax, clientFD, lastFd, workerVars, fdVars,
                 queue, kernelVars>>

\* One write, then continue: no MSG_END follows.
WorkerReject(w) ==
  /\ Alive /\ wpc[w] = "reject"
  /\ request' = [request EXCEPT ![peer[wfd[w]]] = "rejected"]
  /\ WorkerTo(w, "pop")
  /\ UNCHANGED <<running, mainVars, wfd, fdVars, queue, peer, backlog, link>>

WorkerClear(w) ==
  /\ Alive /\ wpc[w] = "clear"
  /\ m = None
  /\ m' = w
  /\ allFDs' = allFDs \ {wfd[w]}
  /\ WorkerTo(w, "aggiorna")
  /\ UNCHANGED <<running, mainVars, wfd, maxFD, queue, kernelVars>>

MutantOneTooFar(w) ==
  /\ Alive /\ wpc[w] = "aggiorna"
  /\ maxFD > 0
  /\ maxFD' = maxFD - 1
  /\ UNCHANGED <<running, mainVars, workerVars, allFDs, m, queue, kernelVars>>

\* The loop of aggiornaMax ...
AggiornaMax(w) ==
  /\ Alive /\ wpc[w] = "aggiorna"
  /\ maxFD \notin allFDs
  /\ maxFD' = maxFD - 1
  /\ UNCHANGED <<running, mainVars, workerVars, allFDs, m, queue, kernelVars>>

MutantCloses(w) ==
  /\ Alive /\ wpc[w] = "aggiorna"
  /\ maxFD \in allFDs /\ wfd[w] \notin readFDs
  /\ m' = None
  /\ WorkerTo(w, "pop")
  /\ peer' = [peer EXCEPT ![wfd[w]] = None]
  /\ UNCHANGED <<running, mainVars, wfd, allFDs, maxFD, queue, backlog, link, request>>

\* ... and its end.  The descriptor leaves the set and is not closed.
AggiornaDone(w) ==
  /\ Alive /\ wpc[w] = "aggiorna"
  /\ maxFD \in allFDs
  /\ m' = None
  /\ WorkerTo(w, "pop")
  /\ UNCHANGED <<running, mainVars, wfd, allFDs, maxFD, queue, kernelVars>>

WorkerNext(w) ==
  \/ WorkerPop(w) \/ WorkerPopNothing(w) \/ WorkerCheck(w) \/ WorkerRead(w)
  \/ WorkerReadSize(w)
  \/ WorkerServe(w) \/ WorkerSigpipe(w) \/ WorkerReject(w)
  \/ WorkerClear(w) \/ AggiornaMax(w) \/ AggiornaDone(w)

-----------------------------------------------------------------------------
(* The signal thread and the clients. *)

Signal ==
  /\ Alive /\ running
  /\ running' = FALSE
  /\ UNCHANGED <<mainVars, workerVars, fdVars, queue, kernelVars>>

ClientConnect(c) ==
  /\ Alive /\ link[c] = "idle"
  /\ link' = [link EXCEPT ![c] = "open"]
  /\ backlog' = Append(backlog, c)
  /\ UNCHANGED <<running, mainVars, workerVars, fdVars, queue, peer, request>>

ClientSend(c) ==
  /\ Alive /\ link[c] = "open" /\ request[c] = "unsent"
  /\ \E kind \in RequestKinds : request' = [request EXCEPT ![c] = kind]
  /\ UNCHANGED <<running, mainVars, workerVars, fdVars, queue, peer, backlog, link>>

\* The client exits, or is killed before or after it sent its request.
ClientClose(c) ==
  /\ Alive /\ link[c] = "open"
  /\ link' = [link EXCEPT ![c] = "closed"]
  /\ UNCHANGED <<running, mainVars, workerVars, fdVars, queue, peer, backlog, request>>

ClientNext(c) == ClientConnect(c) \/ ClientSend(c) \/ ClientClose(c)

\* The process is gone: the only state in which nothing more happens.
Gone == ~Alive /\ UNCHANGED vars

Next ==
  \/ MainNext
  \/ \E w \in Workers : WorkerNext(w)
  \/ Signal
  \/ \E c \in Clients : ClientNext(c)
  \/ Gone

Spec == Init /\ [][Next]_vars

\* The operating system runs every thread of the server again and again.
Fairness ==
  /\ WF_vars(MainNext)
  /\ \A w \in Workers : WF_vars(WorkerNext(w))

FairSpec == Spec /\ Fairness

-----------------------------------------------------------------------------
(* Properties. *)

\* Type invariant of the server's shared state, the threads and the kernel.
TypeOK ==
  /\ running \in BOOLEAN
  /\ mainpc \in MainStates
  /\ allFDs \in SUBSET (FDs \cup {Listen})
  /\ maxFD \in FDs \cup {Listen}
  /\ m \in Workers \cup {Main, None}
  /\ readFDs \in SUBSET (FDs \cup {Listen})
  /\ currMax \in FDs \cup {Listen, 0}
  /\ clientFD \in FDs \cup {-1}
  /\ lastFd \in FDs \cup {0}
  /\ queue \in Seq(FDs)
  /\ wpc \in [Workers -> WorkerStates]
  /\ wfd \in [Workers -> FDs \cup {0}]
  /\ peer \in [FDs -> Clients \cup {None}]
  /\ backlog \in Seq(Clients)
  /\ link \in [Clients -> {"idle", "open", "closed"}]
  /\ request \in [Clients -> {"unsent", "taken", "answered", "rejected"}
                             \cup RequestKinds]

\* Whenever the mutex is free, maxFD is exactly the greatest watched
\* descriptor: whatever the main thread copies makes select look at every
\* registered client (main and aggiornaMax both move maxFD).
SelectCoversAll ==
  m = None => /\ maxFD \in allFDs
              /\ \A f \in allFDs : f <= maxFD

Holding(w) ==
  wpc[w] \in {"read", "size", "serve", "reject", "clear", "aggiorna"}

\* A descriptor is with one worker or in one place of the queue, so that two
\* workers never read the same connection (the lastFd filter of main).
ExclusiveDescriptors ==
  /\ \A i, j \in DOMAIN queue : i # j => queue[i] # queue[j]
  /\ \A w \in Workers : Holding(w) =>
       /\ \A i \in DOMAIN queue : queue[i] # wfd[w]
       /\ \A v \in Workers : Holding(v) /\ v # w => wfd[v] # wfd[w]

\* A worker about to read finds the request or the end of file there: the
\* first blocking read never keeps it from seeing the shutdown flag.
ReadsNeverBlock ==
  \A w \in Workers : wpc[w] = "read" => Readable(peer[wfd[w]])

\* accept never returns a descriptor at or below lastFd: every new connection
\* is one the lastFd filter can still let through.  It is so because no
\* client descriptor is ever closed and reused.
NewConnectionsAreFresh ==
  mainpc \in {"register", "raise"} => clientFD > lastFd

\* The descriptors that accept has returned, and the last of them that main has
\* passed; the clients of those behind it can still be called.
Accepted == {f \in FDs : peer[f] # None}
Passed == IF lastFd = 0 THEN Listen ELSE lastFd
Line ==
  [k \in 1 .. Cardinality({f \in Accepted : f > Passed}) |-> peer[Passed + k]]

Called == [k \in DOMAIN queue |-> peer[queue[k]]]

With == [w \in Workers |-> IF Holding(w) THEN peer[wfd[w]] ELSE None]

\* However the threads interleave, the clients get their turns as CallOrder
\* says: once, in the order of accept, each with one worker, and a client that
\* was passed over is never called again (the filter by lastFd).
Order == INSTANCE CallOrder WITH
           arrived <- {peer[f] : f \in Accepted},
           line <- Line, called <- Called, with <- With
TurnsInOrder == Order!Spec

\* A worker waits for the size of a request from a client that waits for the
\* reply.
Waiting(w) == wpc[w] = "size" /\ link[peer[wfd[w]]] = "open"

\* After SIGINT or SIGTERM the process ends: the main loop, then every worker,
\* then the join.  Only a client whose request has no fields, and that stays,
\* keeps its worker, and with it the process, from ending.
NoWorkerIsKept == []<>(\A w \in Workers : ~Waiting(w))
ShutdownCompletes == NoWorkerIsKept => (~running ~> ~Alive)

\* While the server runs, a queued descriptor is popped, unless such clients
\* keep the workers.
QueuedIsPopped ==
  NoWorkerIsKept =>
    \A f \in FDs :
      (\E i \in DOMAIN queue : queue[i] = f)
        ~> ((\A i \in DOMAIN queue : queue[i] # f) \/ ~running \/ ~Alive)

\* A worker leaves only when the shutdown was asked for and the queue is
\* empty, as relazione.pdf says of the worker's loop.
WorkersDrainTheQueue ==
  [][\A w \in Workers :
       wpc[w] # "done" /\ wpc'[w] = "done" => ~running /\ queue = <<>>]_vars

\* A client that sent its request and waits is answered, or told it is wrong,
\* unless the server is shut down or its workers are kept: it manages all its
\* connections.
EveryRequestIsServed ==
  NoWorkerIsKept =>
    \A c \in Clients :
      request[c] \in {"valid", "invalid"} ~>
        \/ request[c] \in {"answered", "rejected"}
        \/ link[c] = "closed"
        \/ ~running \/ ~Alive
=============================================================================
