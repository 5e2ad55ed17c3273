---------------------------- MODULE BibServerProofs ----------------------------
(***************************************************************************)
(* Proofs about BibServer, for every set of clients and workers, every     *)
(* listening descriptor and every descriptor limit.  IInv strengthens the  *)
(* invariants of BibServer until each step preserves it.                   *)
(***************************************************************************)
EXTENDS BibServer, FiniteSetTheorems, SequenceTheorems, TLAPS

\* The mutex m has the owner the program counters say it has; main may be
\* killed while it holds m, and then keeps it for ever.
MutexInv ==
  /\ mainpc = "raise" => m = Main
  /\ m = Main => mainpc \in {"raise", "killed"}
  /\ \A w \in Workers : m = w <=> wpc[w] = "aggiorna"

\* maxFD bounds the watched set, but for the client main is registering, and
\* belongs to it, unless a worker is lowering it.
WatchInv ==
  /\ Listen \in allFDs
  /\ \A f \in allFDs : f <= maxFD \/ (m = Main /\ f = clientFD)
  /\ m \notin Workers => maxFD \in allFDs
  /\ mainpc \in {"register", "raise"} => clientFD \in FDs
  /\ mainpc = "raise" => clientFD \in allFDs
  /\ \A w \in Workers : Holding(w) => wfd[w] \in FDs

\* A client has one connection; accept keeps the used descriptors contiguous.
ConnectionInv ==
  /\ \A i \in DOMAIN backlog : link[backlog[i]] # "idle"
  /\ \A i, j \in DOMAIN backlog : i # j => backlog[i] # backlog[j]
  /\ \A f \in FDs : peer[f] # None =>
       /\ link[peer[f]] # "idle"
       /\ \A i \in DOMAIN backlog : backlog[i] # peer[f]
       /\ \A g \in FDs : f # g => peer[f] # peer[g]
       /\ \A g \in FDs : g < f => peer[g] # None

\* Queued and held descriptors were pushed in ascending order, once each.
QueueInv ==
  /\ \A i \in DOMAIN queue : queue[i] <= lastFd
  /\ \A w \in Workers : Holding(w) => wfd[w] <= lastFd
  /\ ExclusiveDescriptors

\* Watched, copied, queued and held descriptors are connections, and those on
\* their way to a blocking read are readable.
ReadyInv ==
  /\ \A f \in allFDs \cup readFDs : f # Listen => peer[f] # None
  /\ mainpc \in {"register", "raise"} => peer[clientFD] # None
  /\ mainpc \in {"scan", "register", "raise"} =>
       \A f \in readFDs : f # Listen /\ f > lastFd => Readable(peer[f])
  /\ \A i \in DOMAIN queue : peer[queue[i]] # None /\ Readable(peer[queue[i]])
  /\ \A w \in Workers : Holding(w) => peer[wfd[w]] # None
  /\ ReadsNeverBlock

\* lastFd is below every descriptor accept may still return.
FreshInv ==
  /\ \A f \in FDs : peer[f] = None => lastFd < f
  /\ NewConnectionsAreFresh

IInv ==
  /\ TypeOK
  /\ MutexInv
  /\ WatchInv
  /\ ConnectionInv
  /\ QueueInv
  /\ ReadyInv
  /\ FreshInv

-----------------------------------------------------------------------------
(* Sequences, as push and non_blocking_pop change them. *)

\* What is left after a pop is what was behind the head.
LEMMA TailElements ==
  ASSUME NEW S, NEW s \in Seq(S), s # <<>>
  PROVE  /\ Tail(s) \in Seq(S)
         /\ 1 \in DOMAIN s
         /\ Head(s) = s[1]
         /\ Head(s) \in S
         /\ \A i \in DOMAIN Tail(s) :
              i \in Nat \ {0} /\ i + 1 \in DOMAIN s /\ Tail(s)[i] = s[i + 1]
  OBVIOUS

\* A push leaves the elements where they are and adds one behind them.
LEMMA AppendElements ==
  ASSUME NEW S, NEW s \in Seq(S), NEW e \in S
  PROVE  /\ Append(s, e) \in Seq(S)
         /\ \A i \in DOMAIN Append(s, e) :
              \/ i \in DOMAIN s /\ Append(s, e)[i] = s[i]
              \/ i = Len(s) + 1 /\ Append(s, e)[i] = e
  OBVIOUS

\* A push as a function.
LEMMA AppendIs ==
  ASSUME NEW S, NEW s \in Seq(S), NEW e \in S
  PROVE  Append(s, e) = [k \in 1 .. Len(s) + 1 |-> IF k = Len(s) + 1 THEN e ELSE s[k]]
  <1>1. /\ Len(s) \in Nat /\ Append(s, e) \in Seq(S) /\ Len(Append(s, e)) = Len(s) + 1
        /\ \A k \in 1 .. Len(s) : Append(s, e)[k] = s[k]
        /\ Append(s, e)[Len(s) + 1] = e
    BY AppendProperties, LenProperties
  <1>2. Append(s, e) = [k \in 1 .. Len(s) + 1 |-> Append(s, e)[k]]
    BY <1>1, LenProperties
  <1>3. \A k \in 1 .. Len(s) + 1 :
          Append(s, e)[k] = IF k = Len(s) + 1 THEN e ELSE s[k]
    BY <1>1
  <1> QED
    BY <1>2, <1>3

\* A pop as a function.
LEMMA TailIs ==
  ASSUME NEW S, NEW s \in Seq(S), s # <<>>
  PROVE  Tail(s) = [k \in 1 .. Len(s) - 1 |-> s[k + 1]]
  <1>1. /\ Tail(s) \in Seq(S) /\ Len(Tail(s)) = Len(s) - 1
        /\ \A k \in 1 .. Len(s) - 1 : Tail(s)[k] = s[k + 1]
    BY HeadTailProperties
  <1>2. Tail(s) = [k \in 1 .. Len(s) - 1 |-> Tail(s)[k]]
    BY <1>1, LenProperties
  <1> QED
    BY <1>1, <1>2

\* What is behind the k-th element.
LEMMA SuffixIs ==
  ASSUME NEW S, NEW s \in Seq(S), NEW k \in 1 .. Len(s)
  PROVE  SubSeq(s, k + 1, Len(s)) = [j \in 1 .. Len(s) - k |-> s[k + j]]
  OBVIOUS

-----------------------------------------------------------------------------
(* The initial states. *)

\* Every part of the inductive invariant holds when the threads start.
LEMMA InitIInv == Init => IInv
  <1> SUFFICES ASSUME Init PROVE IInv
    OBVIOUS
  <1> USE ServerAssumption DEF Init
  <1>1. TypeOK
    BY DEF TypeOK, FDs, MainStates, WorkerStates
  <1>2. MutexInv /\ WatchInv
    BY DEF MutexInv, WatchInv, Holding
  <1>3. ConnectionInv
    BY DEF ConnectionInv
  <1>4. QueueInv
    BY DEF QueueInv, ExclusiveDescriptors, Holding
  <1>5. ReadyInv
    BY DEF ReadyInv, ReadsNeverBlock, Holding
  <1>6. FreshInv
    BY DEF FreshInv, NewConnectionsAreFresh, FDs
  <1> QED
    BY <1>1, <1>2, <1>3, <1>4, <1>5, <1>6 DEF IInv

-----------------------------------------------------------------------------
(* The steps, one part of the invariant at a time. *)

\* Every step of a thread, the kernel or a client keeps the types.
LEMMA TypeStep ==
  ASSUME TypeOK, MutexInv, WatchInv, [Next]_vars
  PROVE  TypeOK'
  <1> USE ServerAssumption DEF TypeOK, MutexInv, WatchInv, Holding, FDs,
                               MainStates, WorkerStates, vars, mainVars,
                               workerVars, fdVars, kernelVars, MainTo,
                               WorkerTo, Alive, AfterNothing, AfterRead,
                               RequestKinds
  <1>1. CASE MainSelect
    BY <1>1 DEF MainSelect
  <1>2. CASE MainAccept
    BY <1>2 DEF MainAccept, ScanAt
  <1>3. CASE MainAcceptFails
    BY <1>3 DEF MainAcceptFails, ScanAt
  <1>4. CASE MainRaiseMax
    BY <1>4 DEF MainRaiseMax, RaisedMax
  <1>5. CASE MainPush
    BY <1>5 DEF MainPush, ScanAt
  <1>6. CASE MainSkip
    BY <1>6 DEF MainSkip, ScanAt
  <1>7. CASE MainSnapshot \/ MainStop \/ MainRegister \/ MainScanDone \/
             MainJoin \/ MainSave \/ Signal
    BY <1>7 DEF MainSnapshot, MainStop, MainRegister, MainScanDone, MainJoin,
                MainSave, Signal
  <1>8. ASSUME NEW w \in Workers, WorkerPop(w) PROVE TypeOK'
    BY <1>8 DEF WorkerPop
  <1>9. ASSUME NEW w \in Workers, WorkerRead(w) PROVE TypeOK'
    <2>1. \A c \in Clients, s \in {"taken"} :
             [request EXCEPT ![c] = s] \in
               [Clients -> {"unsent", "taken", "answered", "rejected"} \cup RequestKinds]
      OBVIOUS
    <2> QED
      BY <1>9, <2>1 DEF WorkerRead
  <1>10. ASSUME NEW w \in Workers, AggiornaMax(w) PROVE TypeOK'
    BY <1>10 DEF AggiornaMax
  <1>11. ASSUME NEW w \in Workers,
              WorkerPopNothing(w) \/ WorkerCheck(w) \/ WorkerReadSize(w) \/
              WorkerServe(w) \/ WorkerSigpipe(w) \/ WorkerReject(w) \/ WorkerClear(w) \/
              AggiornaDone(w)
       PROVE  TypeOK'
    BY <1>11 DEF WorkerPopNothing, WorkerCheck, WorkerReadSize, WorkerServe,
                 WorkerSigpipe, WorkerReject, WorkerClear, AggiornaDone
  <1>12. ASSUME NEW c \in Clients, ClientConnect(c) PROVE TypeOK'
    BY <1>12 DEF ClientConnect
  <1>13. ASSUME NEW c \in Clients, ClientSend(c) PROVE TypeOK'
    BY <1>13 DEF ClientSend
  <1>14. ASSUME NEW c \in Clients, ClientClose(c) PROVE TypeOK'
    BY <1>14 DEF ClientClose
  <1>15. CASE UNCHANGED vars
    BY <1>15
  <1> QED
    BY <1>1, <1>2, <1>3, <1>4, <1>5, <1>6, <1>7, <1>8, <1>9, <1>10, <1>11,
       <1>12, <1>13, <1>14, <1>15
      DEF Next, MainNext, WorkerNext, ClientNext, Gone

\* A thread enters and leaves its critical sections as the mutex says.
LEMMA MutexStep ==
  ASSUME TypeOK, MutexInv, [Next]_vars
  PROVE  MutexInv'
  <1> USE ServerAssumption DEF TypeOK, MutexInv, vars, mainVars, workerVars,
                               fdVars, kernelVars, MainTo, WorkerTo, Alive,
                               AfterNothing, AfterRead
  <1>1. CASE MainSnapshot
    BY <1>1 DEF MainSnapshot
  <1>2. CASE MainSelect
    BY <1>2 DEF MainSelect
  <1>3. CASE MainAccept
    BY <1>3 DEF MainAccept, ScanAt
  <1>4. CASE MainAcceptFails
    BY <1>4 DEF MainAcceptFails, ScanAt
  <1>5. CASE MainRegister
    BY <1>5 DEF MainRegister
  <1>6. CASE MainRaiseMax
    BY <1>6 DEF MainRaiseMax
  <1>7. CASE MainStop \/ MainPush \/ MainSkip \/ MainScanDone \/ MainJoin \/
             MainSave \/ Signal
    BY <1>7 DEF MainStop, MainPush, MainSkip, MainScanDone, MainJoin,
                MainSave, Signal
  <1>8. ASSUME NEW w \in Workers, WorkerSigpipe(w) PROVE MutexInv'
    BY <1>8 DEF WorkerSigpipe
  <1>9. ASSUME NEW w \in Workers, WorkerClear(w) PROVE MutexInv'
    BY <1>9 DEF WorkerClear
  <1>10. ASSUME NEW w \in Workers, AggiornaDone(w) PROVE MutexInv'
    BY <1>10 DEF AggiornaDone
  <1>11. ASSUME NEW w \in Workers,
              WorkerPop(w) \/ WorkerPopNothing(w) \/ WorkerCheck(w) \/
              WorkerRead(w) \/ WorkerReadSize(w) \/ WorkerServe(w) \/
              WorkerReject(w) \/ AggiornaMax(w)
       PROVE  MutexInv'
    BY <1>11 DEF WorkerPop, WorkerPopNothing, WorkerCheck, WorkerRead,
                 WorkerReadSize, WorkerServe, WorkerReject, AggiornaMax
  <1>12. ASSUME NEW c \in Clients, ClientNext(c) PROVE MutexInv'
    BY <1>12 DEF ClientNext, ClientConnect, ClientSend, ClientClose
  <1>13. CASE UNCHANGED vars
    BY <1>13
  <1> QED
    BY <1>1, <1>2, <1>3, <1>4, <1>5, <1>6, <1>7, <1>8, <1>9, <1>10, <1>11,
       <1>12, <1>13
      DEF Next, MainNext, WorkerNext, ClientNext, Gone

\* maxFD stays the maximum of the watched set.
LEMMA WatchStep ==
  ASSUME TypeOK, MutexInv, WatchInv, [Next]_vars
  PROVE  WatchInv'
  <1> USE ServerAssumption DEF TypeOK, MutexInv, WatchInv, Holding, FDs,
                               vars, mainVars, workerVars, fdVars,
                               kernelVars, MainTo, WorkerTo, Alive,
                               AfterNothing, AfterRead
  <1>1. CASE MainSelect
    BY <1>1 DEF MainSelect
  <1>2. CASE MainAccept
    BY <1>2 DEF MainAccept, ScanAt
  <1>3. CASE MainAcceptFails
    BY <1>3 DEF MainAcceptFails, ScanAt
  <1>4. CASE MainRegister
    BY <1>4 DEF MainRegister
  <1>5. CASE MainRaiseMax
    BY <1>5 DEF MainRaiseMax, RaisedMax
  <1>6. CASE MainPush
    BY <1>6 DEF MainPush
  <1>7. CASE MainSkip
    BY <1>7 DEF MainSkip
  <1>8. CASE MainSnapshot \/ MainStop \/ MainScanDone \/ MainJoin \/
             MainSave \/ Signal
    BY <1>8 DEF MainSnapshot, MainStop, MainScanDone, MainJoin, MainSave,
                Signal
  <1>9. ASSUME NEW w \in Workers, WorkerPop(w) PROVE WatchInv'
    BY <1>9 DEF WorkerPop
  <1>10. ASSUME NEW w \in Workers, WorkerClear(w) PROVE WatchInv'
    BY <1>10 DEF WorkerClear
  <1>11. ASSUME NEW w \in Workers, AggiornaMax(w) PROVE WatchInv'
    BY <1>11 DEF AggiornaMax
  <1>12. ASSUME NEW w \in Workers, AggiornaDone(w) PROVE WatchInv'
    BY <1>12 DEF AggiornaDone
  <1>13. ASSUME NEW w \in Workers,
              WorkerPopNothing(w) \/ WorkerCheck(w) \/ WorkerRead(w) \/
              WorkerReadSize(w) \/ WorkerServe(w) \/ WorkerSigpipe(w) \/
              WorkerReject(w)
       PROVE  WatchInv'
    BY <1>13 DEF WorkerPopNothing, WorkerCheck, WorkerRead, WorkerReadSize,
                 WorkerServe, WorkerSigpipe, WorkerReject
  <1>14. ASSUME NEW c \in Clients, ClientNext(c) PROVE WatchInv'
    BY <1>14 DEF ClientNext, ClientConnect, ClientSend, ClientClose
  <1>15. CASE UNCHANGED vars
    BY <1>15
  <1> QED
    BY <1>1, <1>2, <1>3, <1>4, <1>5, <1>6, <1>7, <1>8, <1>9, <1>10, <1>11,
       <1>12, <1>13, <1>14, <1>15
      DEF Next, MainNext, WorkerNext, ClientNext, Gone

\* accept gives the lowest free descriptor to a client that had none.
LEMMA ConnectionStep ==
  ASSUME TypeOK, ConnectionInv, [Next]_vars
  PROVE  ConnectionInv'
  <1> USE ServerAssumption DEF TypeOK, ConnectionInv, FDs, vars, mainVars,
                               workerVars, fdVars, kernelVars, MainTo,
                               WorkerTo, Alive, AfterNothing
  <1>1. CASE MainAccept
    BY <1>1 DEF MainAccept, ScanAt, LowestFree
  <1>2. CASE MainSnapshot \/ MainStop \/ MainSelect \/ MainAcceptFails \/
             MainRegister \/ MainRaiseMax \/ MainPush \/ MainSkip \/
             MainScanDone \/ MainJoin \/ MainSave \/ Signal
    BY <1>2 DEF MainSnapshot, MainStop, MainSelect, MainAcceptFails,
                MainRegister, MainRaiseMax, MainPush, MainSkip, MainScanDone,
                MainJoin, MainSave, Signal
  <1>3. ASSUME NEW w \in Workers,
              WorkerPop(w) \/ WorkerPopNothing(w) \/ WorkerCheck(w) \/
              WorkerRead(w) \/ WorkerReadSize(w) \/ WorkerServe(w) \/
              WorkerSigpipe(w) \/ WorkerReject(w) \/ WorkerClear(w) \/
              AggiornaMax(w) \/ AggiornaDone(w)
       PROVE  ConnectionInv'
    BY <1>3 DEF WorkerPop, WorkerPopNothing, WorkerCheck, WorkerRead,
                WorkerReadSize, WorkerServe, WorkerSigpipe, WorkerReject,
                WorkerClear, AggiornaMax, AggiornaDone
  <1>4. ASSUME NEW c \in Clients, ClientConnect(c) PROVE ConnectionInv'
    BY <1>4 DEF ClientConnect
  <1>5. ASSUME NEW c \in Clients, ClientSend(c) \/ ClientClose(c) PROVE ConnectionInv'
    BY <1>5 DEF ClientSend, ClientClose
  <1>6. CASE UNCHANGED vars
    BY <1>6
  <1> QED
    BY <1>1, <1>2, <1>3, <1>4, <1>5, <1>6
      DEF Next, MainNext, WorkerNext, ClientNext, Gone

\* The lastFd filter pushes a descriptor once, and pop gives it to one worker.
LEMMA QueueStep ==
  ASSUME TypeOK, WatchInv, QueueInv, [Next]_vars
  PROVE  QueueInv'
  <1> USE ServerAssumption DEF TypeOK, WatchInv, QueueInv,
                               ExclusiveDescriptors, Holding, FDs, vars,
                               mainVars, workerVars, fdVars, kernelVars,
                               MainTo, WorkerTo, Alive, AfterNothing
  <1>1. CASE MainPush
    <2>1. PICK i \in FDs : ScanAt(i) /\ i > lastFd /\ queue' = Append(queue, i)
                            /\ lastFd' = i /\ UNCHANGED <<wpc, wfd>>
      BY <1>1 DEF MainPush, Dispatchable
    <2>2. \A k \in DOMAIN queue' :
             (k \in DOMAIN queue /\ queue'[k] = queue[k]) \/ (k = Len(queue) + 1 /\ queue'[k] = i)
      BY <2>1, AppendElements
    <2> QED
      BY <2>1, <2>2
  <1>2. CASE MainSnapshot \/ MainStop \/ MainSelect \/ MainAccept \/
             MainAcceptFails \/ MainRegister \/ MainRaiseMax \/ MainSkip \/
             MainScanDone \/ MainJoin \/ MainSave \/ Signal
    BY <1>2 DEF MainSnapshot, MainStop, MainSelect, MainAccept,
                MainAcceptFails, MainRegister, MainRaiseMax, MainSkip,
                MainScanDone, MainJoin, MainSave, Signal
  <1>3. ASSUME NEW w \in Workers, WorkerPop(w) PROVE QueueInv'
    <2>1. /\ queue # <<>> /\ queue' = Tail(queue) /\ lastFd' = lastFd
          /\ wfd' = [wfd EXCEPT ![w] = Head(queue)]
          /\ wpc' = [wpc EXCEPT ![w] = "read"] /\ wpc[w] = "pop"
      BY <1>3 DEF WorkerPop
    <2>2. /\ 1 \in DOMAIN queue /\ wfd'[w] = queue[1]
          /\ \A k \in DOMAIN queue' : k # 0 /\ k + 1 # 1 /\ k + 1 \in DOMAIN queue
                                        /\ queue'[k] = queue[k + 1]
      BY <2>1, TailElements
    <2>3. \A k, l \in DOMAIN queue' : k # l => k + 1 # l + 1
      BY <2>1
    <2>4. \A v \in Workers : v # w => wpc'[v] = wpc[v] /\ wfd'[v] = wfd[v]
      BY <2>1
    <2>5. \A k \in DOMAIN queue' : queue'[k] <= lastFd' /\ queue'[k] # wfd'[w]
      BY <2>1, <2>2
    <2>6. \A k, l \in DOMAIN queue' : k # l => queue'[k] # queue'[l]
      BY <2>2, <2>3
    <2> QED
      BY <2>1, <2>2, <2>4, <2>5, <2>6
  <1>4. ASSUME NEW w \in Workers, WorkerPopNothing(w) PROVE QueueInv'
    BY <1>4 DEF WorkerPopNothing
  <1>5. ASSUME NEW w \in Workers, WorkerCheck(w) PROVE QueueInv'
    BY <1>5 DEF WorkerCheck
  <1>6. ASSUME NEW w \in Workers, WorkerRead(w) PROVE QueueInv'
    <2>1. UNCHANGED <<queue, lastFd, wfd>>
      BY <1>6 DEF WorkerRead
    <2>2. wpc[w] = "read" /\ \A v \in Workers : v # w => wpc'[v] = wpc[v]
      BY <1>6 DEF WorkerRead
    <2>3. \A v \in Workers : Holding(v)' => Holding(v)
      BY <2>2
    <2> QED
      BY <2>1, <2>3
  <1>7. ASSUME NEW w \in Workers, WorkerServe(w) PROVE QueueInv'
    BY <1>7 DEF WorkerServe
  <1>8. ASSUME NEW w \in Workers, WorkerReject(w) PROVE QueueInv'
    BY <1>8 DEF WorkerReject
  <1>9. ASSUME NEW w \in Workers, WorkerClear(w) PROVE QueueInv'
    BY <1>9 DEF WorkerClear
  <1>10. ASSUME NEW w \in Workers, AggiornaDone(w) PROVE QueueInv'
    BY <1>10 DEF AggiornaDone
  <1>11. ASSUME NEW w \in Workers,
              WorkerReadSize(w) \/ WorkerSigpipe(w) \/ AggiornaMax(w)
       PROVE  QueueInv'
    BY <1>11 DEF WorkerReadSize, WorkerSigpipe, AggiornaMax
  <1>12. ASSUME NEW c \in Clients, ClientNext(c) PROVE QueueInv'
    BY <1>12 DEF ClientNext, ClientConnect, ClientSend, ClientClose
  <1>13. CASE UNCHANGED vars
    BY <1>13
  <1> QED
    BY <1>1, <1>2, <1>3, <1>4, <1>5, <1>6, <1>7, <1>8, <1>9, <1>10, <1>11,
       <1>12, <1>13
      DEF Next, MainNext, WorkerNext, ClientNext, Gone

\* A descriptor on its way to a blocking read stays readable: nobody else reads it.
LEMMA ReadyStep ==
  ASSUME TypeOK, WatchInv, ConnectionInv, QueueInv, ReadyInv, [Next]_vars
  PROVE  ReadyInv'
  <1> USE ServerAssumption DEF TypeOK, WatchInv, ConnectionInv, QueueInv,
                               ReadyInv, ReadsNeverBlock,
                               ExclusiveDescriptors, Readable, Pending,
                               Holding, FDs, vars, mainVars, workerVars,
                               fdVars, kernelVars, MainTo, WorkerTo, Alive,
                               AfterNothing, AfterRead, RequestKinds
  <1>1. CASE MainSnapshot
    BY <1>1 DEF MainSnapshot
  <1>2. CASE MainStop
    BY <1>2 DEF MainStop
  <1>3. CASE MainSelect
    BY <1>3 DEF MainSelect, Ready
  <1>4. CASE MainAccept
    BY <1>4 DEF MainAccept, ScanAt, LowestFree
  <1>5. CASE MainAcceptFails
    BY <1>5 DEF MainAcceptFails
  <1>6. CASE MainRegister
    BY <1>6 DEF MainRegister
  <1>7. CASE MainRaiseMax
    BY <1>7 DEF MainRaiseMax
  <1>8. CASE MainPush
    BY <1>8 DEF MainPush, ScanAt, Dispatchable
  <1>9. CASE MainSkip
    BY <1>9 DEF MainSkip, ScanAt, Dispatchable
  <1>10. CASE MainScanDone
    BY <1>10 DEF MainScanDone
  <1>11. CASE MainJoin
    BY <1>11 DEF MainJoin
  <1>12. CASE MainSave
    BY <1>12 DEF MainSave
  <1>13. CASE Signal
    BY <1>13 DEF Signal
  <1>14. ASSUME NEW w \in Workers, WorkerPop(w) PROVE ReadyInv'
    BY <1>14 DEF WorkerPop
  <1>15. ASSUME NEW w \in Workers, WorkerPopNothing(w) PROVE ReadyInv'
    BY <1>15 DEF WorkerPopNothing
  <1>16. ASSUME NEW w \in Workers, WorkerCheck(w) PROVE ReadyInv'
    BY <1>16 DEF WorkerCheck
  <1>17. ASSUME NEW w \in Workers, WorkerRead(w) PROVE ReadyInv'
    <2>1. /\ UNCHANGED <<mainpc, allFDs, readFDs, clientFD, lastFd, queue, wfd>>
          /\ UNCHANGED <<peer, link>>
      BY <1>17 DEF WorkerRead
    <2>2. /\ wpc[w] = "read" /\ wpc'[w] # "read"
          /\ \A v \in Workers : v # w => wpc'[v] = wpc[v]
      BY <1>17 DEF WorkerRead
    <2>3. \A c \in Clients : c # peer[wfd[w]] => request'[c] = request[c]
      BY <1>17 DEF WorkerRead
    <2>4. wfd[w] \in FDs /\ wfd[w] <= lastFd /\ peer[wfd[w]] # None
      BY <2>2
    <2>5. \A f \in FDs : f # wfd[w] /\ peer[f] # None /\ Readable(peer[f])
                          => Readable(peer[f])'
      BY <2>1, <2>3, <2>4
    <2>6. \A k \in DOMAIN queue : queue[k] \in FDs /\ queue[k] # wfd[w]
      BY <2>2
    <2>7. \A v \in Workers : wpc'[v] = "read" =>
             wpc[v] = "read" /\ wfd[v] # wfd[w] /\ wfd[v] \in FDs
      BY <2>2
    <2>8. ReadsNeverBlock'
      BY <2>1, <2>5, <2>7
    <2>9. \A k \in DOMAIN queue' :
             peer'[queue'[k]] # None /\ Readable(peer[queue[k]])'
      BY <2>1, <2>5, <2>6
    <2>10. \A f \in readFDs : f # Listen /\ f > lastFd => f # wfd[w] /\ f \in FDs
      BY <2>4
    <2>11. \A v \in Workers : Holding(v)' => Holding(v)
      BY <2>2
    <2> QED
      BY <2>1, <2>5, <2>8, <2>9, <2>10, <2>11
  <1>18. ASSUME NEW w \in Workers, WorkerServe(w) PROVE ReadyInv'
    BY <1>18 DEF WorkerServe
  <1>19. ASSUME NEW w \in Workers, WorkerSigpipe(w) PROVE ReadyInv'
    BY <1>19 DEF WorkerSigpipe
  <1>20. ASSUME NEW w \in Workers, WorkerReject(w) PROVE ReadyInv'
    BY <1>20 DEF WorkerReject
  <1>21. ASSUME NEW w \in Workers, WorkerClear(w) PROVE ReadyInv'
    BY <1>21 DEF WorkerClear
  <1>22. ASSUME NEW w \in Workers, AggiornaDone(w) PROVE ReadyInv'
    BY <1>22 DEF AggiornaDone
  <1>23. ASSUME NEW w \in Workers, AggiornaMax(w) PROVE ReadyInv'
    BY <1>23 DEF AggiornaMax
  <1>24. ASSUME NEW c \in Clients, ClientSend(c) PROVE ReadyInv'
    BY <1>24 DEF ClientSend
  <1>25. ASSUME NEW c \in Clients, ClientClose(c) PROVE ReadyInv'
    BY <1>25 DEF ClientClose
  <1>26. ASSUME NEW c \in Clients, ClientConnect(c) PROVE ReadyInv'
    BY <1>26 DEF ClientConnect
  <1>27. ASSUME NEW w \in Workers, WorkerReadSize(w) PROVE ReadyInv'
    BY <1>27 DEF WorkerReadSize
  <1>28. CASE UNCHANGED vars
    BY <1>28
  <1> QED
    BY <1>1, <1>2, <1>3, <1>4, <1>5, <1>6, <1>7, <1>8, <1>9, <1>10, <1>11,
       <1>12, <1>13, <1>14, <1>15, <1>16, <1>17, <1>18, <1>19, <1>20, <1>21,
       <1>22, <1>23, <1>24, <1>25, <1>26, <1>27, <1>28
      DEF Next, MainNext, WorkerNext, ClientNext, Gone

\* Used descriptors are contiguous and never freed: a free one is above lastFd.
LEMMA FreshStep ==
  ASSUME TypeOK, ConnectionInv, ReadyInv, FreshInv, [Next]_vars
  PROVE  FreshInv'
  <1> USE ServerAssumption DEF TypeOK, ConnectionInv, ReadyInv, FreshInv,
                               NewConnectionsAreFresh, FDs, vars, mainVars,
                               workerVars, fdVars, kernelVars, MainTo,
                               WorkerTo, Alive, AfterNothing
  <1>1. CASE MainAccept
    BY <1>1 DEF MainAccept, ScanAt, LowestFree
  <1>2. CASE MainPush
    BY <1>2 DEF MainPush, ScanAt, Dispatchable
  <1>3. CASE MainSnapshot \/ MainStop \/ MainSelect \/ MainAcceptFails \/
             MainRegister \/ MainRaiseMax \/ MainSkip \/ MainScanDone \/
             MainJoin \/ MainSave \/ Signal
    BY <1>3 DEF MainSnapshot, MainStop, MainSelect, MainAcceptFails,
                MainRegister, MainRaiseMax, MainSkip, MainScanDone, MainJoin,
                MainSave, Signal
  <1>4. ASSUME NEW w \in Workers,
              WorkerPop(w) \/ WorkerPopNothing(w) \/ WorkerCheck(w) \/
              WorkerRead(w) \/ WorkerReadSize(w) \/ WorkerServe(w) \/
              WorkerSigpipe(w) \/ WorkerReject(w) \/ WorkerClear(w) \/
              AggiornaMax(w) \/ AggiornaDone(w)
       PROVE  FreshInv'
    BY <1>4 DEF WorkerPop, WorkerPopNothing, WorkerCheck, WorkerRead,
                WorkerReadSize, WorkerServe, WorkerSigpipe, WorkerReject,
                WorkerClear, AggiornaMax, AggiornaDone
  <1>5. ASSUME NEW c \in Clients, ClientNext(c) PROVE FreshInv'
    BY <1>5 DEF ClientNext, ClientConnect, ClientSend, ClientClose
  <1>6. CASE UNCHANGED vars
    BY <1>6
  <1> QED
    BY <1>1, <1>2, <1>3, <1>4, <1>5, <1>6
      DEF Next, MainNext, WorkerNext, ClientNext, Gone

-----------------------------------------------------------------------------
(* The theorems. *)

\* The invariant holds in every reachable state.
THEOREM Inductive == Spec => []IInv
  <1>1. IInv /\ [Next]_vars => IInv'
    BY TypeStep, MutexStep, WatchStep, ConnectionStep, QueueStep, ReadyStep,
       FreshStep DEF IInv
  <1> QED
    BY InitIInv, <1>1, PTL DEF Spec

\* No step of main, a worker, the kernel or a client leaves the types: no
\* descriptor, maximum or queue element is out of the range of the fd_set.
THEOREM TypeCorrect == Spec => []TypeOK
  BY Inductive, PTL DEF IInv

\* Whenever the mutex m is free, select will look at every registered client.
THEOREM SelectCoversAllHolds == Spec => []SelectCoversAll
  <1>1. IInv => SelectCoversAll
    BY ServerAssumption
       DEF IInv, TypeOK, WatchInv, SelectCoversAll
  <1> QED
    BY Inductive, <1>1, PTL

\* Two workers never serve the same connection, and main never queues a
\* descriptor twice.
THEOREM ExclusiveDescriptorsHolds == Spec => []ExclusiveDescriptors
  <1>1. IInv => ExclusiveDescriptors
    BY DEF IInv, QueueInv
  <1> QED
    BY Inductive, <1>1, PTL

\* A worker's first read of a descriptor it popped returns.
THEOREM ReadsNeverBlockHolds == Spec => []ReadsNeverBlock
  <1>1. IInv => ReadsNeverBlock
    BY DEF IInv, ReadyInv
  <1> QED
    BY Inductive, <1>1, PTL

\* The descriptor of a new connection passes the lastFd filter.
THEOREM NewConnectionsAreFreshHolds == Spec => []NewConnectionsAreFresh
  <1>1. IInv => NewConnectionsAreFresh
    BY DEF IInv, FreshInv
  <1> QED
    BY Inductive, <1>1, PTL

-----------------------------------------------------------------------------
(* The turns of the clients. *)

\* t is the greatest descriptor in use.
IsTop(t, p) == \A f \in FDs : p[f] # None <=> f <= t

TopInv == \E t \in FDs \cup {Listen} : IsTop(t, peer)

\* What accept makes of the greatest descriptor.
LEMMA TopAtAccept ==
  ASSUME TypeOK, NEW t \in FDs \cup {Listen}, IsTop(t, peer), MainAccept
  PROVE  \E f \in FDs : /\ f = t + 1 /\ LowestFree(f) /\ IsTop(f, peer')
                        /\ peer' = [peer EXCEPT ![f] = Head(backlog)]
                        /\ Head(backlog) \in Clients /\ backlog # <<>>
                        /\ Head(backlog) = backlog[1] /\ 1 \in DOMAIN backlog
<1>1. PICK f \in FDs : LowestFree(f) /\ peer' = [peer EXCEPT ![f] = Head(backlog)]
  BY DEF MainAccept
<1>2. Head(backlog) \in Clients /\ Head(backlog) = backlog[1] /\ 1 \in DOMAIN backlog
  BY TailElements DEF MainAccept, TypeOK
<1>3. t \in Int /\ f \in Int /\ Listen \in Int /\ t >= Listen
  BY ServerAssumption DEF FDs
<1>4. f = t + 1
  <2>1. f > t
    BY <1>1, <1>3 DEF LowestFree, IsTop
  <2>2. t + 1 \in FDs
    BY <2>1, <1>3, ServerAssumption DEF FDs
  <2>3. peer[t + 1] = None
    BY <2>2, <1>3 DEF IsTop
  <2>4. f <= t + 1
    BY <1>1, <2>2, <2>3 DEF LowestFree
  <2> QED  BY <2>1, <2>4, <1>3
<1>5. IsTop(f, peer')
  <2> SUFFICES ASSUME NEW g \in FDs PROVE peer'[g] # None <=> g <= f
    BY DEF IsTop
  <2>1. g \in Int
    BY ServerAssumption DEF FDs
  <2>2. CASE g = f
    BY <2>2, <1>1, <1>2, <1>3, ServerAssumption DEF TypeOK
  <2>3. CASE g # f
    <3>1. peer'[g] = peer[g]
      BY <2>3, <1>1 DEF TypeOK
    <3> QED  BY <3>1, <2>1, <2>3, <1>3, <1>4 DEF IsTop
  <2> QED  BY <2>2, <2>3
<1> QED  BY <1>1, <1>2, <1>4, <1>5, ServerAssumption DEF MainAccept

LEMMA OnlyAcceptConnects ==
  ASSUME [Next]_vars, ~MainAccept
  PROVE  peer' = peer
BY DEF Next, MainNext, WorkerNext, ClientNext, Gone, vars, kernelVars, MainSnapshot,
       MainStop, MainSelect, MainAcceptFails, MainRegister, MainRaiseMax, MainPush,
       MainSkip, MainScanDone, MainJoin, MainSave, WorkerPop, WorkerPopNothing,
       WorkerCheck, WorkerRead, WorkerReadSize, WorkerServe, WorkerSigpipe,
       WorkerReject, WorkerClear, AggiornaMax, AggiornaDone, Signal, ClientConnect,
       ClientSend, ClientClose

LEMMA TopStep ==
  ASSUME TypeOK, TopInv, [Next]_vars
  PROVE  TopInv'
<1>1. PICK t \in FDs \cup {Listen} : IsTop(t, peer)
  BY DEF TopInv
<1>2. CASE MainAccept
  BY <1>1, <1>2, TopAtAccept DEF TopInv
<1>3. CASE ~MainAccept
  BY <1>1, <1>3, OnlyAcceptConnects DEF TopInv, IsTop
<1> QED  BY <1>2, <1>3

\* How many descriptors in use are behind a given one.
LEMMA CountBehind ==
  ASSUME NEW t \in FDs \cup {Listen}, NEW p, IsTop(t, p), NEW b \in Listen .. t
  PROVE  /\ Cardinality({f \in {g \in FDs : p[g] # None} : f > b}) = t - b
         /\ t - b \in Nat
<1>1. t \in Int /\ Listen \in Int /\ FDLimit \in Int
  BY ServerAssumption DEF FDs
<1>2. {f \in {g \in FDs : p[g] # None} : f > b} = b + 1 .. t
  <2>1. \A f \in Int : f \in FDs /\ f <= t /\ f > b <=> f \in b + 1 .. t
    BY <1>1 DEF FDs
  <2>2. \A f : f \in FDs => f \in Int
    BY <1>1 DEF FDs
  <2>3. \A f : f \in {g \in FDs : p[g] # None} <=> f \in FDs /\ f <= t
    BY DEF IsTop
  <2> QED  BY <2>1, <2>2, <2>3
<1>3. b \in Int /\ b <= t /\ b + 1 \in Int /\ t - b \in Nat
  BY <1>1
<1>4. Cardinality(b + 1 .. t) = IF b + 1 <= t THEN t - (b + 1) + 1 ELSE 0
  BY <1>1, <1>3, FS_Interval
<1>5. Cardinality(b + 1 .. t) = t - b
  BY <1>1, <1>3, <1>4
<1> QED  BY <1>2, <1>3, <1>5

LEMMA LineIs ==
  ASSUME IInv, NEW t \in FDs \cup {Listen}, IsTop(t, peer)
  PROVE  /\ Passed \in Listen .. t /\ t - Passed \in Nat
         /\ Line = [k \in 1 .. t - Passed |-> peer[Passed + k]]
<1>1. Passed \in Listen .. t
  <2>1. /\ lastFd \in FDs \cup {0}
        /\ \A f \in FDs : peer[f] = None => lastFd < f
    BY DEF IInv, TypeOK, FreshInv
  <2>2. lastFd \in FDs => lastFd <= t
    BY <2>1, ServerAssumption DEF IsTop, FDs
  <2> QED  BY <2>1, <2>2, ServerAssumption DEF Passed, FDs
<1>2. /\ Cardinality({f \in Accepted : f > Passed}) = t - Passed
      /\ t - Passed \in Nat
  BY <1>1, CountBehind DEF Accepted
<1> QED  BY <1>1, <1>2 DEF Line

LEMMA LineIsNext ==
  ASSUME IInv', NEW t \in FDs \cup {Listen}, IsTop(t, peer')
  PROVE  /\ Passed' \in Listen .. t /\ t - Passed' \in Nat
         /\ Line' = [k \in 1 .. t - Passed' |-> peer'[Passed' + k]]
<1>1. Passed' \in Listen .. t
  <2>1. /\ lastFd' \in FDs \cup {0}
        /\ \A f \in FDs : peer'[f] = None => lastFd' < f
    BY DEF IInv, TypeOK, FreshInv
  <2>2. lastFd' \in FDs => lastFd' <= t
    BY <2>1, ServerAssumption DEF IsTop, FDs
  <2> QED  BY <2>1, <2>2, ServerAssumption DEF Passed, FDs
<1>2. /\ Cardinality({f \in Accepted' : f > Passed'}) = t - Passed'
      /\ t - Passed' \in Nat
  BY <1>1, CountBehind DEF Accepted
<1> QED  BY <1>1, <1>2 DEF Line

Arrived == {peer[f] : f \in Accepted}

\* What does not touch the connections, the queue or who holds a descriptor
\* is no turn.
LEMMA NoTurn ==
  ASSUME UNCHANGED <<peer, lastFd, queue, wfd>>,
         \A w \in Workers : Holding(w)' = Holding(w)
  PROVE  UNCHANGED <<Arrived, Line, Called, With>>
<1>1. Accepted' = Accepted /\ Passed' = Passed
  BY DEF Accepted, Passed
<1>2. Arrived' = Arrived /\ Line' = Line
  BY <1>1 DEF Arrived, Line
<1>3. Called' = Called
  BY DEF Called
<1>4. With' = With
  BY DEF With
<1> QED  BY <1>2, <1>3, <1>4

\* A connection accepted joins the end of the line.
LEMMA TurnAtAccept ==
  ASSUME IInv, TopInv, IInv', MainAccept
  PROVE  \E c \in Clients : Order!Arrive(c)
<1>1. PICK t \in FDs \cup {Listen} : IsTop(t, peer)
  BY DEF TopInv
<1>2. PICK f \in FDs : /\ f = t + 1 /\ LowestFree(f) /\ IsTop(f, peer')
                       /\ peer' = [peer EXCEPT ![f] = Head(backlog)]
                       /\ Head(backlog) \in Clients
                       /\ Head(backlog) = backlog[1] /\ 1 \in DOMAIN backlog
  BY <1>1, TopAtAccept DEF IInv
<1> DEFINE c == Head(backlog)
<1>3. /\ UNCHANGED <<lastFd, queue, wpc, wfd>>
      /\ c # None /\ peer[f] = None
      /\ \A g \in FDs : g # f => peer'[g] = peer[g]
      /\ peer'[f] = c
  BY <1>2, ServerAssumption DEF MainAccept, workerVars, LowestFree, IInv, TypeOK
<1>4. c \notin Arrived
  BY <1>2 DEF Arrived, Accepted, IInv, ConnectionInv
<1>5. Arrived' = Arrived \cup {c}
  <2>1. Accepted' = Accepted \cup {f}
    BY <1>3 DEF Accepted
  <2>2. \A g \in Accepted : peer'[g] = peer[g]
    BY <1>3 DEF Accepted
  <2> QED  BY <1>3, <2>1, <2>2 DEF Arrived
<1>6. Called' = Called
  <2>1. queue \in Seq(FDs)
    BY DEF IInv, TypeOK
  <2>2. \A k \in DOMAIN queue : queue[k] \in FDs
    BY <2>1
  <2>3. \A k \in DOMAIN queue : peer[queue[k]] # None
    BY DEF IInv, ReadyInv
  <2>4. \A k \in DOMAIN queue : peer'[queue[k]] = peer[queue[k]]
    BY <2>2, <2>3, <1>3
  <2> QED  BY <2>4, <1>3 DEF Called
<1>7. With' = With
  <2>1. \A w \in Workers : Holding(w) => wfd[w] \in FDs /\ peer[wfd[w]] # None
    BY DEF IInv, WatchInv, ReadyInv
  <2>2. \A w \in Workers : Holding(w) => peer'[wfd[w]] = peer[wfd[w]]
    BY <2>1, <1>3
  <2>3. \A w \in Workers : Holding(w)' = Holding(w)
    BY <1>3 DEF Holding
  <2> QED  BY <2>2, <2>3, <1>3 DEF With
<1>8. Line' = Append(Line, c)
  <2>1. /\ Passed \in Listen .. t /\ t - Passed \in Nat
        /\ Line = [k \in 1 .. t - Passed |-> peer[Passed + k]]
    BY <1>1, LineIs
  <2>2. Line' = [k \in 1 .. f - Passed' |-> peer'[Passed' + k]]
    BY <1>2, LineIsNext
  <2>3. Passed' = Passed /\ f - Passed = (t - Passed) + 1 /\ Passed + ((t - Passed) + 1) = f
    BY <1>2, <1>3, <2>1, ServerAssumption DEF Passed, FDs
  <2>4. \A k \in 1 .. t - Passed : Passed + k \in FDs /\ Passed + k # f
    BY <1>2, <2>1, ServerAssumption DEF FDs
  <2>5. \A k \in 1 .. t - Passed : peer'[Passed + k] = peer[Passed + k]
    BY <2>4, <1>3
  <2> DEFINE n == t - Passed
  <2>6. Line \in Seq(Clients \cup {None}) /\ Len(Line) = n /\ \A k \in 1 .. n : Line[k] = peer[Passed + k]
    <3>1. \A k \in 1 .. n : peer[Passed + k] \in Clients \cup {None}
      BY <2>4 DEF IInv, TypeOK
    <3> QED  BY <2>1, <3>1
  <2>7. Line' = [k \in 1 .. n + 1 |-> peer'[Passed + k]]
    BY <2>2, <2>3
  <2>8. Append(Line, c) = [k \in 1 .. n + 1 |-> IF k = n + 1 THEN c ELSE Line[k]]
    <3> HIDE DEF n, c
    <3>1. c \in Clients \cup {None}
      BY <1>2 DEF c
    <3>2. Append(Line, c) = [k \in 1 .. Len(Line) + 1 |-> IF k = Len(Line) + 1 THEN c ELSE Line[k]]
      BY <3>1, <2>6, AppendIs
    <3> QED  BY <3>2, <2>6
  <2>9. ASSUME NEW k \in 1 .. n + 1
        PROVE  peer'[Passed + k] = IF k = n + 1 THEN c ELSE Line[k]
    <3>1. CASE k = n + 1
      BY <3>1, <2>3, <1>3
    <3>2. CASE k # n + 1
      <4>1. k \in 1 .. n
        BY <3>2, <2>1
      <4> QED  BY <4>1, <3>2, <2>5, <2>6
    <3> QED  BY <3>1, <3>2
  <2> HIDE DEF n, c
  <2> QED  BY <2>7, <2>8, <2>9
<1> QED  BY <1>2, <1>4, <1>5, <1>6, <1>7, <1>8 DEF Order!Arrive, Arrived

\* A push calls a client of the line and passes over those before it.
LEMMA TurnAtPush ==
  ASSUME IInv, TopInv, IInv', MainPush
  PROVE  \E k \in DOMAIN Line : Order!Call(k)
<1>1. PICK t \in FDs \cup {Listen} : IsTop(t, peer)
  BY DEF TopInv
<1>2. PICK i \in FDs : /\ ScanAt(i) /\ i > lastFd
                       /\ queue' = Append(queue, i) /\ lastFd' = i
                       /\ UNCHANGED <<peer, wpc, wfd>>
  BY DEF MainPush, Dispatchable, workerVars, kernelVars
<1>3. peer[i] # None /\ i <= t
  <2>1. i \in readFDs /\ i # Listen
    BY <1>2, ServerAssumption DEF ScanAt, FDs
  <2> QED  BY <1>1, <2>1 DEF IInv, ReadyInv, IsTop
<1>4. /\ Passed \in Listen .. t /\ t - Passed \in Nat
      /\ Line = [k \in 1 .. t - Passed |-> peer[Passed + k]]
  BY <1>1, LineIs
<1>5. Passed' = i
  BY <1>2, ServerAssumption DEF Passed, FDs
<1>6. Line' = [k \in 1 .. t - i |-> peer[i + k]]
  <2>1. IsTop(t, peer')
    BY <1>1, <1>2
  <2> QED  BY <1>2, <1>5, <2>1, LineIsNext
<1> DEFINE n == t - Passed
           k == i - Passed
<1>7. /\ k \in 1 .. n /\ n \in Nat /\ Passed + k = i /\ t - i = n - k
      /\ \A j \in 1 .. n - k : k + j \in 1 .. n /\ Passed + (k + j) = i + j
      /\ Passed \in Int /\ i \in Int /\ t \in Int
  BY <1>2, <1>3, <1>4, ServerAssumption DEF Passed, FDs
<1>8. /\ Line \in Seq(Clients \cup {None}) /\ Len(Line) = n /\ DOMAIN Line = 1 .. n
      /\ \A j \in 1 .. n : Line[j] = peer[Passed + j]
  <2>1. \A j \in 1 .. n : peer[Passed + j] \in Clients \cup {None}
    <3>1. \A j \in 1 .. n : Passed + j \in FDs
      BY <1>4, ServerAssumption DEF FDs
    <3> QED  BY <3>1 DEF IInv, TypeOK
  <2> QED  BY <1>4, <2>1
<1>9. Line' = SubSeq(Line, k + 1, Len(Line))
  <2> HIDE DEF n, k
  <2>1. SubSeq(Line, k + 1, n) = [j \in 1 .. n - k |-> Line[k + j]]
    BY <1>7, <1>8, SuffixIs
  <2>2. \A j \in 1 .. n - k : Line[k + j] = peer[i + j]
    BY <1>7, <1>8
  <2> QED  BY <1>6, <1>7, <1>8, <2>1, <2>2
<1>10. Called' = Append(Called, Line[k])
  <2>1. queue \in Seq(FDs) /\ Called = [j \in 1 .. Len(queue) |-> peer[queue[j]]] /\ Len(queue) \in Nat
    BY DEF IInv, TypeOK, Called
  <2>2. \A j \in 1 .. Len(queue) : peer[queue[j]] \in Clients \cup {None}
    BY <2>1 DEF IInv, TypeOK
  <2>3. Called \in Seq(Clients \cup {None}) /\ Len(Called) = Len(queue)
    BY <2>1, <2>2
  <2>4. Append(Called, peer[i]) =
          [j \in 1 .. Len(queue) + 1 |-> IF j = Len(queue) + 1 THEN peer[i] ELSE Called[j]]
    BY <2>3, AppendIs
  <2>5. Append(queue, i) =
          [j \in 1 .. Len(queue) + 1 |-> IF j = Len(queue) + 1 THEN i ELSE queue[j]]
    BY <2>1, AppendIs
  <2>6. Called' = [j \in 1 .. Len(queue) + 1 |-> peer[queue'[j]]]
    BY <1>2, <2>1, <2>5 DEF Called
  <2>7. \A j \in 1 .. Len(queue) + 1 :
          peer[queue'[j]] = IF j = Len(queue) + 1 THEN peer[i] ELSE Called[j]
    <3> TAKE j \in 1 .. Len(queue) + 1
    <3>1. CASE j = Len(queue) + 1
      BY <3>1, <1>2, <2>1, <2>5
    <3>2. CASE j # Len(queue) + 1
      <4>1. j \in 1 .. Len(queue) /\ queue'[j] = queue[j]
        BY <3>2, <1>2, <2>1, <2>5
      <4> QED  BY <4>1, <3>2, <2>1
    <3> QED  BY <3>1, <3>2
  <2>8. Line[k] = peer[i]
    BY <1>7, <1>8
  <2> QED  BY <2>4, <2>6, <2>7, <2>8
<1>11. With' = With
  <2>1. \A w \in Workers : Holding(w)' = Holding(w)
    BY <1>2 DEF Holding
  <2> QED  BY <1>2, <2>1 DEF With
<1>12. Arrived' = Arrived
  BY <1>2 DEF Arrived, Accepted
<1>13. k \in DOMAIN Line
  BY <1>7, <1>8
<1> HIDE DEF k
<1> QED  BY <1>9, <1>10, <1>11, <1>12, <1>13 DEF Order!Call, Arrived

\* A pop gives the first client called to a worker that had none.
LEMMA TurnAtPop ==
  ASSUME IInv, NEW w \in Workers, WorkerPop(w)
  PROVE  Order!Take(w)
<1>1. /\ queue # <<>> /\ queue' = Tail(queue)
      /\ wfd' = [wfd EXCEPT ![w] = Head(queue)]
      /\ wpc[w] = "pop" /\ wpc' = [wpc EXCEPT ![w] = "read"]
      /\ UNCHANGED <<peer, lastFd>>
  BY DEF WorkerPop, WorkerTo, mainVars, kernelVars
<1>2. /\ queue \in Seq(FDs) /\ Len(queue) \in Nat \ {0} /\ DOMAIN queue = 1 .. Len(queue)
      /\ 1 \in 1 .. Len(queue) /\ Head(queue) = queue[1]
      /\ DOMAIN Tail(queue) = 1 .. Len(queue) - 1
      /\ \A j \in 1 .. Len(queue) - 1 : Tail(queue)[j] = queue[j + 1]
  BY <1>1 DEF IInv, TypeOK
<1>3. /\ Called = [j \in 1 .. Len(queue) |-> peer[queue[j]]]
      /\ Called' = [j \in 1 .. Len(queue) - 1 |-> peer[queue[j + 1]]]
  <2>1. Called' = [j \in 1 .. Len(queue) - 1 |-> peer[Tail(queue)[j]]]
    BY <1>1, <1>2 DEF Called
  <2> QED  BY <1>2, <2>1 DEF Called
<1>4. Called # <<>> /\ Head(Called) = peer[queue[1]] /\ Called' = Tail(Called)
  <2>1. \A j \in 1 .. Len(queue) : peer[queue[j]] \in Clients \cup {None}
    BY <1>2 DEF IInv, TypeOK
  <2>2. Called \in Seq(Clients \cup {None}) /\ Len(Called) = Len(queue)
    BY <1>2, <1>3, <2>1
  <2>3. Called # <<>> /\ Head(Called) = Called[1]
    BY <1>2, <2>2
  <2>4. Tail(Called) = [j \in 1 .. Len(queue) - 1 |-> Called[j + 1]]
    BY <2>2, <2>3, TailIs
  <2>5. \A j \in 1 .. Len(queue) - 1 : Called[j + 1] = peer[queue[j + 1]]
    BY <1>2, <1>3
  <2> QED  BY <1>2, <1>3, <2>3, <2>4, <2>5
<1>5. With[w] = None /\ With' = [With EXCEPT ![w] = peer[queue[1]]]
  <2>1. ~Holding(w) /\ Holding(w)' /\ wfd'[w] = queue[1]
    BY <1>1, <1>2 DEF Holding, IInv, TypeOK
  <2>2. \A v \in Workers : v # w => (Holding(v)' = Holding(v)) /\ wfd'[v] = wfd[v]
    BY <1>1 DEF Holding, IInv, TypeOK
  <2>3. \A v \in Workers :
          With'[v] = IF v = w THEN peer[queue[1]] ELSE With[v]
    BY <1>1, <2>1, <2>2 DEF With
  <2>4. With = [v \in Workers |-> With[v]] /\ With' = [v \in Workers |-> With'[v]]
    BY DEF With
  <2>5. With[w] = None
    BY <2>1 DEF With
  <2> HIDE DEF With
  <2> QED  BY <2>3, <2>4, <2>5
<1>6. Arrived' = Arrived /\ Line' = Line
  BY <1>1 DEF Arrived, Accepted, Line, Passed
<1> QED  BY <1>4, <1>5, <1>6 DEF Order!Take, Arrived

\* A worker that goes back to the queue has no client.
LEMMA TurnEnds ==
  ASSUME IInv, NEW w \in Workers, WorkerServe(w) \/ WorkerReject(w) \/ AggiornaDone(w)
  PROVE  Order!Finish(w)
<1>1. /\ wpc' = [wpc EXCEPT ![w] = "pop"]
      /\ UNCHANGED <<peer, lastFd, queue, wfd>>
  BY DEF WorkerServe, WorkerReject, AggiornaDone, WorkerTo, mainVars, kernelVars
<1>2. ~Holding(w)' /\ \A v \in Workers : v # w => Holding(v)' = Holding(v)
  BY <1>1 DEF Holding, IInv, TypeOK
<1>3. With' = [With EXCEPT ![w] = None]
  BY <1>1, <1>2 DEF With
<1>4. Arrived' = Arrived /\ Line' = Line /\ Called' = Called
  BY <1>1 DEF Arrived, Accepted, Line, Passed, Called
<1> QED  BY <1>3, <1>4 DEF Order!Finish, Arrived

\* The server implements CallOrder, for any number of clients, workers and
\* descriptors: each client is called at most once, in the order of accept.
THEOREM TurnsInOrderHolds == Spec => TurnsInOrder
<1>1. Init => TopInv /\ Order!Init
  <2> SUFFICES ASSUME Init PROVE TopInv /\ Order!Init
    OBVIOUS
  <2>1. IsTop(Listen, peer)
    BY ServerAssumption DEF Init, IsTop, FDs
  <2>2. Accepted = {}
    BY DEF Accepted, Init
  <2>3. Line = <<>>
    <3>1. IInv
      BY InitIInv
    <3>2. Passed = Listen /\ Listen - Listen = 0
      BY ServerAssumption DEF Init, Passed
    <3>3. Line = [k \in 1 .. 0 |-> peer[Passed + k]]
      BY <2>1, <3>1, <3>2, LineIs
    <3> QED  BY <3>3
  <2>4. Called = <<>> /\ With = [w \in Workers |-> None]
    BY DEF Init, Called, With, Holding
  <2> QED  BY <2>1, <2>2, <2>3, <2>4 DEF TopInv, Order!Init
<1>2. IInv /\ TopInv /\ IInv' /\ [Next]_vars => TopInv' /\ [Order!Next]_(Order!vars)
  <2> SUFFICES ASSUME IInv, TopInv, IInv', [Next]_vars
               PROVE  TopInv' /\ [Order!Next]_(Order!vars)
    OBVIOUS
  <2>1. TopInv'
    BY TopStep DEF IInv
  <2>2. CASE MainAccept
    BY <2>1, <2>2, TurnAtAccept DEF Order!Next
  <2>3. CASE MainPush
    BY <2>1, <2>3, TurnAtPush DEF Order!Next
  <2>4. ASSUME NEW w \in Workers, WorkerPop(w)
        PROVE  Order!Next
    BY <2>4, TurnAtPop DEF Order!Next
  <2>5. ASSUME NEW w \in Workers, WorkerServe(w) \/ WorkerReject(w) \/ AggiornaDone(w)
        PROVE  Order!Next
    BY <2>5, TurnEnds DEF Order!Next
  <2>6. ASSUME UNCHANGED <<peer, lastFd, queue, wfd>>,
               \A w \in Workers : Holding(w)' = Holding(w)
        PROVE  UNCHANGED Order!vars
    BY <2>6, NoTurn DEF Order!vars, Arrived
  <2>7. CASE MainSnapshot \/ MainStop \/ MainSelect \/ MainAcceptFails \/ MainRegister \/
             MainRaiseMax \/ MainSkip \/ MainScanDone \/ MainJoin \/ MainSave \/ Signal
    <3>1. UNCHANGED <<peer, lastFd, queue, wfd, wpc>>
      BY <2>7 DEF MainSnapshot, MainStop, MainSelect, MainAcceptFails, MainRegister,
                  MainRaiseMax, MainSkip, MainScanDone, MainJoin, MainSave, Signal,
                  workerVars, mainVars, kernelVars
    <3> QED  BY <2>1, <3>1, <2>6 DEF Holding
  <2>8. ASSUME NEW w \in Workers,
               WorkerPopNothing(w) \/ WorkerCheck(w) \/ WorkerRead(w) \/ WorkerReadSize(w) \/
               WorkerSigpipe(w) \/ WorkerClear(w) \/ AggiornaMax(w)
        PROVE  UNCHANGED Order!vars
    <3>1. UNCHANGED <<peer, lastFd, queue, wfd>>
      BY <2>8 DEF WorkerPopNothing, WorkerCheck, WorkerRead, WorkerReadSize, WorkerSigpipe,
                  WorkerClear, AggiornaMax, workerVars, mainVars, kernelVars
    <3>2. \A v \in Workers : Holding(v)' = Holding(v)
      BY <2>8 DEF WorkerPopNothing, WorkerCheck, WorkerRead, WorkerReadSize, WorkerSigpipe,
                  WorkerClear, AggiornaMax, WorkerTo, AfterNothing, AfterRead, Holding,
                  workerVars, IInv, TypeOK
    <3> QED  BY <3>1, <3>2, <2>6
  <2>9. ASSUME NEW c \in Clients, ClientNext(c)
        PROVE  UNCHANGED Order!vars
    <3>1. UNCHANGED <<peer, lastFd, queue, wfd, wpc>>
      BY <2>9 DEF ClientNext, ClientConnect, ClientSend, ClientClose, workerVars, mainVars
    <3> QED  BY <3>1, <2>6 DEF Holding
  <2>10. CASE UNCHANGED vars
    <3>1. UNCHANGED <<peer, lastFd, queue, wfd, wpc>>
      BY <2>10 DEF vars, workerVars, mainVars, kernelVars
    <3> QED  BY <2>1, <3>1, <2>6 DEF Holding
  <2> QED
    BY <2>1, <2>2, <2>3, <2>4, <2>5, <2>7, <2>8, <2>9, <2>10
       DEF Next, MainNext, WorkerNext, Gone
<1> QED  BY <1>1, <1>2, Inductive, PTL DEF Spec, TurnsInOrder, Order!Spec
=============================================================================
