----------------------------- MODULE BibSession ------------------------------
(***************************************************************************)
(* One run of bibclient against the servers of conf/addr.conf: it counts   *)
(* the lines of the file and reads them again, connects to each server in  *)
(* turn, writes its request and reads the reply until MSG_END, an empty    *)
(* message or the end of file (bibclient.c:97-227).  Servers may start at  *)
(* the same time, and append their line (bibserver.c:152-184).             *)
(*                                                                         *)
(* A message is its type, its length and its data, written with one write  *)
(* and read with three reads.  A server is the worker that serves this     *)
(* connection: its reply has the shape that LoanDesk shows, its process    *)
(* may stop at any time.  That a worker pops the connection at all is the  *)
(* subject of BibServer, and is assumed here.                              *)
(***************************************************************************)
EXTENDS Naturals, Sequences

CONSTANTS
  NumServers,   \* servers, in the order of their lines in addr.conf
  MaxRecords    \* bound: records of a reply

Servers == 1 .. NumServers

ASSUME SessionAssumption ==
  /\ NumServers \in Nat \ {0}
  /\ MaxRecords \in Nat

VARIABLES
  type,      \* the type of the client's request: a loan or a query
  valid,     \* whether its year is a year
  bare,      \* whether it is a loan with no field: its type and nothing else
  lines,     \* lines of addr.conf
  count,     \* lines the client counted
  upAtCount, \* history: the servers that listened when it did
  cpc,       \* where the client is
  at,        \* index_for_addr: the server it is at
  received,  \* type_received and length_received
  spc,       \* where each server's worker is
  records,   \* records a server has sent
  negatives, \* negative answers it has sent
  stream,    \* what a server wrote and the client has not read
  ended,     \* how a server's end of the connection ended
  reset      \* a server wrote to the connection after the client was gone

requestVars == <<type, valid, bare, count, upAtCount>>
clientVars == <<cpc, at, received>>
replyVars == <<records, negatives>>
vars == <<requestVars, lines, clientVars, spc, replyVars, stream, ended, reset>>

\* The client's process is over: it returned, it called exit or a signal
\* killed it, and the kernel closed its connections.
ClientGone == cpc \in {"done", "failed", "killed"}

ServerGone(s) == spc[s] \in {"stopped", "killed"}

\* Nobody listens on the server's port: not yet, or not any more.
Refuses(s) == spc[s] = "published" \/ ServerGone(s)

\* The fields of a message.  An empty message has no data.
Kinds == {"L", "Q", "R", "N", "X"}
Message(kind) == <<kind, "some", "data">>
EmptyMessage(kind) == <<kind, "zero">>
EndMessage == <<"X">>

-----------------------------------------------------------------------------
Init ==
  /\ type \in {"L", "Q"}
  /\ valid \in BOOLEAN
  /\ bare \in BOOLEAN
  /\ bare => type = "L" /\ valid
  /\ lines \in 0 .. NumServers
  /\ count = 0
  /\ upAtCount = {}
  /\ cpc = "count"
  /\ at = 1
  /\ received = <<"none", "zero">>
  /\ spc \in [Servers -> {"off", "published", "up", "stopped"}]
  /\ \A s \in Servers : spc[s] = "off" <=> s > lines
  /\ records = [s \in Servers |-> 0]
  /\ negatives = [s \in Servers |-> 0]
  /\ stream = [s \in Servers |-> <<>>]
  /\ ended = [s \in Servers |-> "no"]
  /\ reset = [s \in Servers |-> FALSE]

-----------------------------------------------------------------------------
(* The client. *)

Count ==
  /\ cpc = "count"
  /\ count' = lines
  /\ upAtCount' = {s \in Servers : spc[s] = "up"}
  /\ cpc' = IF lines = 0 THEN "done" ELSE "list"
  /\ UNCHANGED <<type, valid, bare, lines, at, received, spc, replyVars, stream, ended, reset>>

\* A line that was appended since is written past the array of the others:
\* over nothing that matters, or the process is lost.
ReadLines ==
  /\ cpc = "list"
  /\ cpc' = "connect" \/ (lines > count /\ cpc' = "killed")
  /\ UNCHANGED <<requestVars, lines, at, received, spc, replyVars, stream, ended, reset>>

MutantLastServer == at > NumServers

LastServer == at = count

\* The main loop goes on with the next server, or ends after the last one.
Leave ==
  IF LastServer
  THEN cpc' = "done" /\ UNCHANGED at
  ELSE cpc' = "connect" /\ at' = at + 1

MutantGivesUp == cpc' = "done" /\ UNCHANGED at

SkipServer == Leave

Connect ==
  /\ cpc = "connect"
  /\ received' = <<"none", "zero">>
  /\ IF Refuses(at)
     THEN SkipServer /\ UNCHANGED spc
     ELSE /\ cpc' = "write"
          /\ spc' = [spc EXCEPT ![at] = "accepted"]
          /\ UNCHANGED at
  /\ UNCHANGED <<requestVars, lines, replyVars, stream, ended, reset>>

\* The request goes out in one write, of one byte when it has no field.  A
\* server that went away in between has the write end in SIGPIPE or the
\* next read in an error, as its kernel had it.
Write ==
  /\ cpc = "write"
  /\ \/ /\ ended[at] = "no"
        /\ cpc' = "type"
        /\ spc' = [spc EXCEPT ![at] = "asked"]
        /\ UNCHANGED ended
     \/ /\ ended[at] = "eof"
        /\ cpc' = "type"
        /\ \E e \in {"eof", "error"} : ended' = [ended EXCEPT ![at] = e]
        /\ UNCHANGED spc
     \/ /\ ended[at] = "error"
        /\ cpc' = "killed"
        /\ UNCHANGED <<spc, ended>>
  /\ UNCHANGED <<requestVars, lines, at, received, replyVars, stream, reset>>

Read(field) ==
  /\ stream[at] # <<>>
  /\ field = Head(stream[at])
  /\ stream' = [stream EXCEPT ![at] = Tail(@)]

Exhausted == stream[at] = <<>> /\ ended[at] # "no"

MutantReadsOn(kind) == "length"

\* What the client does with the type it read.
AfterType(kind) ==
  CASE kind = "X" -> "leave"
    [] kind = "E" -> "failed"
    [] OTHER -> "length"

ReadType ==
  /\ cpc = "type"
  /\ \E kind \in Kinds :
       /\ Read(kind)
       /\ received' = <<kind, received[2]>>
       /\ cpc' = AfterType(kind)
  /\ UNCHANGED <<requestVars, lines, at, spc, replyVars, ended, reset>>

\* End of file: the inner loop ends.
ReadEof ==
  /\ cpc = "type" /\ Exhausted /\ ended[at] = "eof"
  /\ cpc' = "leave"
  /\ UNCHANGED <<requestVars, lines, at, received, spc, replyVars, stream, ended, reset>>

\* A reset makes read return -1 once, and the loop goes on with a type that
\* was never read: whatever type_received holds.
ReadError ==
  /\ cpc = "type" /\ Exhausted /\ ended[at] = "error"
  /\ \E kind \in Kinds \cup {"E"} : cpc' = AfterType(kind)
  /\ ended' = [ended EXCEPT ![at] = "eof"]
  /\ UNCHANGED <<requestVars, lines, at, received, spc, replyVars, stream, reset>>

MutantSkipsData == cpc' = "type"

AfterLength == cpc' = "data"

ReadLength ==
  /\ cpc = "length"
  /\ \/ /\ \E length \in {"zero", "some"} :
             Read(length) /\ received' = <<received[1], length>>
     \/ Exhausted /\ UNCHANGED <<received, stream>>
  /\ AfterLength
  /\ UNCHANGED <<requestVars, lines, at, spc, replyVars, ended, reset>>

MutantLeavesAtOnce == cpc' = "leave"

AfterData == cpc' = "type"

\* A read of data goes on to the next message; one of no bytes, because the
\* message is empty or the connection is over, leaves the server.
ReadData ==
  /\ cpc = "data"
  /\ \/ received[2] = "some" /\ Read("data") /\ AfterData
     \/ /\ received[2] = "zero" \/ Exhausted
        /\ cpc' = "leave"
        /\ UNCHANGED stream
  /\ UNCHANGED <<requestVars, lines, at, received, spc, replyVars, ended, reset>>

NextServer ==
  /\ cpc = "leave"
  /\ Leave
  /\ UNCHANGED <<requestVars, lines, received, spc, replyVars, stream, ended, reset>>

Client ==
  \/ Count \/ ReadLines \/ Connect \/ Write \/ ReadType \/ ReadEof \/ ReadError \/ ReadLength
  \/ ReadData \/ NextServer

-----------------------------------------------------------------------------
(* The servers. *)

ServerTo(s, p) == spc' = [spc EXCEPT ![s] = p]

\* The address is in the file as soon as the port is bound ...
Publish(s) ==
  /\ spc[s] = "off" /\ s = lines + 1
  /\ ServerTo(s, "published")
  /\ lines' = lines + 1
  /\ UNCHANGED <<requestVars, clientVars, replyVars, stream, ended, reset>>

\* ... and connections are refused until listen.
Listen(s) ==
  /\ spc[s] = "published"
  /\ ServerTo(s, "up")
  /\ UNCHANGED <<requestVars, lines, clientVars, replyVars, stream, ended, reset>>

\* The length of a bare request never comes: its worker stays in the read, as
\* the client, which waits for a reply, does not close the connection.
LengthComes == ~bare

\* The worker has read the request.
ReadRequest(s) ==
  /\ spc[s] = "asked" /\ LengthComes
  /\ ServerTo(s, IF valid THEN "reply" ELSE "reject")
  /\ UNCHANGED <<requestVars, lines, clientVars, replyVars, stream, ended, reset>>

\* A write reaches a client that is still there.  A client that is gone
\* resets the connection, at once if it left something unread and at the
\* first write else: that write is lost, one after the reset raises SIGPIPE.
WriteTo(s, message, p) ==
  \/ /\ ~ClientGone
     /\ stream' = [stream EXCEPT ![s] = @ \o message]
     /\ ServerTo(s, p)
     /\ UNCHANGED reset
  \/ /\ ClientGone
     /\ reset' = [reset EXCEPT ![s] = TRUE]
     /\ ServerTo(s, p)
     /\ UNCHANGED stream
  \/ /\ ClientGone /\ (reset[s] \/ stream[s] # <<>>)
     /\ ServerTo(s, "killed")
     /\ UNCHANGED <<stream, reset>>

MutantSendsOn(s) == records[s] < MaxRecords

\* A record follows records only: a denial ends the loans of a request.
MayRecord(s) == negatives[s] = 0 /\ records[s] < MaxRecords

SendRecord(s) ==
  /\ spc[s] = "reply" /\ MayRecord(s)
  /\ records' = [records EXCEPT ![s] = @ + 1]
  /\ WriteTo(s, Message("R"), "reply")
  /\ UNCHANGED <<requestVars, lines, clientVars, negatives, ended>>

\* A denied loan and a last book that does not match send one each.
SendNegative(s) ==
  /\ spc[s] = "reply"
  /\ negatives[s] < IF type = "L" THEN 2 ELSE 1
  /\ negatives' = [negatives EXCEPT ![s] = @ + 1]
  /\ WriteTo(s, EmptyMessage("N"), "reply")
  /\ UNCHANGED <<requestVars, lines, clientVars, records, ended>>

SendEnd(s) ==
  /\ spc[s] = "reply"
  /\ records[s] + negatives[s] > 0
  /\ WriteTo(s, EndMessage, "served")
  /\ UNCHANGED <<requestVars, lines, clientVars, replyVars, ended>>

\* The error message has the type of the request, and nothing follows.
Reject(s) ==
  /\ spc[s] = "reject"
  /\ WriteTo(s, Message(type), "served")
  /\ UNCHANGED <<requestVars, lines, clientVars, replyVars, ended>>

\* The process stops.  The client's end of a connection whose request was not
\* read to its end is reset, of another one it reads the end of file.  A bare
\* request ends with its type, which the worker has read or not.
Stop(s) ==
  /\ ~ServerGone(s) /\ spc[s] # "off"
  /\ ServerTo(s, "stopped")
  /\ \E e \in {"eof", "error"} :
       /\ e = "eof" => spc[s] # "asked" \/ bare
       /\ e = "error" => spc[s] = "asked"
       /\ ended' = [ended EXCEPT ![s] = e]
  /\ UNCHANGED <<requestVars, lines, clientVars, replyVars, stream, reset>>

\* A connection that no thread accepted yet is reset when its server stops.
StopUnaccepted(s) ==
  /\ spc[s] = "accepted"
  /\ ServerTo(s, "stopped")
  /\ ended' = [ended EXCEPT ![s] = "error"]
  /\ UNCHANGED <<requestVars, lines, clientVars, replyVars, stream, reset>>

Worker(s) ==
  \/ ReadRequest(s) \/ SendRecord(s) \/ SendNegative(s) \/ SendEnd(s) \/ Reject(s)

\* The client waits for a reply, and the worker for the length of its request.
WaitsForLength == bare /\ cpc = "type" /\ spc[at] = "asked"

\* The client is gone, or waits for a server that has no more to say.
Rest ==
  /\ \/ ClientGone
     \/ cpc = "type" /\ spc[at] = "served" /\ stream[at] = <<>>
     \/ WaitsForLength
  /\ UNCHANGED vars

Next ==
  \/ Client
  \/ \E s \in Servers : Publish(s) \/ Listen(s) \/ Worker(s) \/ Stop(s) \/ StopUnaccepted(s)
  \/ Rest

Spec == Init /\ [][Next]_vars

\* The client and the workers are run again and again; no server has to stop.
FairSpec == Spec /\ WF_vars(Client) /\ \A s \in Servers : WF_vars(Worker(s))

-----------------------------------------------------------------------------
(* Properties. *)

\* Type invariant of the client, the servers and the connections.
TypeOK ==
  /\ type \in {"L", "Q"}
  /\ valid \in BOOLEAN
  /\ bare \in BOOLEAN
  /\ lines \in 0 .. NumServers
  /\ count \in 0 .. lines
  /\ upAtCount \subseteq Servers
  /\ cpc \in {"count", "list", "connect", "write", "type", "length", "data", "leave",
              "done", "failed", "killed"}
  /\ at \in Servers
  /\ received \in (Kinds \cup {"none"}) \X {"zero", "some"}
  /\ spc \in [Servers -> {"off", "published", "up", "accepted", "asked", "reply", "reject",
                          "served", "stopped", "killed"}]
  /\ records \in [Servers -> 0 .. MaxRecords]
  /\ negatives \in [Servers -> 0 .. 2]
  /\ stream \in [Servers -> Seq(Kinds \cup {"zero", "some", "data"})]
  /\ ended \in [Servers -> {"no", "eof", "error"}]
  /\ reset \in [Servers -> BOOLEAN]

\* A client that went through its loop has asked every server that listened
\* when it counted the lines and did not stop since, whichever servers came up
\* or went away meanwhile: who listens is in the file.
ServersUpAreAsked == cpc = "done" => \A s \in upAtCount : spc[s] # "up"

\* The client reads each field where the server wrote it, though MSG_END has
\* no length and a negative answer no data.
InFrame ==
  stream[at] # <<>> =>
    /\ cpc = "type" => Head(stream[at]) \in Kinds
    /\ cpc = "length" => Head(stream[at]) \in {"zero", "some"}
    /\ cpc = "data" /\ received[2] = "some" => Head(stream[at]) = "data"

Left(s) == s < at \/ (s = at /\ cpc \in {"leave", "done"})

\* The client leaves a server at the first empty message: it misses a second
\* negative answer and MSG_END, and never a record.
NoRecordMissed ==
  \A s \in Servers : Left(s) => \A k \in DOMAIN stream[s] : stream[s][k] # "R"

\* A client that goes through its loop kills a server with SIGPIPE only after
\* a negative answer, which makes it leave before MSG_END.
KilledByNegative ==
  \A s \in Servers : spc[s] = "killed" => negatives[s] > 0

\* A client with a valid request ends, whatever the servers answer, and
\* whichever of them are down, stop or are reset under way.  Only a request
\* without a field can leave it and a worker waiting for each other for ever.
ValidSessionEnds == valid => <>ClientGone \/ <>[]WaitsForLength

\* The client ends, once it has asked every server: here, one whose request
\* reaches the server whole.
SessionEnds == LengthComes => <>ClientGone
=============================================================================
