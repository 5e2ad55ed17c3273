------------------------------- MODULE LoanDesk -------------------------------
(***************************************************************************)
(* The worker threads at the loan desk: what each does with one request it *)
(* read from a connection (bibserver.c, worker), while the others do the   *)
(* same over the same books.  BibServer hands the requests out.            *)
(*                                                                         *)
(* A date is a day number.  A step is the code between two accesses to     *)
(* what the workers share: the loan field of the books, the log, and the   *)
(* one struct tm that localtime returns a pointer to in every thread.  A   *)
(* worker's local variables are functions of the worker.                   *)
(***************************************************************************)
EXTENDS Naturals, Sequences, FiniteSets, Functions

CONSTANTS
  Workers,       \* the worker threads
  NumBooks,      \* books->size; a server whose list is empty does not start
  LoanDays,      \* the days added to tm_mday
  AVAILABLE,     \* the loan field of a book that was never lent
  InitialDates,  \* due dates found in the record file
  None,          \* nobody owns the loan mutex
  MaxNow,        \* bound: the last day of a behaviour
  MaxRequests    \* bound: requests of a behaviour

Books == 1 .. NumBooks

ASSUME DeskAssumption ==
  /\ NumBooks \in Nat \ {0}
  /\ LoanDays \in Nat \ {0}
  /\ InitialDates \subseteq Nat
  /\ AVAILABLE \notin Nat
  /\ None \notin Workers
  /\ IsFiniteSet(Workers)
  /\ MaxNow \in Nat
  /\ MaxRequests \in Nat

VARIABLES
  prestito,           \* the loan field of each book (shared)
  now,                \* the clock that time() reads
  tm,                 \* the static struct tm of localtime (shared)
  mtx_for_loan,       \* owner of the loan mutex
  recordLines,        \* record lines in the log
  loanTotal,          \* sum of the LOAN lines of the log
  queryTotal,         \* sum of the QUERY lines of the log
  wpc,                \* where each worker is
  request,            \* the request as it was read
  type,               \* the variable type, which a denial overwrites
  rawtime,            \* the day the worker read before localtime
  i,                  \* the book the loop is at
  isPresent,          \* whether the last book compared matches
  isLoan,             \* whether a loan was tried
  loanRequestNumber,  \* loans made for this request
  queryNumber,        \* records found for this query
  sent,               \* the kinds of the messages of this reply, in order
  served              \* requests taken so far

bookVars == <<prestito, tm, mtx_for_loan>>
logVars == <<recordLines, loanTotal, queryTotal>>
loopVars == <<i, isPresent>>
countVars == <<isLoan, loanRequestNumber, queryNumber>>
vars == <<bookVars, now, logVars, wpc, request, type, rawtime, loopVars,
          countVars, sent, served>>

\* A request is a loan or a query, for the books that contain all its fields;
\* it is invalid when its year is not a year.
Requests == [type : {"L", "Q"}, match : SUBSET Books, valid : BOOLEAN]

\* Messages: the request's own type (of an error), record, negative, end.
MessageKinds == {"L", "Q", "R", "N", "X"}

WorkerStates == {"pop", "scan", "reject", "stamp", "lock", "extend", "write",
                 "deny", "record", "log", "summary", "end"}

Lendable(b) == prestito[b] # AVAILABLE => prestito[b] <= now

-----------------------------------------------------------------------------
Init ==
  /\ prestito \in [Books -> InitialDates \cup {AVAILABLE}]
  /\ now = 0
  /\ tm = 0
  /\ mtx_for_loan = None
  /\ recordLines = 0
  /\ loanTotal = 0
  /\ queryTotal = 0
  /\ wpc = [w \in Workers |-> "pop"]
  /\ request = [w \in Workers |-> [type |-> "Q", match |-> {}, valid |-> TRUE]]
  /\ type = [w \in Workers |-> "E"]
  /\ rawtime = [w \in Workers |-> 0]
  /\ i = [w \in Workers |-> 1]
  /\ isPresent = [w \in Workers |-> FALSE]
  /\ isLoan = [w \in Workers |-> FALSE]
  /\ loanRequestNumber = [w \in Workers |-> 0]
  /\ queryNumber = [w \in Workers |-> 0]
  /\ sent = [w \in Workers |-> <<>>]
  /\ served = 0

-----------------------------------------------------------------------------
WorkerTo(w, s) == wpc' = [wpc EXCEPT ![w] = s]

Send(w, kind) == sent' = [sent EXCEPT ![w] = Append(@, kind)]

MutantResetFlag(w) ==
  /\ isLoan' = [isLoan EXCEPT ![w] = FALSE]
  /\ UNCHANGED <<loanRequestNumber, queryNumber>>

ResetCounters(w) ==
  /\ isLoan' = [isLoan EXCEPT ![w] = FALSE]
  /\ loanRequestNumber' = [loanRequestNumber EXCEPT ![w] = 0]
  /\ queryNumber' = [queryNumber EXCEPT ![w] = 0]

\* The head of the loop: the counters start again, a request is popped and read.
Take(w) ==
  /\ wpc[w] = "pop" /\ served < MaxRequests
  /\ \E r \in Requests :
       /\ request' = [request EXCEPT ![w] = r]
       /\ type' = [type EXCEPT ![w] = r.type]
       /\ WorkerTo(w, IF r.valid THEN "scan" ELSE "reject")
  /\ ResetCounters(w)
  /\ i' = [i EXCEPT ![w] = 1]
  /\ sent' = [sent EXCEPT ![w] = <<>>]
  /\ served' = served + 1
  /\ UNCHANGED <<bookVars, now, logVars, rawtime, isPresent>>

\* The error message carries the type of the request, and nothing follows it.
Reject(w) ==
  /\ wpc[w] = "reject"
  /\ Send(w, type[w])
  /\ WorkerTo(w, "pop")
  /\ UNCHANGED <<bookVars, now, logVars, request, type, rawtime, loopVars,
                 countVars, served>>

Present(w) == i[w] \in request[w].match

MutantPastTheEnd(w) == wpc[w] = "scan" /\ i[w] <= NumBooks + 1

AtBook(w) == wpc[w] = "scan" /\ i[w] <= NumBooks

MutantCompareKeeps(w) == isPresent' = [isPresent EXCEPT ![w] = @ \/ Present(w)]

Compare(w) == isPresent' = [isPresent EXCEPT ![w] = Present(w)]

\* A book that matches goes to the branch of the request's type ...
Found(w) ==
  /\ AtBook(w)
  /\ Present(w) /\ type[w] \in {"L", "Q"}
  /\ Compare(w)
  /\ WorkerTo(w, IF type[w] = "L" THEN "stamp" ELSE "record")
  /\ UNCHANGED <<bookVars, now, logVars, request, type, rawtime, i, countVars,
                 sent, served>>

MutantTryLock(w) ==
  /\ AtBook(w)
  /\ Present(w) => type[w] \notin {"L", "Q"} \/ mtx_for_loan # None
  /\ Compare(w)
  /\ i' = [i EXCEPT ![w] = @ + 1]
  /\ UNCHANGED <<bookVars, now, logVars, wpc, request, type, rawtime, countVars,
                 sent, served>>

\* ... and the loop goes on with the next one otherwise.
PassOver(w) ==
  /\ AtBook(w)
  /\ Present(w) => type[w] \notin {"L", "Q"}
  /\ Compare(w)
  /\ i' = [i EXCEPT ![w] = @ + 1]
  /\ UNCHANGED <<bookVars, now, logVars, wpc, request, type, rawtime, countVars,
                 sent, served>>

\* localtime fills the struct tm that all workers share.
Localtime == tm' = now

\* time and localtime, before the mutex is taken.
Stamp(w) ==
  /\ wpc[w] = "stamp"
  /\ rawtime' = [rawtime EXCEPT ![w] = now]
  /\ Localtime
  /\ WorkerTo(w, "lock")
  /\ UNCHANGED <<prestito, mtx_for_loan, now, logVars, request, type, loopVars,
                 countVars, sent, served>>

MutantNoMutex == TRUE

MutexFree == mtx_for_loan = None

\* date_check under the mutex: keep it and lend the book ...
CheckGranted(w) ==
  /\ wpc[w] = "lock" /\ MutexFree
  /\ Lendable(i[w])
  /\ mtx_for_loan' = w
  /\ WorkerTo(w, "extend")
  /\ UNCHANGED <<prestito, tm, now, logVars, request, type, rawtime, loopVars,
                 countVars, sent, served>>

MutantKeepsMutex(w) == mtx_for_loan' = w

GiveBack(w) == mtx_for_loan' = None

\* ... or give it back.
CheckDenied(w) ==
  /\ wpc[w] = "lock" /\ MutexFree
  /\ ~Lendable(i[w])
  /\ GiveBack(w)
  /\ WorkerTo(w, "deny")
  /\ UNCHANGED <<prestito, tm, now, logVars, request, type, rawtime, loopVars,
                 countVars, sent, served>>

\* timeinfo->tm_mday += 30 and mktime, in the struct tm all workers share.
Extend(w) ==
  /\ wpc[w] = "extend"
  /\ tm' = tm + LoanDays
  /\ WorkerTo(w, "write")
  /\ UNCHANGED <<prestito, mtx_for_loan, now, logVars, request, type, rawtime,
                 loopVars, countVars, sent, served>>

\* strftime into the book, and the end of the critical section.
WriteLoan(w) ==
  /\ wpc[w] = "write"
  /\ prestito' = [prestito EXCEPT ![i[w]] = tm]
  /\ mtx_for_loan' = None
  /\ WorkerTo(w, "record")
  /\ UNCHANGED <<tm, now, logVars, request, type, rawtime, loopVars, countVars,
                 sent, served>>

Record(w) ==
  /\ wpc[w] = "record"
  /\ Send(w, "R")
  /\ WorkerTo(w, "log")
  /\ UNCHANGED <<bookVars, now, logVars, request, type, rawtime, loopVars,
                 countVars, served>>

LogRecord(w) ==
  /\ wpc[w] = "log"
  /\ recordLines' = recordLines + 1
  /\ IF type[w] = "L"
     THEN /\ loanRequestNumber' = [loanRequestNumber EXCEPT ![w] = @ + 1]
          /\ isLoan' = [isLoan EXCEPT ![w] = TRUE]
          /\ UNCHANGED queryNumber
     ELSE /\ queryNumber' = [queryNumber EXCEPT ![w] = @ + 1]
          /\ UNCHANGED <<loanRequestNumber, isLoan>>
  /\ i' = [i EXCEPT ![w] = @ + 1]
  /\ WorkerTo(w, "scan")
  /\ UNCHANGED <<bookVars, now, loanTotal, queryTotal, request, type, rawtime,
                 isPresent, sent, served>>

MutantOwnType(w) == UNCHANGED type

TypeNo(w) == type' = [type EXCEPT ![w] = "N"]

\* The denial is written in the variable that holds the request's type.
Deny(w) ==
  /\ wpc[w] = "deny"
  /\ TypeNo(w)
  /\ Send(w, "N")
  /\ isLoan' = [isLoan EXCEPT ![w] = TRUE]
  /\ i' = [i EXCEPT ![w] = @ + 1]
  /\ WorkerTo(w, "scan")
  /\ UNCHANGED <<bookVars, now, logVars, request, rawtime, isPresent,
                 loanRequestNumber, queryNumber, served>>

\* After the loop, a negative answer if the last book does not match.
ScanDone(w) ==
  /\ wpc[w] = "scan" /\ i[w] > NumBooks
  /\ IF isPresent[w]
     THEN UNCHANGED <<type, sent>>
     ELSE /\ TypeNo(w)
          /\ Send(w, "N")
  /\ WorkerTo(w, "summary")
  /\ UNCHANGED <<bookVars, now, logVars, request, rawtime, loopVars, countVars,
                 served>>

\* The LOAN or the QUERY line of the log.
Summary(w) ==
  /\ wpc[w] = "summary"
  /\ IF isLoan[w]
     THEN /\ loanTotal' = loanTotal + loanRequestNumber[w]
          /\ UNCHANGED queryTotal
     ELSE /\ queryTotal' = queryTotal + queryNumber[w]
          /\ UNCHANGED loanTotal
  /\ WorkerTo(w, "end")
  /\ UNCHANGED <<bookVars, now, recordLines, request, type, rawtime, loopVars,
                 countVars, sent, served>>

End(w) ==
  /\ wpc[w] = "end"
  /\ Send(w, "X")
  /\ WorkerTo(w, "pop")
  /\ UNCHANGED <<bookVars, now, logVars, request, type, rawtime, loopVars,
                 countVars, served>>

\* Serving the request that was taken.
Serve(w) ==
  \/ Reject(w)
  \/ Found(w) \/ PassOver(w) \/ ScanDone(w)
  \/ Stamp(w) \/ CheckGranted(w) \/ CheckDenied(w) \/ Extend(w) \/ WriteLoan(w)
  \/ Deny(w) \/ Record(w) \/ LogRecord(w)
  \/ Summary(w) \/ End(w)

Tick ==
  /\ now < MaxNow
  /\ now' = now + 1
  /\ UNCHANGED <<bookVars, logVars, wpc, request, type, rawtime, loopVars,
                 countVars, sent, served>>

\* Nothing is left to serve: the workers poll the empty queue.
Idle ==
  /\ \A w \in Workers : wpc[w] = "pop"
  /\ served = MaxRequests
  /\ UNCHANGED vars

Next ==
  \/ \E w \in Workers : Take(w) \/ Serve(w)
  \/ Tick
  \/ Idle

Spec == Init /\ [][Next]_vars

\* The operating system runs every worker again and again.
FairSpec == Spec /\ \A w \in Workers : WF_vars(Serve(w))

-----------------------------------------------------------------------------
(* Properties. *)

\* Type invariant of the books, the log and the workers' variables.
TypeOK ==
  /\ prestito \in [Books -> Nat \cup {AVAILABLE}]
  /\ now \in Nat
  /\ tm \in Nat
  /\ mtx_for_loan \in Workers \cup {None}
  /\ recordLines \in Nat
  /\ loanTotal \in Nat
  /\ queryTotal \in Nat
  /\ wpc \in [Workers -> WorkerStates]
  /\ request \in [Workers -> Requests]
  /\ type \in [Workers -> {"E", "L", "Q", "N"}]
  /\ rawtime \in [Workers -> Nat]
  /\ i \in [Workers -> 1 .. NumBooks + 1]
  /\ isPresent \in [Workers -> BOOLEAN]
  /\ isLoan \in [Workers -> BOOLEAN]
  /\ loanRequestNumber \in [Workers -> Nat]
  /\ queryNumber \in [Workers -> Nat]
  /\ sent \in [Workers -> Seq(MessageKinds)]
  /\ served \in Nat

\* However the workers interleave, a book's due date changes only while the
\* book may be lent: nobody takes a book another client has (mtx_for_loan
\* covers the check and the write).
Ledger == INSTANCE LoanLedger
LedgerKept == Ledger!Spec

\* Every reply to a valid request has a record or a negative answer before
\* MSG_END, though the negative answer looks at the last book only: when no
\* record was sent for that book, a denial was.
ReplyNeverSilent ==
  \A w \in Workers : wpc[w] \in {"summary", "end"} => sent[w] # <<>>

Orderly(reply) ==
  \A j, k \in DOMAIN reply : j < k /\ reply[j] = "N" => reply[k] # "R"

\* No record follows a negative answer, which ends the client's reading of
\* the reply: a loan request that was denied a book lends no other.
NoRecordAfterNegative == \A w \in Workers : Orderly(sent[w])

\* The records a worker has logged for a request it has not summed up yet.
Unsummed(w) ==
  IF wpc[w] \in {"pop", "end"} THEN 0 ELSE loanRequestNumber[w] + queryNumber[w]

\* The numbers of the LOAN and QUERY lines, which bibaccess.sh adds up, count
\* the record lines of the log, in whatever order the workers write them.
LogBalances ==
  recordLines =
    loanTotal + queryTotal + SumFunction([w \in Workers |-> Unsummed(w)])

\* A worker that took a request finishes it, whoever holds the mutexes.
RequestsFinish == \A w \in Workers : wpc[w] # "pop" ~> wpc[w] = "pop"

\* The due date written in a book is LoanDays after the day the worker read.
LoanTermRespected ==
  [][\A w \in Workers : wpc[w] = "write" /\ wpc'[w] # "write"
       => prestito'[i[w]] = rawtime[w] + LoanDays]_vars

\* A loan request leaves a book it asks for where it is only if the book
\* cannot be lent, or if the client was told no before: the denial overwrites
\* the type of the request, and nothing else makes the loop pass a book over.
LentUnlessDenied ==
  [][\A w \in Workers :
       /\ request[w].type = "L" /\ AtBook(w) /\ i[w] \in request[w].match
       /\ i'[w] = i[w] + 1
       => ~Lendable(i[w]) \/ \E k \in DOMAIN sent[w] : sent[w][k] = "N"]_vars
=============================================================================
