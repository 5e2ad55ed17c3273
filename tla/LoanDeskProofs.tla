---------------------------- MODULE LoanDeskProofs -----------------------------
(***************************************************************************)
(* Proofs about LoanDesk, for every set of workers, every number of books  *)
(* and loan term, and any number of requests and days.                     *)
(***************************************************************************)
EXTENDS LoanDesk, InductionProofs

\* The program points inside the branch of a matching book.
AtMatch == {"stamp", "lock", "extend", "write", "deny", "record", "log"}

\* The loop variable and the type agree with the branch the worker is in.
LoopInv ==
  \A w \in Workers :
    /\ wpc[w] \in AtMatch => i[w] \in Books /\ isPresent[w]
    /\ wpc[w] \in {"stamp", "lock", "extend", "write", "deny"} => type[w] = "L"
    /\ wpc[w] \in {"record", "log", "reject"} => type[w] \in {"L", "Q"}
    /\ wpc[w] = "scan" => type[w] \in {"L", "Q", "N"}

\* Between the check and the write the worker has the mutex, and the book it
\* is about to lend can still be lent.
CriticalInv ==
  \A w \in Workers :
    /\ mtx_for_loan = w <=> wpc[w] \in {"extend", "write"}
    /\ wpc[w] \in {"extend", "write"} => Lendable(i[w])

Negative(s) == \E k \in DOMAIN s : s[k] = "N"

\* A reply has a negative answer only when the type says so, and something
\* was sent as soon as the last book compared matched.
ReplyInv ==
  \A w \in Workers :
    /\ Negative(sent[w]) =>
         \/ wpc[w] \in {"pop", "summary", "end"}
         \/ wpc[w] = "scan" /\ type[w] = "N"
    /\ wpc[w] = "reject" => sent[w] = <<>>
    /\ wpc[w] = "scan" /\ type[w] = "N" => sent[w] # <<>>
    /\ wpc[w] = "scan" /\ i[w] > 1 /\ isPresent[w] => sent[w] # <<>>
    /\ wpc[w] = "log" => sent[w] # <<>>

IInv ==
  /\ TypeOK
  /\ LoopInv
  /\ CriticalInv
  /\ ReplyInv
  /\ ReplyNeverSilent
  /\ NoRecordAfterNegative

\* What the single worker's struct tm holds between localtime and strftime.
StampInv ==
  \A w \in Workers :
    /\ wpc[w] \in {"lock", "extend"} => tm = rawtime[w]
    /\ wpc[w] = "write" => tm = rawtime[w] + LoanDays

-----------------------------------------------------------------------------
(* A message at the end of a reply. *)

\* What one more message makes of a reply.
LEMMA AppendMessage ==
  ASSUME NEW s \in Seq(MessageKinds), NEW e \in MessageKinds
  PROVE  /\ Append(s, e) \in Seq(MessageKinds)
         /\ Append(s, e) # <<>>
         /\ Negative(Append(s, e)) <=> Negative(s) \/ e = "N"
         /\ Orderly(s) /\ (e = "R" => ~Negative(s)) => Orderly(Append(s, e))
  <1> DEFINE t == Append(s, e)
  <1>1. /\ t \in Seq(MessageKinds) /\ t # <<>>
        /\ Len(s) + 1 \in DOMAIN t /\ t[Len(s) + 1] = e
        /\ \A k \in DOMAIN s : k \in DOMAIN t /\ t[k] = s[k]
        /\ \A k \in DOMAIN t : k \in DOMAIN s \/ k = Len(s) + 1
        /\ \A k \in DOMAIN s : k \in Nat /\ ~(Len(s) + 1 < k)
    OBVIOUS
  <1> HIDE DEF t
  <1>2. Negative(t) <=> Negative(s) \/ e = "N"
    BY <1>1 DEF Negative
  <1>3. ASSUME Orderly(s), e = "R" => ~Negative(s)
        PROVE  Orderly(t)
    BY <1>1, <1>3 DEF Orderly, Negative
  <1> QED
    BY <1>1, <1>2, <1>3 DEF t

\* The messages the loop sends.
LEMMA Kinds == "R" \in MessageKinds /\ "N" \in MessageKinds /\ "X" \in MessageKinds
  BY DEF MessageKinds

\* A record after records only is still in order.
LEMMA AppendRecord ==
  ASSUME NEW s \in Seq(MessageKinds), ~Negative(s)
  PROVE  /\ Append(s, "R") # <<>>
         /\ ~Negative(Append(s, "R"))
         /\ Orderly(s) => Orderly(Append(s, "R"))
  <1>1. "R" \in MessageKinds /\ "R" # "N"
    BY Kinds
  <1> QED
    BY <1>1, AppendMessage

-----------------------------------------------------------------------------
(* The initial states and the steps. *)

\* Every part of the inductive invariant holds when the threads start.
LEMMA InitIInv == Init => IInv
  <1> SUFFICES ASSUME Init PROVE IInv
    OBVIOUS
  <1> USE DeskAssumption DEF Init
  <1>1. TypeOK
    <2>1. prestito \in [Books -> Nat \cup {AVAILABLE}]
      OBVIOUS
    <2>2. request \in [Workers -> Requests]
      BY DEF Requests
    <2>3. sent \in [Workers -> Seq(MessageKinds)]
      OBVIOUS
    <2> QED
      BY <2>1, <2>2, <2>3 DEF TypeOK, WorkerStates
  <1>2. LoopInv /\ CriticalInv
    BY DEF LoopInv, CriticalInv, AtMatch
  <1>3. ReplyInv /\ ReplyNeverSilent /\ NoRecordAfterNegative
    BY DEF ReplyInv, Negative, Orderly, ReplyNeverSilent, NoRecordAfterNegative
  <1> QED
    BY <1>1, <1>2, <1>3 DEF IInv

\* A step keeps the types: the loop never leaves the list by more than one.
LEMMA TypeStep ==
  ASSUME TypeOK, LoopInv, [Next]_vars
  PROVE  TypeOK'
  <1> USE DeskAssumption DEF TypeOK, Books, Requests, WorkerStates,
                             MessageKinds, LoopInv, AtMatch, vars, bookVars,
                             logVars, loopVars, countVars, WorkerTo
  <1>1. ASSUME NEW w \in Workers, Take(w) PROVE TypeOK'
    BY <1>1 DEF Take, ResetCounters
  <1>2. ASSUME NEW w \in Workers, Reject(w) PROVE TypeOK'
    BY <1>2, AppendMessage, Kinds DEF Reject, Send
  <1>3. ASSUME NEW w \in Workers, Found(w) PROVE TypeOK'
    BY <1>3 DEF Found, AtBook, Present, Compare
  <1>4. ASSUME NEW w \in Workers, PassOver(w) PROVE TypeOK'
    <2>1. i[w] + 1 \in 1 .. NumBooks + 1
      BY <1>4 DEF PassOver, AtBook
    <2>2. i' \in [Workers -> 1 .. NumBooks + 1]
      BY <1>4, <2>1 DEF PassOver
    <2>3. isPresent' \in [Workers -> BOOLEAN]
      BY <1>4 DEF PassOver, Compare, Present
    <2> QED
      BY <1>4, <2>2, <2>3 DEF PassOver
  <1>5. ASSUME NEW w \in Workers, Stamp(w) PROVE TypeOK'
    BY <1>5 DEF Stamp, Localtime
  <1>6. ASSUME NEW w \in Workers, CheckGranted(w) PROVE TypeOK'
    BY <1>6 DEF CheckGranted, MutexFree
  <1>7. ASSUME NEW w \in Workers, CheckDenied(w) PROVE TypeOK'
    BY <1>7 DEF CheckDenied, MutexFree, GiveBack
  <1>8. ASSUME NEW w \in Workers, Extend(w) PROVE TypeOK'
    BY <1>8 DEF Extend
  <1>9. ASSUME NEW w \in Workers, WriteLoan(w) PROVE TypeOK'
    BY <1>9 DEF WriteLoan
  <1>10. ASSUME NEW w \in Workers, Record(w) PROVE TypeOK'
    BY <1>10, AppendMessage, Kinds DEF Record, Send
  <1>11. ASSUME NEW w \in Workers, LogRecord(w) PROVE TypeOK'
    <2>1. CASE type[w] = "L"
      <3>1. loanRequestNumber' = [loanRequestNumber EXCEPT ![w] = loanRequestNumber[w] + 1]
        BY <1>11, <2>1 DEF LogRecord
      <3>2. loanRequestNumber' \in [Workers -> Nat]
        BY <3>1
      <3>3. isLoan' \in [Workers -> BOOLEAN]
        BY <1>11, <2>1 DEF LogRecord
      <3> QED
        BY <1>11, <2>1, <3>2, <3>3, SMTT(30) DEF LogRecord
    <2>2. CASE type[w] # "L"
      <3>1. queryNumber' = [queryNumber EXCEPT ![w] = queryNumber[w] + 1]
        BY <1>11, <2>2 DEF LogRecord
      <3>2. queryNumber' \in [Workers -> Nat]
        BY <3>1
      <3> QED
        BY <1>11, <2>2, <3>2, SMTT(30) DEF LogRecord
    <2> QED
      BY <2>1, <2>2
  <1>12. ASSUME NEW w \in Workers, Deny(w) PROVE TypeOK'
    BY <1>12, AppendMessage, Kinds, SMTT(30) DEF Deny, TypeNo, Send
  <1>13. ASSUME NEW w \in Workers, ScanDone(w) PROVE TypeOK'
    <2>1. type' \in [Workers -> {"E", "L", "Q", "N"}]
      BY <1>13 DEF ScanDone, TypeNo
    <2>2. CASE isPresent[w]
      BY <1>13, <2>1, <2>2 DEF ScanDone
    <2>3. CASE ~isPresent[w]
      <3>1. sent' = [sent EXCEPT ![w] = Append(sent[w], "N")]
        BY <1>13, <2>3 DEF ScanDone, Send
      <3>2. Append(sent[w], "N") \in Seq(MessageKinds)
        BY AppendMessage, Kinds
      <3>3. sent' \in [Workers -> Seq(MessageKinds)]
        BY <3>1, <3>2
      <3> QED
        BY <1>13, <2>1, <3>3 DEF ScanDone
    <2> QED
      BY <2>2, <2>3
  <1>14. ASSUME NEW w \in Workers, Summary(w) PROVE TypeOK'
    <2>1. wpc' \in [Workers -> WorkerStates]
      BY <1>14 DEF Summary
    <2>2. loanTotal' \in Nat /\ queryTotal' \in Nat
      <3>1. loanRequestNumber[w] \in Nat /\ queryNumber[w] \in Nat
        BY <1>14
      <3> QED
        BY <1>14, <3>1 DEF Summary
    <2>3. UNCHANGED <<bookVars, now, recordLines, request, type, rawtime, loopVars,
                      countVars, sent, served>>
      BY <1>14 DEF Summary
    <2> QED
      BY <2>1, <2>2, <2>3
  <1>15. ASSUME NEW w \in Workers, End(w) PROVE TypeOK'
    BY <1>15, AppendMessage, Kinds DEF End, Send
  <1>16. CASE Tick
    BY <1>16 DEF Tick
  <1>17. CASE UNCHANGED vars
    BY <1>17
  <1> QED
    BY <1>1, <1>2, <1>3, <1>4, <1>5, <1>6, <1>7, <1>8, <1>9, <1>10, <1>11,
       <1>12, <1>13, <1>14, <1>15, <1>16, <1>17
       DEF Next, Serve, Idle

\* Only a matching book leads to the loan or the record branch.
LEMMA LoopStep ==
  ASSUME TypeOK, LoopInv, [Next]_vars
  PROVE  LoopInv'
  <1> USE DeskAssumption DEF TypeOK, Books, Requests, WorkerStates, LoopInv,
                             AtMatch, vars, bookVars, logVars, loopVars,
                             countVars, WorkerTo
  <1>1. ASSUME NEW w \in Workers, Take(w) PROVE LoopInv'
    BY <1>1 DEF Take, ResetCounters
  <1>2. ASSUME NEW w \in Workers, Reject(w) PROVE LoopInv'
    BY <1>2 DEF Reject, Send
  <1>3. ASSUME NEW w \in Workers, Found(w) PROVE LoopInv'
    BY <1>3 DEF Found, AtBook, Present, Compare
  <1>4. ASSUME NEW w \in Workers, PassOver(w) PROVE LoopInv'
    BY <1>4 DEF PassOver, AtBook, Present, Compare
  <1>5. ASSUME NEW w \in Workers, Stamp(w) PROVE LoopInv'
    BY <1>5 DEF Stamp, Localtime
  <1>6. ASSUME NEW w \in Workers, CheckGranted(w) PROVE LoopInv'
    BY <1>6 DEF CheckGranted, MutexFree
  <1>7. ASSUME NEW w \in Workers, CheckDenied(w) PROVE LoopInv'
    BY <1>7 DEF CheckDenied, MutexFree, GiveBack
  <1>8. ASSUME NEW w \in Workers, Extend(w) PROVE LoopInv'
    BY <1>8 DEF Extend
  <1>9. ASSUME NEW w \in Workers, WriteLoan(w) PROVE LoopInv'
    BY <1>9 DEF WriteLoan
  <1>10. ASSUME NEW w \in Workers, Record(w) PROVE LoopInv'
    BY <1>10 DEF Record, Send
  <1>11. ASSUME NEW w \in Workers, LogRecord(w) PROVE LoopInv'
    BY <1>11 DEF LogRecord
  <1>12. ASSUME NEW w \in Workers, Deny(w) PROVE LoopInv'
    BY <1>12 DEF Deny, TypeNo, Send
  <1>13. ASSUME NEW w \in Workers, ScanDone(w) PROVE LoopInv'
    BY <1>13 DEF ScanDone, TypeNo, Send
  <1>14. ASSUME NEW w \in Workers, Summary(w) PROVE LoopInv'
    BY <1>14 DEF Summary
  <1>15. ASSUME NEW w \in Workers, End(w) PROVE LoopInv'
    BY <1>15 DEF End, Send
  <1>16. CASE Tick
    BY <1>16 DEF Tick
  <1>17. CASE UNCHANGED vars
    BY <1>17
  <1> QED
    BY <1>1, <1>2, <1>3, <1>4, <1>5, <1>6, <1>7, <1>8, <1>9, <1>10, <1>11,
       <1>12, <1>13, <1>14, <1>15, <1>16, <1>17
       DEF Next, Serve, Idle

\* Nobody but the owner of the mutex changes a due date, and time only helps.
LEMMA CriticalStep ==
  ASSUME TypeOK, LoopInv, CriticalInv, [Next]_vars
  PROVE  CriticalInv'
  <1> USE DeskAssumption DEF TypeOK, Books, Requests, WorkerStates, LoopInv,
                             CriticalInv, AtMatch, Lendable, vars, bookVars,
                             logVars, loopVars, countVars, WorkerTo
  <1>1. ASSUME NEW w \in Workers, Take(w) PROVE CriticalInv'
    BY <1>1 DEF Take, ResetCounters
  <1>2. ASSUME NEW w \in Workers, Reject(w) PROVE CriticalInv'
    BY <1>2 DEF Reject, Send
  <1>3. ASSUME NEW w \in Workers, Found(w) PROVE CriticalInv'
    BY <1>3 DEF Found, AtBook, Present, Compare
  <1>4. ASSUME NEW w \in Workers, PassOver(w) PROVE CriticalInv'
    BY <1>4 DEF PassOver, AtBook, Present, Compare
  <1>5. ASSUME NEW w \in Workers, Stamp(w) PROVE CriticalInv'
    BY <1>5 DEF Stamp, Localtime
  <1>6. ASSUME NEW w \in Workers, CheckGranted(w) PROVE CriticalInv'
    BY <1>6 DEF CheckGranted, MutexFree
  <1>7. ASSUME NEW w \in Workers, CheckDenied(w) PROVE CriticalInv'
    BY <1>7 DEF CheckDenied, MutexFree, GiveBack
  <1>8. ASSUME NEW w \in Workers, Extend(w) PROVE CriticalInv'
    BY <1>8 DEF Extend
  <1>9. ASSUME NEW w \in Workers, WriteLoan(w) PROVE CriticalInv'
    BY <1>9 DEF WriteLoan
  <1>10. ASSUME NEW w \in Workers, Record(w) PROVE CriticalInv'
    BY <1>10 DEF Record, Send
  <1>11. ASSUME NEW w \in Workers, LogRecord(w) PROVE CriticalInv'
    BY <1>11 DEF LogRecord
  <1>12. ASSUME NEW w \in Workers, Deny(w) PROVE CriticalInv'
    BY <1>12 DEF Deny, TypeNo, Send
  <1>13. ASSUME NEW w \in Workers, ScanDone(w) PROVE CriticalInv'
    BY <1>13 DEF ScanDone, TypeNo, Send
  <1>14. ASSUME NEW w \in Workers, Summary(w) PROVE CriticalInv'
    BY <1>14 DEF Summary
  <1>15. ASSUME NEW w \in Workers, End(w) PROVE CriticalInv'
    BY <1>15 DEF End, Send
  <1>16. CASE Tick
    BY <1>16 DEF Tick
  <1>17. CASE UNCHANGED vars
    BY <1>17
  <1> QED
    BY <1>1, <1>2, <1>3, <1>4, <1>5, <1>6, <1>7, <1>8, <1>9, <1>10, <1>11,
       <1>12, <1>13, <1>14, <1>15, <1>16, <1>17
       DEF Next, Serve, Idle

\* A denial is the last thing the loop sends.
LEMMA ReplyStep ==
  ASSUME TypeOK, LoopInv, ReplyInv, [Next]_vars
  PROVE  ReplyInv'
  <1> USE DeskAssumption DEF TypeOK, Books, Requests, WorkerStates, LoopInv,
                             ReplyInv, AtMatch, vars, bookVars, logVars,
                             loopVars, countVars, WorkerTo
  <1>1. ASSUME NEW w \in Workers, Take(w) PROVE ReplyInv'
    <2>1. ~Negative(<<>>)
      BY DEF Negative
    <2> QED
      BY <1>1, <2>1 DEF Take, ResetCounters
  <1>2. ASSUME NEW w \in Workers, Reject(w) PROVE ReplyInv'
    BY <1>2, AppendMessage, Kinds DEF Reject, Send
  <1>3. ASSUME NEW w \in Workers, Found(w) PROVE ReplyInv'
    BY <1>3 DEF Found, AtBook, Present, Compare
  <1>4. ASSUME NEW w \in Workers, PassOver(w) PROVE ReplyInv'
    BY <1>4 DEF PassOver, AtBook, Present, Compare
  <1>5. ASSUME NEW w \in Workers, Stamp(w) PROVE ReplyInv'
    BY <1>5 DEF Stamp, Localtime
  <1>6. ASSUME NEW w \in Workers, CheckGranted(w) PROVE ReplyInv'
    BY <1>6 DEF CheckGranted, MutexFree
  <1>7. ASSUME NEW w \in Workers, CheckDenied(w) PROVE ReplyInv'
    BY <1>7 DEF CheckDenied, MutexFree, GiveBack
  <1>8. ASSUME NEW w \in Workers, Extend(w) PROVE ReplyInv'
    BY <1>8 DEF Extend
  <1>9. ASSUME NEW w \in Workers, WriteLoan(w) PROVE ReplyInv'
    BY <1>9 DEF WriteLoan
  <1>10. ASSUME NEW w \in Workers, Record(w) PROVE ReplyInv'
    <2>1. /\ sent' = [sent EXCEPT ![w] = Append(sent[w], "R")]
          /\ wpc' = [wpc EXCEPT ![w] = "log"]
          /\ UNCHANGED <<type, i, isPresent>>
      BY <1>10 DEF Record, Send
    <2>2. ~Negative(sent[w])
      BY <1>10 DEF Record
    <2>3. /\ Append(sent[w], "R") # <<>>
          /\ ~Negative(Append(sent[w], "R"))
          /\ Orderly(sent[w]) => Orderly(Append(sent[w], "R"))
      BY <2>2, AppendRecord
    <2> QED
      BY <2>1, <2>3
  <1>11. ASSUME NEW w \in Workers, LogRecord(w) PROVE ReplyInv'
    BY <1>11 DEF LogRecord
  <1>12. ASSUME NEW w \in Workers, Deny(w) PROVE ReplyInv'
    BY <1>12, AppendMessage, Kinds DEF Deny, TypeNo, Send
  <1>13. ASSUME NEW w \in Workers, ScanDone(w) PROVE ReplyInv'
    BY <1>13, AppendMessage, Kinds DEF ScanDone, TypeNo, Send
  <1>14. ASSUME NEW w \in Workers, Summary(w) PROVE ReplyInv'
    BY <1>14 DEF Summary
  <1>15. ASSUME NEW w \in Workers, End(w) PROVE ReplyInv'
    BY <1>15, AppendMessage, Kinds DEF End, Send
  <1>16. CASE Tick
    BY <1>16 DEF Tick
  <1>17. CASE UNCHANGED vars
    BY <1>17
  <1> QED
    BY <1>1, <1>2, <1>3, <1>4, <1>5, <1>6, <1>7, <1>8, <1>9, <1>10, <1>11,
       <1>12, <1>13, <1>14, <1>15, <1>16, <1>17
       DEF Next, Serve, Idle

\* The reply is not empty when the loop is over.
LEMMA SilentStep ==
  ASSUME TypeOK, LoopInv, ReplyInv, ReplyNeverSilent, [Next]_vars
  PROVE  ReplyNeverSilent'
  <1> USE DeskAssumption DEF TypeOK, Books, Requests, WorkerStates, LoopInv,
                             ReplyInv, AtMatch, ReplyNeverSilent, vars,
                             bookVars, logVars, loopVars, countVars, WorkerTo
  <1>1. ASSUME NEW w \in Workers, Take(w) PROVE ReplyNeverSilent'
    BY <1>1 DEF Take, ResetCounters
  <1>2. ASSUME NEW w \in Workers, Reject(w) PROVE ReplyNeverSilent'
    BY <1>2, AppendMessage, Kinds DEF Reject, Send
  <1>3. ASSUME NEW w \in Workers, Found(w) PROVE ReplyNeverSilent'
    BY <1>3 DEF Found, AtBook, Present, Compare
  <1>4. ASSUME NEW w \in Workers, PassOver(w) PROVE ReplyNeverSilent'
    BY <1>4 DEF PassOver, AtBook, Present, Compare
  <1>5. ASSUME NEW w \in Workers, Stamp(w) PROVE ReplyNeverSilent'
    BY <1>5 DEF Stamp, Localtime
  <1>6. ASSUME NEW w \in Workers, CheckGranted(w) PROVE ReplyNeverSilent'
    BY <1>6 DEF CheckGranted, MutexFree
  <1>7. ASSUME NEW w \in Workers, CheckDenied(w) PROVE ReplyNeverSilent'
    BY <1>7 DEF CheckDenied, MutexFree, GiveBack
  <1>8. ASSUME NEW w \in Workers, Extend(w) PROVE ReplyNeverSilent'
    BY <1>8 DEF Extend
  <1>9. ASSUME NEW w \in Workers, WriteLoan(w) PROVE ReplyNeverSilent'
    BY <1>9 DEF WriteLoan
  <1>10. ASSUME NEW w \in Workers, Record(w) PROVE ReplyNeverSilent'
    BY <1>10, AppendMessage, Kinds DEF Record, Send
  <1>11. ASSUME NEW w \in Workers, LogRecord(w) PROVE ReplyNeverSilent'
    BY <1>11 DEF LogRecord
  <1>12. ASSUME NEW w \in Workers, Deny(w) PROVE ReplyNeverSilent'
    BY <1>12, AppendMessage, Kinds DEF Deny, TypeNo, Send
  <1>13. ASSUME NEW w \in Workers, ScanDone(w) PROVE ReplyNeverSilent'
    BY <1>13, AppendMessage, Kinds DEF ScanDone, TypeNo, Send
  <1>14. ASSUME NEW w \in Workers, Summary(w) PROVE ReplyNeverSilent'
    BY <1>14 DEF Summary
  <1>15. ASSUME NEW w \in Workers, End(w) PROVE ReplyNeverSilent'
    BY <1>15, AppendMessage, Kinds DEF End, Send
  <1>16. CASE Tick
    BY <1>16 DEF Tick
  <1>17. CASE UNCHANGED vars
    BY <1>17
  <1> QED
    BY <1>1, <1>2, <1>3, <1>4, <1>5, <1>6, <1>7, <1>8, <1>9, <1>10, <1>11,
       <1>12, <1>13, <1>14, <1>15, <1>16, <1>17
       DEF Next, Serve, Idle

\* Nothing but another denial and MSG_END follows a denial.
LEMMA NegativeStep ==
  ASSUME TypeOK, LoopInv, ReplyInv, NoRecordAfterNegative, [Next]_vars
  PROVE  NoRecordAfterNegative'
  <1> USE DeskAssumption DEF TypeOK, Books, Requests, WorkerStates, LoopInv,
                             ReplyInv, AtMatch, NoRecordAfterNegative, vars,
                             bookVars, logVars, loopVars, countVars, WorkerTo
  <1>1. ASSUME NEW w \in Workers, Take(w) PROVE NoRecordAfterNegative'
    <2>1. Orderly(<<>>)
      BY DEF Orderly
    <2> QED
      BY <1>1, <2>1 DEF Take, ResetCounters
  <1>2. ASSUME NEW w \in Workers, Reject(w) PROVE NoRecordAfterNegative'
    <2>1. type[w] \in MessageKinds /\ type[w] # "R"
      BY <1>2 DEF Reject, MessageKinds
    <2> QED
      BY <1>2, <2>1, AppendMessage DEF Reject, Send
  <1>3. ASSUME NEW w \in Workers, Found(w) PROVE NoRecordAfterNegative'
    BY <1>3 DEF Found, AtBook, Present, Compare
  <1>4. ASSUME NEW w \in Workers, PassOver(w) PROVE NoRecordAfterNegative'
    BY <1>4 DEF PassOver, AtBook, Present, Compare
  <1>5. ASSUME NEW w \in Workers, Stamp(w) PROVE NoRecordAfterNegative'
    BY <1>5 DEF Stamp, Localtime
  <1>6. ASSUME NEW w \in Workers, CheckGranted(w) PROVE NoRecordAfterNegative'
    BY <1>6 DEF CheckGranted, MutexFree
  <1>7. ASSUME NEW w \in Workers, CheckDenied(w) PROVE NoRecordAfterNegative'
    BY <1>7 DEF CheckDenied, MutexFree, GiveBack
  <1>8. ASSUME NEW w \in Workers, Extend(w) PROVE NoRecordAfterNegative'
    BY <1>8 DEF Extend
  <1>9. ASSUME NEW w \in Workers, WriteLoan(w) PROVE NoRecordAfterNegative'
    BY <1>9 DEF WriteLoan
  <1>10. ASSUME NEW w \in Workers, Record(w) PROVE NoRecordAfterNegative'
    <2>1. /\ sent' = [sent EXCEPT ![w] = Append(sent[w], "R")]
          /\ wpc' = [wpc EXCEPT ![w] = "log"]
          /\ UNCHANGED <<type, i, isPresent>>
      BY <1>10 DEF Record, Send
    <2>2. ~Negative(sent[w])
      BY <1>10 DEF Record
    <2>3. /\ Append(sent[w], "R") # <<>>
          /\ ~Negative(Append(sent[w], "R"))
          /\ Orderly(sent[w]) => Orderly(Append(sent[w], "R"))
      BY <2>2, AppendRecord
    <2> QED
      BY <2>1, <2>3
  <1>11. ASSUME NEW w \in Workers, LogRecord(w) PROVE NoRecordAfterNegative'
    BY <1>11 DEF LogRecord
  <1>12. ASSUME NEW w \in Workers, Deny(w) PROVE NoRecordAfterNegative'
    BY <1>12, AppendMessage, Kinds DEF Deny, TypeNo, Send
  <1>13. ASSUME NEW w \in Workers, ScanDone(w) PROVE NoRecordAfterNegative'
    <2>1. CASE isPresent[w]
      BY <1>13, <2>1 DEF ScanDone
    <2>2. CASE ~isPresent[w]
      <3>1. sent' = [sent EXCEPT ![w] = Append(sent[w], "N")]
        BY <1>13, <2>2 DEF ScanDone, Send
      <3>2. Orderly(sent[w]) => Orderly(Append(sent[w], "N"))
        BY AppendMessage, Kinds
      <3> QED
        BY <3>1, <3>2
    <2> QED
      BY <2>1, <2>2
  <1>14. ASSUME NEW w \in Workers, Summary(w) PROVE NoRecordAfterNegative'
    BY <1>14 DEF Summary
  <1>15. ASSUME NEW w \in Workers, End(w) PROVE NoRecordAfterNegative'
    BY <1>15, AppendMessage, Kinds DEF End, Send
  <1>16. CASE Tick
    BY <1>16 DEF Tick
  <1>17. CASE UNCHANGED vars
    BY <1>17
  <1> QED
    BY <1>1, <1>2, <1>3, <1>4, <1>5, <1>6, <1>7, <1>8, <1>9, <1>10, <1>11,
       <1>12, <1>13, <1>14, <1>15, <1>16, <1>17
       DEF Next, Serve, Idle

-----------------------------------------------------------------------------
(* The theorems. *)

\* The invariant holds in every reachable state.
THEOREM Inductive == Spec => []IInv
  <1>1. IInv /\ [Next]_vars => IInv'
    BY TypeStep, LoopStep, CriticalStep, ReplyStep, SilentStep, NegativeStep DEF IInv
  <1> QED
    BY InitIInv, <1>1, PTL DEF Spec

\* The worker's loop never reads past the list, and its counters, dates and
\* messages stay what the code declares them to be.
THEOREM TypeCorrect == Spec => []TypeOK
  BY Inductive, PTL DEF IInv

\* Every valid request is answered with something before MSG_END.
THEOREM ReplyNeverSilentHolds == Spec => []ReplyNeverSilent
  BY Inductive, PTL DEF IInv

\* Once a client was told no, the rest of the reply holds no record.
THEOREM NoRecordAfterNegativeHolds == Spec => []NoRecordAfterNegative
  BY Inductive, PTL DEF IInv

\* The desk implements the ledger: whatever the workers do at the same time, a
\* book's due date changes only while the book may be lent.
THEOREM LedgerImplemented == Spec => LedgerKept
  <1>1. Init => Ledger!Init
    BY DEF Init, Ledger!Init
  <1>2. IInv /\ [Next]_vars => [Ledger!Next]_(Ledger!vars)
    <2> SUFFICES ASSUME IInv, [Next]_vars PROVE [Ledger!Next]_(Ledger!vars)
      OBVIOUS
    <2> USE DeskAssumption DEF Ledger!Next, Ledger!vars, vars, bookVars
    <2>1. ASSUME NEW w \in Workers, WriteLoan(w) PROVE Ledger!Lend(i[w]) /\ i[w] \in Books
      BY <2>1 DEF WriteLoan, Ledger!Lend, Ledger!Lendable, Lendable, IInv, TypeOK,
                  LoopInv, CriticalInv, AtMatch
    <2>2. ASSUME NEW w \in Workers,
                 \/ Take(w) \/ Reject(w) \/ Found(w) \/ PassOver(w) \/ ScanDone(w)
                 \/ Stamp(w) \/ CheckGranted(w) \/ CheckDenied(w) \/ Extend(w)
                 \/ Deny(w) \/ Record(w) \/ LogRecord(w) \/ Summary(w) \/ End(w)
          PROVE  UNCHANGED Ledger!vars
      BY <2>2 DEF Take, Reject, Found, PassOver, ScanDone, Stamp, CheckGranted,
                  CheckDenied, Extend, Deny, Record, LogRecord, Summary, End
    <2>3. CASE Tick
      BY <2>3 DEF Tick, Ledger!Tick
    <2>4. CASE UNCHANGED vars
      BY <2>4
    <2> QED
      BY <2>1, <2>2, <2>3, <2>4 DEF Next, Serve, Idle
  <1> QED
    BY Inductive, <1>1, <1>2, PTL DEF Spec, LedgerKept, Ledger!Spec

\* With one worker nobody else moves the struct tm.
LEMMA StampStep ==
  ASSUME \A v, w \in Workers : v = w, TypeOK, StampInv, [Next]_vars
  PROVE  StampInv'
  <1> USE DeskAssumption DEF TypeOK, Books, Requests, WorkerStates, StampInv,
                             vars, bookVars, logVars, loopVars, countVars,
                             WorkerTo
  <1>1. ASSUME NEW w \in Workers, Take(w) PROVE StampInv'
    BY <1>1 DEF Take, ResetCounters
  <1>2. ASSUME NEW w \in Workers, Reject(w) PROVE StampInv'
    BY <1>2 DEF Reject, Send
  <1>3. ASSUME NEW w \in Workers, Found(w) PROVE StampInv'
    BY <1>3 DEF Found, AtBook, Present, Compare
  <1>4. ASSUME NEW w \in Workers, PassOver(w) PROVE StampInv'
    BY <1>4 DEF PassOver, AtBook, Present, Compare
  <1>5. ASSUME NEW w \in Workers, Stamp(w) PROVE StampInv'
    BY <1>5 DEF Stamp, Localtime
  <1>6. ASSUME NEW w \in Workers, CheckGranted(w) PROVE StampInv'
    BY <1>6 DEF CheckGranted, MutexFree
  <1>7. ASSUME NEW w \in Workers, CheckDenied(w) PROVE StampInv'
    BY <1>7 DEF CheckDenied, MutexFree, GiveBack
  <1>8. ASSUME NEW w \in Workers, Extend(w) PROVE StampInv'
    BY <1>8 DEF Extend
  <1>9. ASSUME NEW w \in Workers, WriteLoan(w) PROVE StampInv'
    BY <1>9 DEF WriteLoan
  <1>10. ASSUME NEW w \in Workers, Record(w) PROVE StampInv'
    BY <1>10 DEF Record, Send
  <1>11. ASSUME NEW w \in Workers, LogRecord(w) PROVE StampInv'
    BY <1>11 DEF LogRecord
  <1>12. ASSUME NEW w \in Workers, Deny(w) PROVE StampInv'
    BY <1>12 DEF Deny, TypeNo, Send
  <1>13. ASSUME NEW w \in Workers, ScanDone(w) PROVE StampInv'
    BY <1>13 DEF ScanDone, TypeNo, Send
  <1>14. ASSUME NEW w \in Workers, Summary(w) PROVE StampInv'
    BY <1>14 DEF Summary
  <1>15. ASSUME NEW w \in Workers, End(w) PROVE StampInv'
    BY <1>15 DEF End, Send
  <1>16. CASE Tick
    BY <1>16 DEF Tick
  <1>17. CASE UNCHANGED vars
    BY <1>17
  <1> QED
    BY <1>1, <1>2, <1>3, <1>4, <1>5, <1>6, <1>7, <1>8, <1>9, <1>10, <1>11,
       <1>12, <1>13, <1>14, <1>15, <1>16, <1>17
       DEF Next, Serve, Idle

\* A server started with one worker writes the right due dates: it takes two
\* workers to spoil the struct tm that localtime shares.
THEOREM SingleWorkerTerm ==
  ASSUME \A v, w \in Workers : v = w
  PROVE  Spec => LoanTermRespected
  <1>1. Init => StampInv
    BY DEF Init, StampInv
  <1>2. TypeOK /\ StampInv /\ [Next]_vars => StampInv'
    BY StampStep
  <1>3. TypeOK /\ LoopInv /\ StampInv /\ [Next]_vars =>
          \A w \in Workers : wpc[w] = "write" /\ wpc'[w] # "write"
            => prestito'[i[w]] = rawtime[w] + LoanDays
    <2> SUFFICES ASSUME TypeOK, LoopInv, StampInv, [Next]_vars, NEW w \in Workers,
                        wpc[w] = "write", wpc'[w] # "write"
                 PROVE  prestito'[i[w]] = rawtime[w] + LoanDays
      OBVIOUS
    <2>1. \E v \in Workers : Take(v) \/ Serve(v)
      BY DEF Next, Idle, Tick, vars
    <2>2. Take(w) \/ Serve(w)
      BY <2>1
    <2>3. WriteLoan(w)
      BY <2>2 DEF Serve, Take, Reject, Found, PassOver, AtBook, ScanDone, Stamp,
                  CheckGranted, CheckDenied, Extend, Deny, Record, LogRecord,
                  Summary, End
    <2> QED
      BY <2>3 DEF WriteLoan, StampInv, TypeOK, LoopInv, AtMatch, Books
  <1>4. IInv => TypeOK /\ LoopInv
    BY DEF IInv
  <1> QED
    BY <1>1, <1>2, <1>3, <1>4, Inductive, PTL DEF Spec, LoanTermRespected

-----------------------------------------------------------------------------
(* What a loan request passes over. *)

\* In the loop the type is the one of the request, or a denial was sent.
DenialInv ==
  \A w \in Workers :
    wpc[w] \in AtMatch \cup {"scan"} =>
      \/ type[w] = request[w].type
      \/ wpc[w] = "scan" /\ type[w] = "N" /\ Negative(sent[w])

\* Only a denial overwrites the type, and it is in the reply from then on.
LEMMA DenialStep ==
  ASSUME TypeOK, DenialInv, [Next]_vars
  PROVE  DenialInv'
  <1> USE DeskAssumption DEF TypeOK, Requests, WorkerStates, DenialInv, AtMatch,
                             vars, bookVars, logVars, loopVars, countVars, WorkerTo
  <1>1. ASSUME NEW w \in Workers, Take(w) PROVE DenialInv'
    BY <1>1 DEF Take, ResetCounters, Negative
  <1>2. ASSUME NEW w \in Workers, Reject(w) PROVE DenialInv'
    BY <1>2, AppendMessage, Kinds DEF Reject, Send, Negative
  <1>3. ASSUME NEW w \in Workers, Found(w) PROVE DenialInv'
    BY <1>3 DEF Found, AtBook, Present, Compare, Negative
  <1>4. ASSUME NEW w \in Workers, PassOver(w) PROVE DenialInv'
    BY <1>4 DEF PassOver, AtBook, Present, Compare, Negative
  <1>5. ASSUME NEW w \in Workers, Stamp(w) PROVE DenialInv'
    BY <1>5 DEF Stamp, Localtime, Negative
  <1>6. ASSUME NEW w \in Workers, CheckGranted(w) PROVE DenialInv'
    BY <1>6 DEF CheckGranted, MutexFree, Negative
  <1>7. ASSUME NEW w \in Workers, CheckDenied(w) PROVE DenialInv'
    BY <1>7 DEF CheckDenied, MutexFree, GiveBack, Negative
  <1>8. ASSUME NEW w \in Workers, Extend(w) PROVE DenialInv'
    BY <1>8 DEF Extend, Negative
  <1>9. ASSUME NEW w \in Workers, WriteLoan(w) PROVE DenialInv'
    BY <1>9 DEF WriteLoan, Negative
  <1>10. ASSUME NEW w \in Workers, Record(w) PROVE DenialInv'
    BY <1>10, AppendMessage, Kinds DEF Record, Send, Negative
  <1>11. ASSUME NEW w \in Workers, LogRecord(w) PROVE DenialInv'
    BY <1>11 DEF LogRecord, Negative
  <1>12. ASSUME NEW w \in Workers, Deny(w) PROVE DenialInv'
    <2>1. Negative(sent'[w])
      BY <1>12, AppendMessage, Kinds DEF Deny, Send
    <2>2. wpc'[w] = "scan" /\ type'[w] = "N"
      BY <1>12 DEF Deny, TypeNo
    <2>3. ASSUME NEW v \in Workers \ {w}
          PROVE  wpc'[v] = wpc[v] /\ type'[v] = type[v] /\ request'[v] = request[v] /\ sent'[v] = sent[v]
      BY <1>12 DEF Deny, TypeNo, Send
    <2>4. ASSUME NEW v \in Workers, wpc'[v] \in AtMatch \cup {"scan"}
          PROVE  type'[v] = request'[v].type \/ (wpc'[v] = "scan" /\ type'[v] = "N" /\ Negative(sent'[v]))
      <3>1. CASE v = w
        BY <3>1, <2>1, <2>2
      <3>2. CASE v # w
        BY <3>2, <2>3, <2>4
      <3> QED  BY <3>1, <3>2
    <2> QED
      BY <2>4 DEF Negative
  <1>13. ASSUME NEW w \in Workers, ScanDone(w) PROVE DenialInv'
    BY <1>13, AppendMessage, Kinds DEF ScanDone, TypeNo, Send, Negative
  <1>14. ASSUME NEW w \in Workers, Summary(w) PROVE DenialInv'
    BY <1>14 DEF Summary, Negative
  <1>15. ASSUME NEW w \in Workers, End(w) PROVE DenialInv'
    BY <1>15, AppendMessage, Kinds DEF End, Send, Negative
  <1>16. CASE Tick
    BY <1>16 DEF Tick, Negative
  <1>17. CASE UNCHANGED vars
    BY <1>17 DEF Negative
  <1> QED
    BY <1>1, <1>2, <1>3, <1>4, <1>5, <1>6, <1>7, <1>8, <1>9, <1>10, <1>11,
       <1>12, <1>13, <1>14, <1>15, <1>16, <1>17
       DEF Next, Serve, Idle

\* A loan request passes over a lendable book it asks for only after it was
\* denied another one.
THEOREM LentUnlessDeniedHolds == Spec => LentUnlessDenied
  <1>1. Init => DenialInv
    BY DEF Init, DenialInv, AtMatch
  <1>2. TypeOK /\ DenialInv /\ [Next]_vars => DenialInv'
    BY DenialStep
  <1>3. TypeOK /\ DenialInv /\ [Next]_vars =>
          \A w \in Workers :
            /\ request[w].type = "L" /\ AtBook(w) /\ i[w] \in request[w].match
            /\ i'[w] = i[w] + 1
            => ~Lendable(i[w]) \/ \E k \in DOMAIN sent[w] : sent[w][k] = "N"
    <2> SUFFICES ASSUME TypeOK, DenialInv, [Next]_vars, NEW w \in Workers,
                        request[w].type = "L", AtBook(w), i[w] \in request[w].match,
                        i'[w] = i[w] + 1
                 PROVE  Negative(sent[w])
      BY DEF Negative
    <2>1. i[w] \in Nat /\ i'[w] # i[w]
      BY DeskAssumption DEF TypeOK
    <2>2. \E v \in Workers : Take(v) \/ Serve(v)
      BY <2>1 DEF Next, Idle, Tick, vars, loopVars
    <2>3. PICK v \in Workers : Take(v) \/ Serve(v)
      BY <2>2
    <2>4. v = w
      BY <2>1, <2>3 DEF TypeOK, Serve, Take, Reject, Found, PassOver, ScanDone, Stamp,
         CheckGranted, CheckDenied, Extend, WriteLoan, Deny, Record, LogRecord,
         Summary, End, loopVars
    <2>5. PassOver(w)
      BY <2>1, <2>3, <2>4 DEF AtBook, Serve, Take, Reject, Found, ScanDone, Stamp,
         CheckGranted, CheckDenied, Extend, WriteLoan, Deny, Record, LogRecord,
         Summary, End, loopVars
    <2> QED
      BY <2>5 DEF PassOver, Present, AtBook, DenialInv
  <1>4. IInv => TypeOK
    BY DEF IInv
  <1> QED
    BY <1>1, <1>2, <1>3, <1>4, Inductive, PTL DEF Spec, LentUnlessDenied

-----------------------------------------------------------------------------
(* The numbers in the log. *)

\* A request counts loans or records found, never both, by its type; a denial
\* leaves the type of a loan.
TallyInv ==
  \A w \in Workers :
    /\ isLoan[w] => queryNumber[w] = 0
    /\ ~isLoan[w] => loanRequestNumber[w] = 0
    /\ wpc[w] \in AtMatch \cup {"scan"} /\ type[w] = "L" => queryNumber[w] = 0
    /\ wpc[w] \in AtMatch \cup {"scan"} /\ type[w] = "Q" => ~isLoan[w]
    /\ wpc[w] = "reject" => loanRequestNumber[w] + queryNumber[w] = 0

LEMMA TallyStep ==
  ASSUME IInv, TallyInv, [Next]_vars
  PROVE  TallyInv'
  <1> USE DeskAssumption DEF IInv, TypeOK, Books, Requests, WorkerStates, LoopInv,
                             TallyInv, AtMatch, vars, bookVars, logVars, loopVars,
                             countVars, WorkerTo
  <1>1. ASSUME NEW w \in Workers, Take(w) PROVE TallyInv'
    BY <1>1 DEF Take, ResetCounters
  <1>2. ASSUME NEW w \in Workers, Reject(w) PROVE TallyInv'
    BY <1>2 DEF Reject, Send
  <1>3. ASSUME NEW w \in Workers, Found(w) PROVE TallyInv'
    BY <1>3 DEF Found, AtBook, Present, Compare
  <1>4. ASSUME NEW w \in Workers, PassOver(w) PROVE TallyInv'
    BY <1>4 DEF PassOver, AtBook, Present, Compare
  <1>5. ASSUME NEW w \in Workers, Stamp(w) PROVE TallyInv'
    BY <1>5 DEF Stamp, Localtime
  <1>6. ASSUME NEW w \in Workers, CheckGranted(w) PROVE TallyInv'
    BY <1>6 DEF CheckGranted, MutexFree
  <1>7. ASSUME NEW w \in Workers, CheckDenied(w) PROVE TallyInv'
    BY <1>7 DEF CheckDenied, MutexFree, GiveBack
  <1>8. ASSUME NEW w \in Workers, Extend(w) PROVE TallyInv'
    BY <1>8 DEF Extend
  <1>9. ASSUME NEW w \in Workers, WriteLoan(w) PROVE TallyInv'
    BY <1>9 DEF WriteLoan
  <1>10. ASSUME NEW w \in Workers, Record(w) PROVE TallyInv'
    BY <1>10 DEF Record, Send
  <1>11. ASSUME NEW w \in Workers, LogRecord(w) PROVE TallyInv'
    <2>1. CASE type[w] = "L"
      BY <1>11, <2>1 DEF LogRecord
    <2>2. CASE type[w] # "L"
      BY <1>11, <2>2 DEF LogRecord
    <2> QED  BY <2>1, <2>2
  <1>12. ASSUME NEW w \in Workers, Deny(w) PROVE TallyInv'
    BY <1>12 DEF Deny, TypeNo, Send
  <1>13. ASSUME NEW w \in Workers, ScanDone(w) PROVE TallyInv'
    BY <1>13 DEF ScanDone, TypeNo, Send
  <1>14. ASSUME NEW w \in Workers, Summary(w) PROVE TallyInv'
    BY <1>14 DEF Summary
  <1>15. ASSUME NEW w \in Workers, End(w) PROVE TallyInv'
    BY <1>15 DEF End, Send
  <1>16. CASE Tick
    BY <1>16 DEF Tick
  <1>17. CASE UNCHANGED vars
    BY <1>17
  <1> QED
    BY <1>1, <1>2, <1>3, <1>4, <1>5, <1>6, <1>7, <1>8, <1>9, <1>10, <1>11,
       <1>12, <1>13, <1>14, <1>15, <1>16, <1>17
       DEF Next, Serve, Idle

Open == [w \in Workers |-> Unsummed(w)]

\* What a step of one worker does to the sum.
LEMMA OpenStep ==
  ASSUME TypeOK, TypeOK', NEW w \in Workers,
         \A v \in Workers : v # w => Unsummed(v)' = Unsummed(v)
  PROVE  /\ SumFunction(Open) \in Nat /\ SumFunction(Open') \in Nat
         /\ SumFunction(Open') + Unsummed(w) = SumFunction(Open) + Unsummed(w)'
<1>0. \A v \in Workers : Unsummed(v) \in Nat /\ Unsummed(v)' \in Nat
  <2>1. \A v \in Workers : /\ loanRequestNumber[v] \in Nat /\ queryNumber[v] \in Nat
                            /\ loanRequestNumber'[v] \in Nat /\ queryNumber'[v] \in Nat
    BY DEF TypeOK
  <2> QED  BY <2>1 DEF Unsummed
<1>1. Open \in [Workers -> Nat] /\ Open' \in [Workers -> Nat]
  BY <1>0 DEF Open
<1>2. \A v \in Workers : Open[v] = Unsummed(v) /\ Open'[v] = Unsummed(v)'
  BY DEF Open
<1>3. \A v \in Workers : v # w => Open'[v] = Open[v]
  BY <1>2
<1> HIDE DEF Open
<1>4. /\ SumFunction(Open) \in Nat /\ SumFunction(Open') \in Nat
      /\ SumFunction(Open') + Open[w] = SumFunction(Open) + Open'[w]
  BY <1>1, <1>3, SumChange, DeskAssumption
<1> QED  BY <1>2, <1>4

\* Where no worker's counters or place change, the sum does not.
LEMMA OpenStays ==
  ASSUME \A v \in Workers : Unsummed(v)' = Unsummed(v)
  PROVE  Open' = Open
BY DEF Open

BalanceInv == IInv /\ TallyInv /\ LogBalances

\* A record line is counted when it is written, the counters are added to the
\* log when the reply is summed up, and both change by the same.
LEMMA BalanceStep ==
  ASSUME BalanceInv, IInv', [Next]_vars
  PROVE  LogBalances'
  <1>t. TypeOK /\ TypeOK' /\ LoopInv /\ TallyInv
    BY DEF BalanceInv, IInv
  <1>b. recordLines = loanTotal + queryTotal + SumFunction(Open)
    BY DEF BalanceInv, LogBalances, Open
  <1>g. SUFFICES recordLines' = loanTotal' + queryTotal' + SumFunction(Open')
    BY DEF LogBalances, Open
  <1>n. /\ recordLines \in Nat /\ loanTotal \in Nat /\ queryTotal \in Nat
        /\ \A w \in Workers : loanRequestNumber[w] \in Nat /\ queryNumber[w] \in Nat
    BY <1>t DEF TypeOK
  <1>q. ASSUME UNCHANGED logVars, \A v \in Workers : Unsummed(v)' = Unsummed(v)
        PROVE  recordLines' = loanTotal' + queryTotal' + SumFunction(Open')
    BY <1>b, <1>q, OpenStays DEF logVars
  <1> USE DEF WorkerTo, logVars, countVars, loopVars, bookVars
  <1>1. ASSUME NEW w \in Workers, Take(w) PROVE recordLines' = loanTotal' + queryTotal' + SumFunction(Open')
    <2>1. \A v \in Workers : Unsummed(v)' = Unsummed(v)
      BY <1>1, <1>t DEF Take, ResetCounters, Unsummed, TypeOK
    <2> QED  BY <1>1, <1>q, <2>1 DEF Take
  <1>2. ASSUME NEW w \in Workers, Reject(w) PROVE recordLines' = loanTotal' + queryTotal' + SumFunction(Open')
    <2>1. \A v \in Workers : Unsummed(v)' = Unsummed(v)
      BY <1>2, <1>t DEF Reject, Unsummed, TypeOK, TallyInv
    <2> QED  BY <1>2, <1>q, <2>1 DEF Reject
  <1>3. ASSUME NEW w \in Workers,
               \/ Found(w) \/ PassOver(w) \/ ScanDone(w) \/ Stamp(w) \/ CheckGranted(w)
               \/ CheckDenied(w) \/ Extend(w) \/ WriteLoan(w) \/ Deny(w) \/ Record(w)
        PROVE  recordLines' = loanTotal' + queryTotal' + SumFunction(Open')
    <2>1. /\ UNCHANGED <<logVars, loanRequestNumber, queryNumber>>
          /\ wpc[w] \notin {"pop", "end"}
          /\ \E s \in WorkerStates \ {"pop", "end"} : wpc' = [wpc EXCEPT ![w] = s]
      <3>1. CASE Found(w) \/ Record(w)
        BY <3>1 DEF Found, Record, AtBook, WorkerStates
      <3>4. CASE ScanDone(w) \/ Deny(w)
        BY <3>4 DEF ScanDone, Deny, WorkerStates
      <3>3. CASE PassOver(w)
        <4>1. wpc' = [wpc EXCEPT ![w] = "scan"]
          BY <3>3, <1>t DEF PassOver, AtBook, TypeOK
        <4> QED  BY <3>3, <4>1 DEF PassOver, AtBook, WorkerStates
      <3>2. CASE Stamp(w) \/ CheckGranted(w) \/ CheckDenied(w) \/ Extend(w) \/ WriteLoan(w)
        BY <3>2, <1>t DEF Stamp, CheckGranted, CheckDenied, Extend, WriteLoan, WorkerStates
      <3> QED  BY <1>3, <3>1, <3>2, <3>3, <3>4
    <2>2. \A v \in Workers : Unsummed(v)' = Unsummed(v)
      BY <2>1, <1>t DEF Unsummed, TypeOK
    <2> QED  BY <1>q, <2>1, <2>2
  <1>4. ASSUME NEW w \in Workers, LogRecord(w) PROVE recordLines' = loanTotal' + queryTotal' + SumFunction(Open')
    <2>1. /\ wpc[w] = "log" /\ wpc' = [wpc EXCEPT ![w] = "scan"]
          /\ recordLines' = recordLines + 1 /\ loanTotal' = loanTotal /\ queryTotal' = queryTotal
      BY <1>4 DEF LogRecord
    <2>2. \/ /\ loanRequestNumber' = [loanRequestNumber EXCEPT ![w] = @ + 1]
             /\ queryNumber' = queryNumber
          \/ /\ queryNumber' = [queryNumber EXCEPT ![w] = @ + 1]
             /\ loanRequestNumber' = loanRequestNumber
      BY <1>4 DEF LogRecord
    <2>3. Unsummed(w)' = Unsummed(w) + 1 /\ Unsummed(w) \in Nat
      <3>1. /\ Unsummed(w) = loanRequestNumber[w] + queryNumber[w]
            /\ Unsummed(w)' = loanRequestNumber'[w] + queryNumber'[w]
        BY <2>1, <1>t DEF Unsummed, TypeOK
      <3>2. \/ loanRequestNumber'[w] = loanRequestNumber[w] + 1 /\ queryNumber'[w] = queryNumber[w]
            \/ queryNumber'[w] = queryNumber[w] + 1 /\ loanRequestNumber'[w] = loanRequestNumber[w]
        BY <2>2, <1>t DEF TypeOK
      <3> QED  BY <3>1, <3>2, <1>n
    <2>4. \A v \in Workers : v # w => Unsummed(v)' = Unsummed(v)
      BY <2>1, <2>2, <1>t DEF Unsummed, TypeOK
    <2>5. /\ SumFunction(Open) \in Nat /\ SumFunction(Open') \in Nat
          /\ SumFunction(Open') + Unsummed(w) = SumFunction(Open) + Unsummed(w)'
      BY <2>4, <1>t, OpenStep
    <2> QED  BY <2>1, <2>3, <2>5, <1>b, <1>n
  <1>5. ASSUME NEW w \in Workers, Summary(w) PROVE recordLines' = loanTotal' + queryTotal' + SumFunction(Open')
    <2>1. /\ wpc[w] = "summary" /\ wpc' = [wpc EXCEPT ![w] = "end"]
          /\ recordLines' = recordLines /\ UNCHANGED <<loanRequestNumber, queryNumber>>
          /\ \/ isLoan[w] /\ loanTotal' = loanTotal + loanRequestNumber[w] /\ queryTotal' = queryTotal
             \/ ~isLoan[w] /\ queryTotal' = queryTotal + queryNumber[w] /\ loanTotal' = loanTotal
      BY <1>5 DEF Summary
    <2>2. loanTotal' + queryTotal' = loanTotal + queryTotal + (loanRequestNumber[w] + queryNumber[w])
      BY <2>1, <1>t, <1>n DEF TallyInv
    <2>3. Unsummed(w) = loanRequestNumber[w] + queryNumber[w] /\ Unsummed(w)' = 0
      BY <2>1, <1>t DEF Unsummed, TypeOK
    <2>4. \A v \in Workers : v # w => Unsummed(v)' = Unsummed(v)
      BY <2>1, <1>t DEF Unsummed, TypeOK
    <2>5. /\ SumFunction(Open) \in Nat /\ SumFunction(Open') \in Nat
          /\ SumFunction(Open') + Unsummed(w) = SumFunction(Open) + Unsummed(w)'
      BY <2>4, <1>t, OpenStep
    <2>6. loanTotal' \in Nat /\ queryTotal' \in Nat
      BY <1>t DEF TypeOK
    <2> QED  BY <2>1, <2>2, <2>3, <2>5, <2>6, <1>b, <1>n
  <1>6. ASSUME NEW w \in Workers, End(w) PROVE recordLines' = loanTotal' + queryTotal' + SumFunction(Open')
    <2>1. \A v \in Workers : Unsummed(v)' = Unsummed(v)
      BY <1>6, <1>t DEF End, Unsummed, TypeOK
    <2> QED  BY <1>6, <1>q, <2>1 DEF End
  <1>7. CASE Tick
    BY <1>7, <1>q DEF Tick, Unsummed
  <1>8. CASE UNCHANGED vars
    BY <1>8, <1>q DEF vars, Unsummed
  <1> QED
    BY <1>1, <1>2, <1>3, <1>4, <1>5, <1>6, <1>7, <1>8 DEF Next, Serve, Idle

\* The numbers of the LOAN and QUERY lines count the record lines of the log,
\* for any number of workers and requests.
THEOREM LogBalancesHolds == Spec => []LogBalances
<1>1. Init => BalanceInv
  <2> SUFFICES ASSUME Init PROVE BalanceInv
    OBVIOUS
  <2>1. TallyInv
    BY DEF Init, TallyInv, AtMatch
  <2>2. \A w \in Workers : Unsummed(w) = 0
    BY DEF Init, Unsummed
  <2>3. Open \in [Workers -> {0}]
    BY <2>2 DEF Open
  <2>4. SumFunction(Open) = 0
    BY <2>3, SumOfZeros, DeskAssumption
  <2>5. LogBalances
    BY <2>4 DEF Init, LogBalances, Open
  <2> QED  BY <2>1, <2>5, InitIInv DEF BalanceInv
<1>2. BalanceInv /\ [Next]_vars => BalanceInv'
  <2> SUFFICES ASSUME BalanceInv, [Next]_vars PROVE BalanceInv'
    OBVIOUS
  <2>1. IInv'
    BY TypeStep, LoopStep, CriticalStep, ReplyStep, SilentStep, NegativeStep DEF IInv, BalanceInv
  <2>2. TallyInv'
    BY TallyStep DEF BalanceInv
  <2>3. LogBalances'
    BY <2>1, BalanceStep
  <2> QED  BY <2>1, <2>2, <2>3 DEF BalanceInv
<1>3. BalanceInv => LogBalances
  BY DEF BalanceInv
<1> QED  BY <1>1, <1>2, <1>3, PTL DEF Spec
=============================================================================
