------------------------------- MODULE RecordFile ------------------------------
(***************************************************************************)
(* A server from its record file and back: main loads the file, the        *)
(* workers parse and serve requests (RequestText), and after the last of   *)
(* them main writes the books to bibData_to_test, from where the next run  *)
(* may start.                                                              *)
(*                                                                         *)
(* A request is served in one step here: how loans of several workers      *)
(* interleave is the subject of LoanDesk, the end of the threads that of   *)
(* BibServer.                                                              *)
(***************************************************************************)
EXTENDS RequestText

CONSTANTS
  Files,    \* record files, each a sequence of lines
  Depths,   \* how many parts the path argv[2] may have
  DueDate,  \* the word for a date that has not passed
  MaxRuns   \* bound: runs of the server; the last one only loads

ASSUME FileAssumption ==
  /\ Files \subseteq Seq(Seq(STRING))
  /\ DueDate \in STRING \ Marks
  /\ MaxRuns \in Nat \ {0}

VARIABLES
  phase,   \* where main is
  input,   \* the lines of the file this run reads, or the next one after its save
  books,   \* the list of books
  runs,    \* runs so far
  atStop   \* history: the books at the end of the last run

fileVars == <<phase, input, books, runs, atStop>>
vars == <<textVars, fileVars>>

Init ==
  /\ RequestInit
  /\ phase = "start"
  /\ input \in Files
  /\ books = <<>>
  /\ runs = 1
  /\ atStop = <<>>

-----------------------------------------------------------------------------
MutantLoadsAny(lines) == \A i \in DOMAIN lines : lines[i] # <<Newline>> => Parses(lines[i])

\* The process gets through the file: tokenize accepts every line that is not
\* blank, and loan_check finds a first book.
Loads(lines) ==
  /\ \E i \in DOMAIN lines : lines[i] # <<Newline>>
  /\ \A i \in DOMAIN lines : lines[i] # <<Newline>> => Parses(lines[i])

Load ==
  /\ phase = "start"
  /\ IF Loads(input)
     THEN phase' = "loaded" /\ books' = LoanCheck(ReadRecords(input))
     ELSE phase' = "dead" /\ UNCHANGED books
  /\ UNCHANGED <<textVars, input, runs, atStop>>

Serve ==
  /\ phase = "loaded" /\ runs < MaxRuns
  /\ phase' = "serve"
  /\ UNCHANGED <<textVars, input, books, runs, atStop>>

ParseRequest(w) == phase = "serve" /\ Parse(w) /\ UNCHANGED fileVars

\* The books whose loan fields date_check lets be written over: the available
\* ones and none whose date has not passed.  Of another text anything is
\* answered, since timestamp is not set if it is no date.
LendableBooks(list) ==
  {lendable \in SUBSET DOMAIN list : \A i \in DOMAIN list :
     /\ list[i]["prestito"] = <<"AVAILABLE">> => i \in lendable
     /\ list[i]["prestito"] = <<DueDate>> => i \notin lendable}

MutantAnyBook(list, search) == DOMAIN list

\* The books of a search, in the order of the list.
Matches(list, search) == {i \in DOMAIN list : BookContainsAll(list[i], search)}

\* A loan request gets its matches up to the first that is on loan.
Lend(list, search, lendable) ==
  LET Before(i) == {j \in Matches(list, search) : j <= i}
  IN [i \in DOMAIN list |->
        IF i \in Matches(list, search) /\ Before(i) \subseteq lendable
        THEN [list[i] EXCEPT !["prestito"] = <<DueDate>>] ELSE list[i]]

ServeRequest(w) ==
  /\ phase = "serve"
  /\ Finish(w)
  /\ IF IsLoanRequest(command[w]) /\ ~Refused(w)
     THEN \E lendable \in LendableBooks(books) : books' = Lend(books, book[w], lendable)
     ELSE UNCHANGED books
  /\ UNCHANGED <<phase, input, runs, atStop>>

\* The signal came and the workers were joined: nothing of theirs is left.
Join ==
  /\ phase = "serve" /\ \A w \in Workers : wpc[w] = "idle" \/ Answered(w)
  /\ phase' = "joined"
  /\ position' = Nowhere
  /\ wpc' = [w \in Workers |-> "freed"]
  /\ command' = [w \in Workers |-> <<>>]
  /\ data' = [w \in Workers |-> <<>>]
  /\ entry' = [w \in Workers |-> Nowhere]
  /\ label' = [w \in Workers |-> NULL]
  /\ book' = [w \in Workers |-> EmptyBook]
  /\ disturbed' = [w \in Workers |-> FALSE]
  /\ UNCHANGED <<input, books, runs, atStop>>

MutantNoNewline(list) == <<FlattenSeq([i \in DOMAIN list |-> RecToString(list[i])])>>

Lines(list) == [i \in DOMAIN list |-> RecToString(list[i]) \o <<Newline>>]

\* The name is what follows the second "/" of the path: without one it is a
\* null pointer, with a third one a directory that is not there.
Save ==
  /\ phase = "joined"
  /\ \E depth \in Depths :
       IF depth = 3
       THEN phase' = "exited" /\ input' = Lines(books) /\ atStop' = books
       ELSE phase' = "dead" /\ UNCHANGED <<input, atStop>>
  /\ UNCHANGED <<textVars, books, runs>>

\* The next run reads what this one saved, in a new process.
Restart ==
  /\ phase = "exited"
  /\ phase' = "start"
  /\ books' = <<>>
  /\ runs' = runs + 1
  /\ UNCHANGED <<textVars, input, atStop>>

\* The process is gone, or serves nobody any more.
Rest ==
  /\ phase = "dead" \/ (phase = "loaded" /\ runs = MaxRuns)
  /\ UNCHANGED vars

Next ==
  \/ Load \/ Serve \/ Join \/ Save \/ Restart \/ Rest
  \/ \E w \in Workers : ParseRequest(w) \/ ServeRequest(w)

Spec == Init /\ [][Next]_vars

\* Each worker that has read a request is run again and again.
FairSpec == Spec /\ \A w \in Workers : WF_textVars(Tokenizer(w))

-----------------------------------------------------------------------------
(* Properties. *)

\* Type invariant of the server and its files.
TypeOK ==
  /\ TextTypeOK
  /\ phase \in {"start", "loaded", "serve", "joined", "exited", "dead"}
  /\ \A i \in DOMAIN books : DOMAIN books[i] = Labels
  /\ runs \in 1 .. MaxRuns
  /\ phase \in {"loaded", "serve", "joined"} => books # <<>>

\* is_present keeps equal books out of the list, but it looks before loan_check
\* fills the loan fields: books that are equal once the server is up had
\* different loan fields in the file, none and an explicit one.
EqualBooksAreAvailable ==
  phase = "loaded" =>
    \A i, j \in DOMAIN books : i # j /\ books[i] = books[j] =>
      books[i]["prestito"] = <<"AVAILABLE">>

\* A book is lent only to a loan request whose command line it matches in
\* every field but the year, if its values have no separators in them and no
\* other worker got into the parse.
OnlyAskedBooksAreLent ==
  [][\A i \in DOMAIN books : phase' = "serve" /\ books'[i] # books[i] =>
       \E w \in Workers :
         /\ wpc[w] = "parsed" /\ wpc'[w] # "parsed"
         /\ IsLoanRequest(command[w])
         /\ Clean(command[w]) /\ ~disturbed[w]
              => \A f \in KeptLabels : BookContains(books[i], f, Wanted(command[w])[f])]_vars

\* The empty fields that stand right before the k-th one in a record.
EmptyBefore(b, k) ==
  k - 1 - Max({0} \cup {j \in 1 .. k - 1 : b[LabelOrder[j]] # <<>>})

\* strtok takes two delimiters in a row for one: the value of an empty field is
\* the next field, label and all.  The fields that come back are those with an
\* even number of empty ones before them.
ComesBack(b, k) == b[LabelOrder[k]] # <<>> /\ EmptyBefore(b, k) % 2 = 0

\* What a run saved the next one reads: each book of the list is there again,
\* with the loan and every other field that its empty fields do not swallow.
SavedFieldsComeBack ==
  phase = "loaded" /\ runs > 1 =>
    \A i \in DOMAIN atStop : \E j \in DOMAIN books : \A k \in DOMAIN LabelOrder :
      ComesBack(atStop[i], k) => books[j][LabelOrder[k]] = atStop[i][LabelOrder[k]]

\* No file that a run saved makes the next one end at its start, as a file with
\* an unknown label, a line without a value or no record does.
SavedFileLoads == phase = "start" /\ runs > 1 => Loads(input)
=============================================================================
