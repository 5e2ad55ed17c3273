------------------------------ MODULE RequestText ------------------------------
(***************************************************************************)
(* The workers of one server reading the text of their requests at the     *)
(* same time (data_tokenizer, book.c).  strtok keeps the position it has   *)
(* come to in one static variable of the C library, which it reads when it *)
(* is called without a text and writes before it returns.                  *)
(*                                                                         *)
(* A worker here is a worker with one request: the next request of the     *)
(* same thread is another element of Workers, since nothing of the text is *)
(* kept from one to the next.  A token is taken as it is when strtok       *)
(* returns; what another worker then cuts in it, only a disturbed worker   *)
(* could see.                                                              *)
(***************************************************************************)
EXTENDS BookText

CONSTANTS
  Workers,   \* requests, each with the worker thread that reads it
  Commands,  \* command lines of bibclient, each a sequence of arguments
  None       \* no buffer

\* The arguments of a program have no NUL in them.
ASSUME RequestAssumption ==
  /\ None \notin Workers
  /\ Commands \subseteq Seq(Seq(STRING \ {Nul}))

VARIABLES
  position,   \* the static variable of strtok: a buffer and an index in it
  wpc,        \* where each worker is
  command,    \* the command line of the client whose request it reads
  data,       \* the buffer it read the message into
  entry,      \* the position strtok read when the worker called it
  label,      \* etichetta
  book,       \* book_to_return
  disturbed   \* history: another worker called strtok while it was parsing

textVars == <<position, wpc, command, data, entry, label, book, disturbed>>

Nowhere == [buf |-> None, at |-> 1]

\* From the read of the request to the last call of strtok.
Parsing(w) == wpc[w] \in {"first", "value", "in value", "label", "in label"}

RequestInit ==
  /\ position = Nowhere
  /\ wpc = [w \in Workers |-> "idle"]
  /\ command = [w \in Workers |-> <<>>]
  /\ data = [w \in Workers |-> <<>>]
  /\ entry = [w \in Workers |-> Nowhere]
  /\ label = [w \in Workers |-> NULL]
  /\ book = [w \in Workers |-> EmptyBook]
  /\ disturbed = [w \in Workers |-> FALSE]

-----------------------------------------------------------------------------
WorkerTo(w, s) == wpc' = [wpc EXCEPT ![w] = s]

\* The worker has read a message ...
Receive(w) ==
  /\ wpc[w] = "idle"
  /\ \E arguments \in Commands :
       /\ Accepted(arguments) /\ Message(arguments) # <<>>
       /\ command' = [command EXCEPT ![w] = arguments]
       /\ data' = [data EXCEPT ![w] = Message(arguments)]
  /\ WorkerTo(w, "first")
  /\ UNCHANGED <<position, entry, label, book, disturbed>>

\* ... or the end of the connection, whose text of no bytes is parsed as well.
ReceiveNothing(w) ==
  /\ wpc[w] = "idle"
  /\ WorkerTo(w, "first")
  /\ UNCHANGED <<position, command, data, entry, label, book, disturbed>>

\* strtok has moved on for whoever is parsing, or cut a freed buffer that is
\* another worker's again.
Disturb(w) ==
  disturbed' = [v \in Workers |-> disturbed[v] \/ (v # w /\ Parsing(v))]

\* strtok(str_to_tok, ":") does not look at the position it finds.
FirstLabel(w) ==
  /\ wpc[w] = "first"
  /\ LET found == Strtok(data[w], 1, ":")
     IN /\ label' = [label EXCEPT ![w] = found.token]
        /\ data' = [data EXCEPT ![w] = found.text]
        /\ position' = [buf |-> w, at |-> found.next]
  /\ Disturb(w)
  /\ WorkerTo(w, "value")
  /\ UNCHANGED <<command, entry, book>>

MutantFromStart(w) == [buf |-> w, at |-> 1]

\* strtok(NULL, ...) reads the position ...
Entry(w) == position

Call(w) ==
  /\ wpc[w] \in {"value", "label"}
  /\ entry' = [entry EXCEPT ![w] = Entry(w)]
  /\ WorkerTo(w, IF wpc[w] = "value" THEN "in value" ELSE "in label")
  /\ UNCHANGED <<position, command, data, label, book, disturbed>>

\* ... and goes on from there, in whatever buffer that is.  What stands in a
\* buffer that was freed is unknown: the end of a text, or a token before it.
StrtokNULL(w, delimiter) ==
  LET from == entry[w]
      found == Strtok(data[from.buf], from.at, delimiter)
  IN IF from.buf = None
     THEN {[token |-> NULL, position |-> from, data |-> data]}
     ELSE IF wpc[from.buf] = "freed"
     THEN {[token |-> token, position |-> Nowhere, data |-> data] :
             token \in {NULL, <<"garbage">>}}
     ELSE {[token |-> found.token,
            position |-> [buf |-> from.buf, at |-> found.next],
            data |-> [data EXCEPT ![from.buf] = found.text]]}

\* The condition of the loop of data_tokenizer.
Loop(w, value) == label[w] # NULL /\ value # NULL

ReturnValue(w) ==
  /\ wpc[w] = "in value"
  /\ \E found \in StrtokNULL(w, ";") :
       /\ position' = found.position
       /\ data' = found.data
       /\ IF Loop(w, found.token)
          THEN /\ book' = [book EXCEPT ![w] = Store(@, label[w], found.token)]
               /\ WorkerTo(w, "label")
          ELSE UNCHANGED book /\ WorkerTo(w, "parsed")
  /\ Disturb(w)
  /\ UNCHANGED <<command, entry, label>>

ReturnLabel(w) ==
  /\ wpc[w] = "in label"
  /\ \E found \in StrtokNULL(w, ":") :
       /\ position' = found.position
       /\ data' = found.data
       /\ label' = [label EXCEPT ![w] = found.token]
  /\ WorkerTo(w, "value")
  /\ Disturb(w)
  /\ UNCHANGED <<command, entry, book>>

\* The buffer is freed, unless the year was refused.
Refused(w) == command[w] # <<>> /\ book[w]["anno"] = <<"ERROR">>

Finish(w) ==
  /\ wpc[w] = "parsed"
  /\ WorkerTo(w, IF Refused(w) THEN "kept" ELSE "freed")
  /\ UNCHANGED <<position, command, data, entry, label, book, disturbed>>

Tokenizer(w) == FirstLabel(w) \/ Call(w) \/ ReturnValue(w) \/ ReturnLabel(w)

Parse(w) == Receive(w) \/ ReceiveNothing(w) \/ Tokenizer(w)

Answered(w) == wpc[w] \in {"kept", "freed"}

RequestNext ==
  \/ \E w \in Workers : Parse(w) \/ Finish(w)
  \/ (\A w \in Workers : Answered(w)) /\ UNCHANGED textVars

RequestSpec == RequestInit /\ [][RequestNext]_textVars

-----------------------------------------------------------------------------
(* What a request means. *)

Gives(argument, f) == IsPrefix(<<"--", f, "=">>, argument)
Given(argument) == SubSeq(argument, 4, Len(argument))

\* Every option is written --field=value, and no value has a character in it
\* that ends a value.
Clean(arguments) ==
  \A i \in DOMAIN arguments : IsOption(arguments[i]) =>
    /\ \E f \in OptionLabels : Gives(arguments[i], f)
    /\ {"--", "=", ";"} \cap ToSet(Given(arguments[i])) = {}

\* The book that was typed.  Values begin with a capital letter.  The loan field
\* is not an option: --prestito is -p, whatever follows it.
Wanted(arguments) ==
  LET Argument(f) == CHOOSE argument \in ToSet(arguments) : Gives(argument, f)
      Value(f) ==
        [Given(Argument(f)) EXCEPT ![1] = IF @ \in DOMAIN Upper THEN Upper[@] ELSE @]
  IN [f \in Labels |->
        IF f \notin OptionLabels \/ \A i \in DOMAIN arguments : ~Gives(arguments[i], f)
        THEN <<>> ELSE Value(f)]

\* What is promised of the fields leaves the year out: data_tokenizer, which
\* should store it, loses a valid one and writes a word over another.
KeptLabels == Labels \ {"anno"}

Keeps(b, arguments) == \A f \in KeptLabels : b[f] = Wanted(arguments)[f]

-----------------------------------------------------------------------------
(* Properties. *)

\* Type invariant of the workers and of the position of strtok.
TextTypeOK ==
  /\ position.buf \in Workers \cup {None}
  /\ position.at \in 1 .. Len(IF position.buf = None THEN <<>> ELSE data[position.buf]) + 1
  /\ wpc \in [Workers -> {"idle", "first", "value", "in value", "label",
                          "in label", "parsed", "kept", "freed"}]
  /\ command \in [Workers -> Commands \cup {<<>>}]
  /\ \A w \in Workers : entry[w].buf \in Workers \cup {None} /\ entry[w].at \in Nat
  /\ \A w \in Workers : Len(data[w]) = Len(Message(command[w]))
  /\ \A w \in Workers : DOMAIN book[w] = Labels
  /\ disturbed \in [Workers -> BOOLEAN]

HasRead(w) == wpc[w] = "parsed" /\ Clean(command[w])

\* What data_tokenizer makes of a request is the book that was typed in every
\* field but the year, from the command line over the message to the fields,
\* and a request is refused only if a year was typed, as long as no other
\* worker calls strtok during its loop; what stood in the static position
\* before does not matter.
UndisturbedParse ==
  \A w \in Workers :
    HasRead(w) /\ ~disturbed[w] =>
      /\ Keeps(book[w], command[w])
      /\ Refused(w) => Wanted(command[w])["anno"] # <<>>

\* The same of the fields, whoever else is parsing: data_tokenizer stores the
\* string passed from the client in a book.
OwnRequest == \A w \in Workers : HasRead(w) => Keeps(book[w], command[w])

\* Every worker leaves its loop, though the others move the position back and
\* forth under it: there is no text for which the loops feed one another.
ParseEnds == \A w \in Workers : Parsing(w) ~> ~Parsing(w)
=============================================================================
