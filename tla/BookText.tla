-------------------------------- MODULE BookText --------------------------------
(***************************************************************************)
(* The text of books and requests: how bibclient writes its arguments into *)
(* a message, how book.c reads a message or a line of a record file, and   *)
(* how it prints a book.  These are the operators; RequestText and         *)
(* RecordFile are the processes that use them.                             *)
(*                                                                         *)
(* A text is a sequence of symbols: a label, a word, or one of the         *)
(* characters the programs look for.  Words stand for the rest: where one  *)
(* begins in another is not modelled.  Lines and fields fit their buffers. *)
(***************************************************************************)
EXTENDS Naturals, Sequences, SequencesExt

CONSTANTS
  Year,    \* the number of each word that is one, as atoi reads it
  Upper    \* the capitalised form of each word that begins in lower case

\* The symbols that the programs look for; the others are labels and words.
Marks == {"--", "=", ":", ";", " ", "\n", "NUL"}

\* A letter is capitalised to a letter.
ASSUME WordsAssumption ==
  /\ Year \in [DOMAIN Year -> Nat]
  /\ Upper \in [DOMAIN Upper -> STRING \ Marks]

\* The fields of a book, in the order tokenize, rec_to_string and
\* arguments_parser name them.
LabelOrder == <<"autore", "titolo", "editore", "anno", "volume", "scaffale",
                "collocazione", "luogo_pubblicazione", "descrizione_fisica",
                "nota", "prestito">>
Labels == ToSet(LabelOrder)

\* The options of the client: all the fields but the last.
OptionLabels == Labels \ {"prestito"}

EmptyBook == [f \in Labels |-> <<>>]

\* strstr: key occurs in text.
Within(key, text) ==
  \E i \in 0 .. Len(text) - Len(key) : SubSeq(text, i + 1, i + Len(key)) = key

-----------------------------------------------------------------------------
(* strtok on a text, from a position. *)

NULL == <<>>   \* no token: a token has at least one symbol
Nul == "NUL"   \* what ends a string

StringEnd(text, from) ==
  LET nul == SelectInSubSeq(text, from, Len(text), LAMBDA s : s = Nul)
  IN IF nul = 0 THEN Len(text) + 1 ELSE nul

\* Delimiters are skipped, then the token goes on to the next one, which is
\* overwritten.
Strtok(text, from, delimiter) ==
  LET end == StringEnd(text, from)
      first == SelectInSubSeq(text, from, end - 1, LAMBDA s : s # delimiter)
      last == SelectInSubSeq(text, first, end - 1, LAMBDA s : s = delimiter)
      Found(to, next, after) ==
        [token |-> SubSeq(text, first, to), next |-> next, text |-> after]
  IN IF first = 0 THEN [token |-> NULL, next |-> end, text |-> text]
     ELSE IF last = 0 THEN Found(end - 1, end, text)
     ELSE Found(last - 1, last + 1, [text EXCEPT ![last] = Nul])

\* The labels and values a loop of strtok(":") and strtok(";") finds; it ends
\* at the first of them that is missing.
Pairs(text) ==
  LET from[p \in 1 .. Len(text) + 1] ==
        LET label == Strtok(text, p, ":")
            value == Strtok(text, label.next, ";")
        IN IF NULL \in {label.token, value.token} THEN <<>>
           ELSE <<[label |-> label.token, value |-> value.token]>>
                  \o from[value.next]
  IN from[1]

-----------------------------------------------------------------------------
(* The record file. *)

Newline == "\n"
IsSpace(s) == s \in {" ", Newline}

\* remove_spaces: no space at either end.
RemoveSpaces(text) ==
  LET first == SelectInSeq(text, LAMBDA s : ~IsSpace(s))
  IN IF first = 0 THEN <<>>
     ELSE SubSeq(text, first, SelectLastInSeq(text, LAMBDA s : ~IsSpace(s)))

\* The first of the known labels that occurs in what stands before the colon.
Recognised(label) == \E f \in Labels : f \in ToSet(label)
LabelOf(label) == LabelOrder[SelectInSeq(LabelOrder, LAMBDA f : f \in ToSet(label))]

\* tokenize ends the process when a line has no first value (remove_spaces
\* gets a null pointer) or a label it does not know.
Parses(line) ==
  /\ Pairs(line) # <<>>
  /\ \A i \in DOMAIN Pairs(line) : Recognised(Pairs(line)[i].label)

\* tokenize: the values of a label that comes again are joined.
Tokenize(line) ==
  FoldLeft(LAMBDA book, pair :
             [book EXCEPT ![LabelOf(pair.label)] = RemoveSpaces(@ \o pair.value)],
           EmptyBook, Pairs(line))

MutantOtherLabel(book) ==
  FoldRight(LAMBDA f, text :
              <<IF f = "luogo_pubblicazione" THEN "luogo" ELSE f, ":">>
                \o book[f] \o <<";">> \o text,
            LabelOrder, <<>>)

\* rec_to_string: every field, the empty ones too.
RecToString(book) ==
  FoldRight(LAMBDA f, text : <<f, ":">> \o book[f] \o <<";">> \o text,
            LabelOrder, <<>>)

MutantKeepsEqual(list, book) == FALSE

IsPresent(list, book) == book \in ToSet(list)

AddNode(list, element) == <<element>> \o list

\* The loop of main over the lines: blank lines and books that are already
\* there are left out.
ReadRecords(lines) ==
  FoldLeft(LAMBDA list, line :
             IF line = <<Newline>> \/ IsPresent(list, Tokenize(line)) THEN list
             ELSE AddNode(list, Tokenize(line)),
           <<>>, lines)

\* loan_check: a book without a loan field is available.
LoanCheck(list) ==
  [i \in DOMAIN list |->
     IF list[i]["prestito"] # <<>> THEN list[i]
     ELSE [list[i] EXCEPT !["prestito"] = <<"AVAILABLE">>]]

-----------------------------------------------------------------------------
(* The request: bibclient. *)

\* The option an argument is taken for: the first whose name occurs in it.
IsOption(argument) == \E f \in OptionLabels : Within(<<"--", f>>, argument)
Option(argument) ==
  LabelOrder[SelectInSeq(LabelOrder, LAMBDA f : Within(<<"--", f>>, argument))]

\* "-p" also occurs in "--prestito".
IsLoanOption(argument) ==
  \/ Within(<<"-p">>, argument)
  \/ Within(<<"--", "prestito">>, argument)

RemoveDashes(text) == IF text # <<>> /\ Head(text) = "--" THEN Tail(text) ELSE text

MutantAsIs(text) == text

ToUpperCase(text) ==
  IF Head(text) \in DOMAIN Upper THEN <<Upper[Head(text)]>> \o Tail(text) ELSE text

LabelText(argument) == Strtok(argument, 1, "=").token
ValueText(argument) == Strtok(argument, Strtok(argument, 1, "=").next, "=").token

\* arguments_parser returns: every argument is an option with a value or "-p",
\* and no option comes twice.  Else the client exits or follows a null pointer.
Accepted(arguments) ==
  /\ \A i \in DOMAIN arguments :
       \/ IsOption(arguments[i]) /\ ValueText(arguments[i]) # NULL
       \/ ~IsOption(arguments[i]) /\ IsLoanOption(arguments[i])
  /\ \A i, j \in DOMAIN arguments :
       i # j /\ IsOption(arguments[i]) /\ IsOption(arguments[j])
         => Option(arguments[i]) # Option(arguments[j])

IsLoanRequest(arguments) ==
  \E i \in DOMAIN arguments : ~IsOption(arguments[i])

\* The data of the message, last option first.
Message(arguments) ==
  FoldLeft(LAMBDA text, argument :
             IF ~IsOption(argument) THEN text
             ELSE RemoveDashes(LabelText(argument)) \o <<":">>
                    \o ToUpperCase(ValueText(argument)) \o <<";">> \o text,
           <<>>, arguments)

-----------------------------------------------------------------------------
(* The request: the server. *)

Atoi(text) == IF Head(text) \in DOMAIN Year THEN Year[Head(text)] ELSE 0

ValidYear(text) == Atoi(text) >= 1500 /\ Atoi(text) <= 2023

\* One turn of data_tokenizer: a year that is valid is not stored, a label
\* that is unknown is passed over.
Store(book, label, value) ==
  IF label = <<"anno">>
  THEN IF ValidYear(value) THEN book ELSE [book EXCEPT !["anno"] = <<"ERROR">>]
  ELSE IF Len(label) = 1 /\ Head(label) \in OptionLabels
       THEN [book EXCEPT ![Head(label)] = value]
       ELSE book

BookContains(book, f, key) == key = <<>> \/ Within(key, book[f])

BookContainsAll(book, search) == \A f \in Labels : BookContains(book, f, search[f])
=============================================================================
