------------------------------ MODULE MCRecordFile -----------------------------
EXTENDS RecordFile, MCRequestText

Field(f, value) == <<f, ":">> \o value \o <<";">>
Line(fields) == FlattenSeq(fields) \o <<Newline>>

\* A loan by author and title, a loan by note asked for the long way, a
\* query by year, a year that is refused, and two command lines that do not make
\* a message.
MCLoanCommands == {
  <<<<"--", "autore", "=", "sue">>, <<"-p">>,
    <<"--", "titolo", "=", "Red", ":", "Two">>>>,
  <<<<"--", "prestito", "=", "Sue">>, <<"--", "nota", "=", "red">>>>,
  <<<<"--", "anno", "=", "1999">>>>,
  <<<<"--", "anno", "=", "1492">>>>,
  <<<<"--", "nota">>>>,
  <<<<"--", "nota", "=", "Red">>, <<"--", "nota", "=", "Sue">>>>}

\* An author in two parts, a title with a colon; a blank line; a book on loan
\* whose note is empty, and whose author has spaces around it.
Shelf == <<
  Line(<<Field("autore", <<"Sue">>), Field("titolo", <<" ", "Red", ":", "Two">>),
         Field("autore", <<" ", "Lee">>)>>),
  <<Newline>>,
  Line(<<Field("autore", <<" ", "Lee", " ">>), Field("descrizione_fisica", <<"Red">>),
         Field("prestito", <<"due">>)>>)>>

Full(loan) == [i \in DOMAIN LabelOrder |->
  Field(LabelOrder[i], IF LabelOrder[i] = "prestito" THEN loan ELSE <<"Red">>)]

\* Records that are equal, one that becomes equal to another, and one whose
\* loan field is no date.
Twice == <<Line(Full(<<"due">>)), Line(Full(<<"due">>)),
           Line(Full(<<" ">>)), Line(Full(<<"AVAILABLE">>)), Line(Full(<<"Lee">>))>>

MCFiles == {Shelf, Twice, <<>>, <<<<Newline>>>>, <<<<" ", Newline>>>>,
            <<Line(<<Field("isbn", <<"Red">>)>>)>>}
=============================================================================
