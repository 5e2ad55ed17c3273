----------------------------- MODULE MCRequestText -----------------------------
EXTENDS RequestText, TLC

\* Words of the instance: a year, one out of range, and small initials.
MCYear == "1999" :> 1999 @@ "1492" :> 1492
MCUpper == "sue" :> "Sue" @@ "red" :> "Red"

\* Two fields, one with a colon in its value; a loan by title; a note; a year
\* and a field; a year that is refused; a semicolon in a value; and two lines
\* that do not make a message.
MCCommands == {
  <<<<"--", "autore", "=", "sue">>, <<"--", "titolo", "=", "Red", ":", "Two">>>>,
  <<<<"--", "titolo", "=", "red">>, <<"-p">>>>,
  <<<<"--", "nota", "=", "Red">>>>,
  <<<<"--", "anno", "=", "1999">>, <<"--", "autore", "=", "Sue">>>>,
  <<<<"--", "anno", "=", "1492">>>>,
  <<<<"--", "nota", "=", "Red", ";", "autore", ":", "Sue">>>>,
  <<<<"--", "nota">>>>,
  <<<<"--", "nota", "=", "Red">>, <<"--", "nota", "=", "Sue">>>>}
=============================================================================
