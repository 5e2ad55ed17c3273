---------------------------- MODULE RecordFileProofs ----------------------------
(***************************************************************************)
(* What comes through the conversions of BookText, RequestText and         *)
(* RecordFile, for all texts: the tokens of strtok, the message and its    *)
(* parse among other workers, the record file and its next load.           *)
(***************************************************************************)
EXTENDS RecordFile, InductionProofs, SequenceTheorems

\* What texts are made of.  The provers do not know that a string they see is
\* one of STRING, so those of the modules are named here.
Symbols == STRING \cup Marks \cup Labels \cup {"ERROR", "AVAILABLE", "garbage"}

LEMMA SymbolsAre ==
  /\ STRING \subseteq Symbols /\ Marks \subseteq Symbols /\ Labels \subseteq Symbols
  /\ Nul \in Symbols /\ "ERROR" \in Symbols /\ "AVAILABLE" \in Symbols
  /\ "garbage" \in Symbols
BY DEF Symbols, Marks, Nul

-----------------------------------------------------------------------------
(* The least and the greatest of some indices of a sequence. *)

LEMMA MinIs ==
  ASSUME NEW I \in SUBSET Nat, I # {}
  PROVE  Min(I) \in I /\ \A i \in I : Min(I) <= i
<1>1. \E m \in I : \A i \in I : m <= i
  BY LeastNat
<1> QED  BY <1>1 DEF Min

LEMMA MaxIs ==
  ASSUME NEW n \in Nat, NEW I \in SUBSET (1 .. n), I # {}
  PROVE  Max(I) \in I /\ \A i \in I : i <= Max(I)
<1> DEFINE T == {k \in 0 .. n : n - k \in I}
<1>1. T \in SUBSET Nat
  OBVIOUS
<1>2. PICK i \in I : TRUE
  OBVIOUS
<1>3. n - i \in T
  BY <1>2
<1>4. PICK m \in T : \A k \in T : m <= k
  <2> HIDE DEF T
  <2> QED  BY <1>1, <1>3, LeastNat
<1>5. ASSUME NEW j \in I
      PROVE  j <= n - m
  <2>1. n - j \in T
    OBVIOUS
  <2>2. m <= n - j /\ m \in Nat
    BY <1>4, <2>1
  <2> QED  BY <2>2
<1>6. \E x \in I : \A y \in I : x >= y
  BY <1>4, <1>5
<1> QED  BY <1>6 DEF Max

-----------------------------------------------------------------------------
(* strtok. *)

LEMMA StringEndIs ==
  ASSUME NEW text \in Seq(Symbols), NEW from \in 1 .. Len(text) + 1
  PROVE  /\ StringEnd(text, from) \in from .. Len(text) + 1
         /\ \A i \in from .. StringEnd(text, from) - 1 : text[i] # Nul
         /\ StringEnd(text, from) <= Len(text) => text[StringEnd(text, from)] = Nul
<1> DEFINE I == {i \in from .. Len(text) : text[i] = Nul}
<1>1. StringEnd(text, from) = IF I = {} THEN Len(text) + 1 ELSE Min(I)
  <2>1. I # {} => Min(I) # 0
    <3>1. I \in SUBSET Nat /\ 0 \notin I
      OBVIOUS
    <3> HIDE DEF I
    <3> QED  BY <3>1, MinIs
  <2> QED  BY <2>1 DEF StringEnd, SelectInSubSeq
<1>2. CASE I = {}
  BY <1>1, <1>2
<1>3. CASE I # {}
  <2>1. I \in SUBSET Nat
    OBVIOUS
  <2>2. Min(I) \in I /\ \A i \in I : Min(I) <= i
    <3> HIDE DEF I
    <3> QED  BY <1>3, <2>1, MinIs
  <2>3. \A i \in from .. Min(I) - 1 : i \notin I
    <3>1. Min(I) \in Nat
      BY <2>1, <2>2
    <3> HIDE DEF I
    <3> QED  BY <2>2, <3>1
  <2>4. Min(I) \in from .. Len(text) /\ text[Min(I)] = Nul
    BY <2>2
  <2>5. \A i \in from .. Min(I) - 1 : text[i] # Nul
    <3> TAKE i \in from .. Min(I) - 1
    <3>1. i \in from .. Len(text)
      BY <2>4
    <3> QED  BY <2>3, <3>1
  <2> HIDE DEF I
  <2> QED  BY <1>1, <1>3, <2>4, <2>5
<1> QED  BY <1>2, <1>3

\* A token goes from the first symbol that is no delimiter to the next
\* delimiter, or to the end of the string.
NoToken(text, from, d) ==
  /\ \A i \in from .. StringEnd(text, from) - 1 : text[i] = d
  /\ Strtok(text, from, d) = [token |-> NULL, next |-> StringEnd(text, from), text |-> text]

TokenAt(text, from, d, first) ==
  /\ first \in from .. StringEnd(text, from) - 1
  /\ \A i \in from .. first - 1 : text[i] = d
  /\ text[first] # d

TokenTo(text, from, d, first, last) ==
  /\ last \in first + 1 .. StringEnd(text, from) - 1
  /\ \A i \in first .. last - 1 : text[i] # d
  /\ text[last] = d
  /\ Strtok(text, from, d) = [token |-> SubSeq(text, first, last - 1), next |-> last + 1,
                              text |-> [text EXCEPT ![last] = Nul]]

TokenToEnd(text, from, d, first) ==
  /\ \A i \in first .. StringEnd(text, from) - 1 : text[i] # d
  /\ Strtok(text, from, d) = [token |-> SubSeq(text, first, StringEnd(text, from) - 1),
                              next |-> StringEnd(text, from), text |-> text]

LEMMA StrtokCases ==
  ASSUME NEW text \in Seq(Symbols), NEW from \in 1 .. Len(text) + 1, NEW d
  PROVE  \/ NoToken(text, from, d)
         \/ \E first \in Nat :
              /\ TokenAt(text, from, d, first)
              /\ \/ \E last \in Nat : TokenTo(text, from, d, first, last)
                 \/ TokenToEnd(text, from, d, first)
<1> DEFINE end == StringEnd(text, from)
           I == {i \in from .. end - 1 : text[i] # d}
           first == Min(I)
           J == {i \in first .. end - 1 : text[i] = d}
           last == Min(J)
<1>0. end \in from .. Len(text) + 1
  BY StringEndIs
<1>1. I \in SUBSET Nat /\ 0 \notin I /\ I \in SUBSET (from .. end - 1)
  BY <1>0
<1>2. CASE I = {}
  <2>1. Strtok(text, from, d) = [token |-> NULL, next |-> end, text |-> text]
    BY <1>2 DEF Strtok, SelectInSubSeq
  <2> QED  BY <1>2, <2>1 DEF NoToken
<1>3. CASE I # {}
  <2>1. first \in I /\ \A i \in I : first <= i
    <3> HIDE DEF I
    <3> QED  BY <1>1, <1>3, MinIs
  <2>2. first \in Nat /\ first # 0 /\ first \in from .. end - 1 /\ text[first] # d
    BY <1>1, <2>1
  <2>3. \A i \in from .. first - 1 : text[i] = d
    <3> TAKE i \in from .. first - 1
    <3>1. i \in from .. end - 1 /\ ~(first <= i)
      BY <1>0, <2>2
    <3>2. i \notin I
      BY <2>1, <3>1
    <3> QED  BY <3>1, <3>2
  <2>4. TokenAt(text, from, d, first)
    <3> HIDE DEF first
    <3> QED  BY <2>2, <2>3 DEF TokenAt
  <2>5. J \in SUBSET Nat /\ 0 \notin J
    <3> HIDE DEF first
    <3> QED  BY <1>0, <2>2
  <2>6. SelectInSubSeq(text, from, end - 1, LAMBDA s : s # d) = first
    BY <1>3 DEF SelectInSubSeq
  <2>7. CASE J = {}
    <3>1. SelectInSubSeq(text, first, end - 1, LAMBDA s : s = d) = 0
      <4> HIDE DEF first
      <4> QED  BY <2>7 DEF SelectInSubSeq
    <3>2. Strtok(text, from, d) = [token |-> SubSeq(text, first, end - 1),
                                   next |-> end, text |-> text]
      <4> HIDE DEF first
      <4> QED  BY <2>2, <2>6, <3>1 DEF Strtok
    <3>3. \A i \in first .. end - 1 : text[i] # d
      <4> HIDE DEF first
      <4> QED  BY <2>7
    <3>4. TokenToEnd(text, from, d, first)
      <4> HIDE DEF first
      <4> QED  BY <3>2, <3>3 DEF TokenToEnd
    <3> QED  BY <2>2, <2>4, <3>4
  <2>8. CASE J # {}
    <3>1. last \in J /\ \A i \in J : last <= i
      <4> HIDE DEF J
      <4> QED  BY <2>5, <2>8, MinIs
    <3>2. SelectInSubSeq(text, first, end - 1, LAMBDA s : s = d) = last
      <4> HIDE DEF first
      <4> QED  BY <2>8 DEF SelectInSubSeq
    <3>3. last \in Nat /\ last # 0 /\ last \in first + 1 .. end - 1 /\ text[last] = d
      <4> HIDE DEF first, last
      <4> QED  BY <2>2, <2>5, <3>1
    <3>4. Strtok(text, from, d) = [token |-> SubSeq(text, first, last - 1),
                                   next |-> last + 1, text |-> [text EXCEPT ![last] = Nul]]
      <4> HIDE DEF first, last
      <4> QED  BY <2>2, <2>6, <3>2, <3>3 DEF Strtok
    <3>5. \A i \in first .. last - 1 : text[i] # d
      <4> TAKE i \in first .. last - 1
      <4>1. i \in first .. end - 1 /\ ~(last <= i)
        <5> HIDE DEF first, last
        <5> QED  BY <1>0, <2>2, <3>3
      <4> HIDE DEF first, last
      <4> QED  BY <3>1, <4>1
    <3>6. TokenTo(text, from, d, first, last)
      <4> HIDE DEF first, last
      <4> QED  BY <3>3, <3>4, <3>5 DEF TokenTo
    <3> HIDE DEF first, last
    <3> QED  BY <2>2, <2>4, <3>3, <3>6
  <2> QED  BY <2>7, <2>8
<1> QED  BY <1>2, <1>3

\* What a call returns and leaves, wherever it begins.
TokenOK(text, from, d, found) ==
  /\ found.next \in from .. Len(text) + 1
  /\ found.text \in Seq(Symbols) /\ Len(found.text) = Len(text)
  /\ \A i \in found.next .. Len(text) : found.text[i] = text[i]
  /\ found.token \in Seq(Symbols)
  /\ \A i \in DOMAIN found.token : found.token[i] # d /\ found.token[i] # Nul
  /\ found.token # NULL => found.next > from

LEMMA StrtokType ==
  ASSUME NEW text \in Seq(Symbols), NEW from \in 1 .. Len(text) + 1, NEW d
  PROVE  TokenOK(text, from, d, Strtok(text, from, d))
<1> DEFINE end == StringEnd(text, from)
           found == Strtok(text, from, d)
<1> SUFFICES TokenOK(text, from, d, found)
  OBVIOUS
<1> USE DEF TokenOK
<1>0. end \in from .. Len(text) + 1 /\ \A i \in from .. end - 1 : text[i] # Nul
  BY StringEndIs
<1> HIDE DEF end, found
<1>1. CASE NoToken(text, from, d)
  <2>1. found.token = <<>> /\ found.next = end /\ found.text = text
    BY <1>1 DEF NoToken, NULL, end, found
  <2> QED  BY <1>0, <2>1 DEF NULL, found
<1>2. ASSUME NEW first \in Nat, TokenAt(text, from, d, first)
      PROVE  /\ first \in from .. end - 1
             /\ \A to \in first .. end - 1 :
                  (\A i \in first .. to : text[i] # d) =>
                    /\ SubSeq(text, first, to) \in Seq(Symbols)
                    /\ Len(SubSeq(text, first, to)) = to - first + 1
                    /\ \A i \in 1 .. to - first + 1 :
                         /\ SubSeq(text, first, to)[i] # d
                         /\ SubSeq(text, first, to)[i] # Nul
  <2>1. first \in from .. end - 1
    BY <1>2 DEF TokenAt, end
  <2>2. ASSUME NEW to \in first .. end - 1, \A i \in first .. to : text[i] # d
        PROVE  /\ SubSeq(text, first, to) \in Seq(Symbols)
               /\ Len(SubSeq(text, first, to)) = to - first + 1
               /\ \A i \in 1 .. to - first + 1 :
                    /\ SubSeq(text, first, to)[i] # d
                    /\ SubSeq(text, first, to)[i] # Nul
    <3>1. \A i \in first .. to : text[i] \in Symbols /\ text[i] # d /\ text[i] # Nul
      BY <1>0, <2>1, <2>2
    <3>2. /\ SubSeq(text, first, to) \in Seq(Symbols)
          /\ Len(SubSeq(text, first, to)) = to - first + 1
          /\ \A i \in 1 .. to - first + 1 : SubSeq(text, first, to)[i] = text[first + i - 1]
      BY <1>0, <2>1, <3>1, SubSeqProperties
    <3>3. \A i \in 1 .. to - first + 1 : first + i - 1 \in first .. to
      BY <1>0, <2>1
    <3> QED  BY <3>1, <3>2, <3>3
  <2> QED  BY <2>1, <2>2
<1>3. ASSUME NEW first \in Nat, TokenAt(text, from, d, first),
             NEW last \in Nat, TokenTo(text, from, d, first, last)
      PROVE  /\ found.next \in from + 1 .. Len(text) + 1
             /\ found.text \in Seq(Symbols) /\ Len(found.text) = Len(text)
             /\ \A i \in found.next .. Len(text) : found.text[i] = text[i]
             /\ found.token \in Seq(Symbols)
             /\ \A i \in DOMAIN found.token : found.token[i] # d /\ found.token[i] # Nul
  <2>1. /\ last \in first + 1 .. end - 1 /\ \A i \in first .. last - 1 : text[i] # d
        /\ found.token = SubSeq(text, first, last - 1) /\ found.next = last + 1
        /\ found.text = [text EXCEPT ![last] = Nul]
    BY <1>3 DEF TokenTo, end, found
  <2>2. first \in from .. end - 1 /\ last - 1 \in first .. end - 1 /\ last \in 1 .. Len(text)
    BY <1>0, <1>2, <1>3, <2>1
  <2> DEFINE to == last - 1
  <2>7. to \in first .. end - 1 /\ \A i \in first .. to : text[i] # d
    BY <2>1, <2>2
  <2>8. found.token = SubSeq(text, first, to)
    BY <2>1
  <2> HIDE DEF to
  <2>3. /\ found.token \in Seq(Symbols) /\ Len(found.token) = to - first + 1
        /\ \A i \in 1 .. to - first + 1 : found.token[i] # d /\ found.token[i] # Nul
    BY <1>2, <1>3, <2>7, <2>8
  <2>4. DOMAIN found.token = 1 .. Len(found.token)
    BY <2>3, LenProperties
  <2>5. Nul \in Symbols
    BY SymbolsAre
  <2>6. /\ found.text \in Seq(Symbols) /\ Len(found.text) = Len(text)
        /\ \A i \in 1 .. Len(text) : found.text[i] = IF i = last THEN Nul ELSE text[i]
    BY <2>1, <2>2, <2>5, ExceptSeq
  <2> QED  BY <1>0, <2>1, <2>2, <2>3, <2>4, <2>6
<1>4. ASSUME NEW first \in Nat, TokenAt(text, from, d, first),
             TokenToEnd(text, from, d, first)
      PROVE  /\ found.next \in from + 1 .. Len(text) + 1
             /\ found.text = text
             /\ found.token \in Seq(Symbols)
             /\ \A i \in DOMAIN found.token : found.token[i] # d /\ found.token[i] # Nul
  <2>1. \A i \in first .. end - 1 : text[i] # d
    BY <1>4 DEF TokenToEnd, end
  <2>5. found = [token |-> SubSeq(text, first, end - 1), next |-> end, text |-> text]
    BY <1>4 DEF TokenToEnd, end, found
  <2>6. /\ found.token = SubSeq(text, first, end - 1) /\ found.next = end
        /\ found.text = text
    BY <2>5
  <2>2. first \in from .. end - 1 /\ end - 1 \in first .. end - 1
    BY <1>0, <1>2, <1>4
  <2>3. /\ found.token \in Seq(Symbols) /\ Len(found.token) = end - 1 - first + 1
        /\ \A i \in 1 .. end - 1 - first + 1 : found.token[i] # d /\ found.token[i] # Nul
    BY <1>2, <1>4, <2>1, <2>2, <2>6
  <2>4. DOMAIN found.token = 1 .. Len(found.token)
    BY <2>3, LenProperties
  <2> QED  BY <1>0, <2>2, <2>3, <2>4, <2>6
<1>5. \/ NoToken(text, from, d)
      \/ \E first \in Nat :
           /\ TokenAt(text, from, d, first)
           /\ \/ \E last \in Nat : TokenTo(text, from, d, first, last)
              \/ TokenToEnd(text, from, d, first)
  BY StrtokCases
<1>6. CASE ~NoToken(text, from, d)
  <2>1. PICK first \in Nat : /\ TokenAt(text, from, d, first)
                             /\ \/ \E last \in Nat : TokenTo(text, from, d, first, last)
                                \/ TokenToEnd(text, from, d, first)
    BY <1>5, <1>6
  <2>2. CASE TokenToEnd(text, from, d, first)
    BY <1>4, <2>1, <2>2 DEF found
  <2>3. CASE \E last \in Nat : TokenTo(text, from, d, first, last)
    BY <1>3, <2>1, <2>3 DEF found
  <2> QED  BY <2>1, <2>2, <2>3
<1> QED  BY <1>1, <1>6

\* A token that is there, with delimiters before it and one after it ...
LEMMA TokenFound ==
  ASSUME NEW text \in Seq(Symbols), NEW from \in 1 .. Len(text) + 1, NEW d, d # Nul,
         NEW first \in from .. Len(text), NEW last \in first + 1 .. Len(text),
         \A i \in from .. first - 1 : text[i] = d,
         \A i \in first .. last - 1 : text[i] # d /\ text[i] # Nul,
         text[last] = d
  PROVE  TokenTo(text, from, d, first, last)
<1> DEFINE end == StringEnd(text, from)
<1>1. end \in last + 1 .. Len(text) + 1
  <2>1. end \in from .. Len(text) + 1 /\ (end <= Len(text) => text[end] = Nul)
    BY StringEndIs
  <2>2. \A i \in from .. last : text[i] # Nul
    OBVIOUS
  <2> QED  BY <2>1, <2>2
<1>2. ~NoToken(text, from, d)
  <2>1. first \in from .. end - 1 /\ text[first] # d
    BY <1>1
  <2> QED  BY <2>1 DEF NoToken
<1>3. ASSUME NEW f \in Nat, TokenAt(text, from, d, f)
      PROVE  f = first
  <2>1. f \in from .. end - 1 /\ (\A i \in from .. f - 1 : text[i] = d) /\ text[f] # d
    BY <1>3 DEF TokenAt
  <2>2. ~(f < first)
    BY <2>1
  <2>3. ~(first < f)
    BY <2>1
  <2> QED  BY <2>1, <2>2, <2>3
<1>4. ~TokenToEnd(text, from, d, first)
  <2>1. last \in first .. end - 1
    BY <1>1
  <2> QED  BY <2>1 DEF TokenToEnd
<1>5. ASSUME NEW l \in Nat, TokenTo(text, from, d, first, l)
      PROVE  l = last
  <2>1. l \in first + 1 .. end - 1 /\ (\A i \in first .. l - 1 : text[i] # d) /\ text[l] = d
    BY <1>5 DEF TokenTo
  <2> QED  BY <2>1
<1>6. \E l \in Nat : TokenTo(text, from, d, first, l)
  BY <1>2, <1>3, <1>4, StrtokCases
<1> QED  BY <1>5, <1>6

\* ... or the end of the text ...
LEMMA LastTokenFound ==
  ASSUME NEW text \in Seq(Symbols), NEW from \in 1 .. Len(text) + 1, NEW d,
         NEW first \in from .. Len(text),
         \A i \in from .. Len(text) : text[i] # Nul,
         \A i \in from .. first - 1 : text[i] = d,
         \A i \in first .. Len(text) : text[i] # d
  PROVE  Strtok(text, from, d) = [token |-> SubSeq(text, first, Len(text)),
                                  next |-> Len(text) + 1, text |-> text]
<1>1. StringEnd(text, from) = Len(text) + 1
  <2>1. /\ StringEnd(text, from) \in from .. Len(text) + 1
        /\ StringEnd(text, from) <= Len(text) => text[StringEnd(text, from)] = Nul
    BY StringEndIs
  <2> QED  BY <2>1
<1>2. ~NoToken(text, from, d)
  <2>1. first \in from .. StringEnd(text, from) - 1 /\ text[first] # d
    BY <1>1
  <2> QED  BY <2>1 DEF NoToken
<1>3. ASSUME NEW f \in Nat, TokenAt(text, from, d, f)
      PROVE  f = first
  <2>1. /\ f \in from .. Len(text) /\ (\A i \in from .. f - 1 : text[i] = d)
        /\ text[f] # d
    BY <1>1, <1>3 DEF TokenAt
  <2> QED  BY <2>1
<1>4. ASSUME NEW l \in Nat
      PROVE  ~TokenTo(text, from, d, first, l)
  BY <1>1 DEF TokenTo
<1>5. TokenToEnd(text, from, d, first)
  BY <1>2, <1>3, <1>4, StrtokCases
<1> QED  BY <1>1, <1>5 DEF TokenToEnd

\* ... and none where the text is over.
LEMMA NoTokenFound ==
  ASSUME NEW text \in Seq(Symbols), NEW d
  PROVE  Strtok(text, Len(text) + 1, d) = [token |-> NULL, next |-> Len(text) + 1, text |-> text]
<1>1. Len(text) + 1 \in 1 .. Len(text) + 1
  OBVIOUS
<1>2. StringEnd(text, Len(text) + 1) = Len(text) + 1
  BY <1>1, StringEndIs
<1>3. ASSUME NEW f \in Nat
      PROVE  ~TokenAt(text, Len(text) + 1, d, f)
  BY <1>2 DEF TokenAt
<1>4. NoToken(text, Len(text) + 1, d)
  BY <1>1, <1>3, StrtokCases
<1> QED  BY <1>2, <1>4 DEF NoToken

-----------------------------------------------------------------------------
(* strtok, by what still stands in the text. *)

Remains(text, from) == SubSeq(text, from, Len(text))

LEMMA RemainsIs ==
  ASSUME NEW text \in Seq(Symbols), NEW from \in 1 .. Len(text) + 1
  PROVE  /\ Remains(text, from) \in Seq(Symbols)
         /\ Len(Remains(text, from)) = Len(text) - from + 1
         /\ \A i \in 1 .. Len(text) - from + 1 : Remains(text, from)[i] = text[from + i - 1]
<1>1. from \in Int /\ Len(text) \in Int /\ \A i \in from .. Len(text) : text[i] \in Symbols
  OBVIOUS
<1> QED  BY <1>1, SubSeqProperties DEF Remains

\* The symbols of two texts put together.
LEMMA ConcatIs ==
  ASSUME NEW s1 \in Seq(Symbols), NEW s2 \in Seq(Symbols)
  PROVE  /\ s1 \o s2 \in Seq(Symbols) /\ Len(s1 \o s2) = Len(s1) + Len(s2)
         /\ Len(s1) \in Nat /\ Len(s2) \in Nat
         /\ \A i \in 1 .. Len(s1) : (s1 \o s2)[i] = s1[i]
         /\ \A i \in 1 .. Len(s2) : (s1 \o s2)[Len(s1) + i] = s2[i]
<1>1. Len(s1) \in Nat /\ Len(s2) \in Nat
  OBVIOUS
<1>2. /\ s1 \o s2 \in Seq(Symbols) /\ Len(s1 \o s2) = Len(s1) + Len(s2)
      /\ \A i \in 1 .. Len(s1) + Len(s2) :
           (s1 \o s2)[i] = IF i <= Len(s1) THEN s1[i] ELSE s2[i - Len(s1)]
  BY ConcatProperties
<1>3. \A i \in 1 .. Len(s2) : (s1 \o s2)[Len(s1) + i] = s2[i]
  <2> TAKE i \in 1 .. Len(s2)
  <2>1. Len(s1) + i \in 1 .. Len(s1) + Len(s2) /\ ~(Len(s1) + i <= Len(s1))
        /\ (Len(s1) + i) - Len(s1) = i
    BY <1>1
  <2> QED  BY <1>2, <2>1
<1> QED  BY <1>1, <1>2, <1>3

LEMMA OneSymbol ==
  ASSUME NEW d \in Symbols
  PROVE  <<d>> \in Seq(Symbols) /\ Len(<<d>>) = 1 /\ <<d>>[1] = d
OBVIOUS

\* Four pieces of a text, one of them a single symbol.
LEMMA PiecesAre ==
  ASSUME NEW skip \in Seq(Symbols), NEW word \in Seq(Symbols), NEW d \in Symbols,
         NEW after \in Seq(Symbols), NEW all, all = skip \o word \o <<d>> \o after,
         NEW n, n = Len(skip), NEW m, m = Len(word)
  PROVE  /\ all \in Seq(Symbols) /\ n \in Nat /\ m \in Nat
         /\ Len(all) = n + m + 1 + Len(after)
         /\ \A i \in 1 .. n : all[i] = skip[i]
         /\ \A i \in 1 .. m : all[n + i] = word[i]
         /\ all[n + m + 1] = d
         /\ \A i \in 1 .. Len(after) : all[n + m + 1 + i] = after[i]
<1> DEFINE front == skip \o word
           most == front \o <<d>>
<1>1. /\ front \in Seq(Symbols) /\ Len(front) = n + m /\ n \in Nat /\ m \in Nat
      /\ \A i \in 1 .. n : front[i] = skip[i]
      /\ \A i \in 1 .. m : front[n + i] = word[i]
  BY ConcatIs
<1> HIDE DEF front
<1>2. /\ most \in Seq(Symbols) /\ Len(most) = n + m + 1
      /\ \A i \in 1 .. n + m : most[i] = front[i]
      /\ most[n + m + 1] = d
  <2>1. /\ most \in Seq(Symbols) /\ Len(most) = Len(front) + Len(<<d>>)
        /\ \A i \in 1 .. Len(front) : most[i] = front[i]
        /\ \A i \in 1 .. Len(<<d>>) : most[Len(front) + i] = <<d>>[i]
    BY <1>1, OneSymbol, ConcatIs, ZenonT(30)
  <2>2. 1 \in 1 .. Len(<<d>>) /\ <<d>>[1] = d
    BY OneSymbol
  <2> QED  BY <1>1, <2>1, <2>2, OneSymbol, ZenonT(30)
<1> HIDE DEF most
<1>3. all = most \o after
  BY DEF front, most
<1>4. /\ all \in Seq(Symbols) /\ Len(all) = n + m + 1 + Len(after)
      /\ \A i \in 1 .. n + m + 1 : all[i] = most[i]
      /\ \A i \in 1 .. Len(after) : all[n + m + 1 + i] = after[i]
  <2>1. most \in Seq(Symbols) /\ Len(most) = n + m + 1
    BY <1>2
  <2>2. /\ most \o after \in Seq(Symbols)
        /\ Len(most \o after) = Len(most) + Len(after)
        /\ \A i \in 1 .. Len(most) : (most \o after)[i] = most[i]
        /\ \A i \in 1 .. Len(after) : (most \o after)[Len(most) + i] = after[i]
    BY <2>1, ConcatIs
  <2> QED  BY <1>3, <2>1, <2>2
<1>5. \A i \in 1 .. n : all[i] = skip[i]
  BY <1>1, <1>2, <1>4
<1>6. \A i \in 1 .. m : all[n + i] = word[i]
  <2> TAKE i \in 1 .. m
  <2>1. n + i \in 1 .. n + m /\ n + i \in 1 .. n + m + 1
    BY <1>1
  <2> QED  BY <1>1, <1>2, <1>4, <2>1
<1>7. all[n + m + 1] = d
  BY <1>1, <1>2, <1>4
<1> QED  BY <1>1, <1>4, <1>5, <1>6, <1>7

\* A word of a text that no d and no end of string interrupts.
Word(word, d) ==
  /\ word \in Seq(Symbols) /\ word # <<>>
  /\ \A i \in 1 .. Len(word) : word[i] # d /\ word[i] # Nul

\* What a call that finds it leaves.
Cuts(found, text, word, after) ==
  /\ found.token = word /\ found.next \in 1 .. Len(text) + 1
  /\ Remains(text, found.next) = after /\ Remains(found.text, found.next) = after

LEMMA NextToken ==
  ASSUME NEW text \in Seq(Symbols), NEW from \in 1 .. Len(text) + 1,
         NEW d \in Symbols, d # Nul, NEW skip \in Seq({d}), NEW word, Word(word, d),
         NEW after \in Seq(Symbols), Remains(text, from) = skip \o word \o <<d>> \o after
  PROVE  Cuts(Strtok(text, from, d), text, word, after)
<1> DEFINE n == Len(skip)
           m == Len(word)
           first == from + n
           last == first + m
           found == Strtok(text, from, d)
<1>1. /\ word \in Seq(Symbols) /\ m \in Nat /\ m # 0
      /\ \A i \in 1 .. m : word[i] # d /\ word[i] # Nul
  BY DEF Word
<1>2. skip \in Seq(Symbols) /\ n \in Nat /\ \A i \in 1 .. n : skip[i] = d
  BY SeqMonotonic
<1>3. /\ Len(text) - from + 1 = n + m + 1 + Len(after)
      /\ \A i \in 1 .. n : text[from + i - 1] = d
      /\ \A i \in 1 .. m : text[from + n + i - 1] = word[i]
      /\ text[from + n + m] = d
      /\ \A i \in 1 .. Len(after) : text[from + n + m + i] = after[i]
  <2> DEFINE all == Remains(text, from)
  <2>1. /\ Len(all) = n + m + 1 + Len(after)
        /\ \A i \in 1 .. n : all[i] = skip[i]
        /\ \A i \in 1 .. m : all[n + i] = word[i]
        /\ all[n + m + 1] = d
        /\ \A i \in 1 .. Len(after) : all[n + m + 1 + i] = after[i]
    <3> HIDE DEF n, m, all
    <3>1. n = Len(skip) /\ m = Len(word) /\ all = skip \o word \o <<d>> \o after
      BY DEF n, m, all
    <3> QED  BY <1>1, <1>2, <3>1, PiecesAre, SMTT(30)
  <2>2. /\ Len(all) = Len(text) - from + 1
        /\ \A i \in 1 .. Len(text) - from + 1 : all[i] = text[from + i - 1]
    BY RemainsIs
  <2>3. Len(after) \in Nat /\ Len(text) \in Nat /\ from \in Nat
    OBVIOUS
  <2> HIDE DEF all, n, m
  <2>4. Len(text) - from + 1 = n + m + 1 + Len(after)
    BY <2>1, <2>2
  <2>5. \A i \in 1 .. n : text[from + i - 1] = d
    <3> TAKE i \in 1 .. n
    <3>1. i \in 1 .. Len(text) - from + 1
      BY <1>1, <1>2, <2>3, <2>4
    <3> QED  BY <1>2, <2>1, <2>2, <3>1
  <2>6. \A i \in 1 .. m : text[from + n + i - 1] = word[i]
    <3> TAKE i \in 1 .. m
    <3>1. n + i \in 1 .. Len(text) - from + 1 /\ from + (n + i) - 1 = from + n + i - 1
      BY <1>1, <1>2, <2>3, <2>4
    <3> QED  BY <2>1, <2>2, <3>1
  <2>7. text[from + n + m] = d
    <3>1. n + m + 1 \in 1 .. Len(text) - from + 1 /\ from + (n + m + 1) - 1 = from + n + m
      BY <1>1, <1>2, <2>3, <2>4
    <3> QED  BY <2>1, <2>2, <3>1
  <2>8. \A i \in 1 .. Len(after) : text[from + n + m + i] = after[i]
    <3> TAKE i \in 1 .. Len(after)
    <3>1. /\ n + m + 1 + i \in 1 .. Len(text) - from + 1
          /\ from + (n + m + 1 + i) - 1 = from + n + m + i
      BY <1>1, <1>2, <2>3, <2>4
    <3> QED  BY <2>1, <2>2, <3>1
  <2> QED  BY <2>4, <2>5, <2>6, <2>7, <2>8
<1>0. Len(after) \in Nat /\ Len(text) \in Nat /\ from \in Nat
  OBVIOUS
<1> HIDE DEF n, m
<1>4. first \in from .. Len(text) /\ last \in first + 1 .. Len(text)
  BY <1>0, <1>1, <1>2, <1>3
<1>5. \A i \in from .. first - 1 : text[i] = d
  <2> TAKE i \in from .. first - 1
  <2>1. i - from + 1 \in 1 .. n /\ from + (i - from + 1) - 1 = i
    BY <1>0, <1>2
  <2> QED  BY <1>3, <2>1
<1>6. \A i \in first .. last - 1 : text[i] = word[i - first + 1] /\ text[i] # d /\ text[i] # Nul
  <2> TAKE i \in first .. last - 1
  <2>1. i - first + 1 \in 1 .. m /\ from + n + (i - first + 1) - 1 = i
    BY <1>0, <1>1, <1>2
  <2> QED  BY <1>1, <1>3, <2>1, SMTT(30)
<1>7. text[last] = d
  BY <1>3
<1> HIDE DEF first, last, found
<1>8. found = [token |-> SubSeq(text, first, last - 1), next |-> last + 1,
               text |-> [text EXCEPT ![last] = Nul]]
  <2>1. \A i \in first .. last - 1 : text[i] # d /\ text[i] # Nul
    BY <1>6
  <2>2. TokenTo(text, from, d, first, last)
    BY <1>4, <1>5, <1>7, <2>1, TokenFound
  <2> QED  BY <2>2 DEF TokenTo, found
<1>9. found.token = word
  <2>1. \A i \in first .. last - 1 : text[i] \in Symbols
    BY <1>0, <1>4
  <2>2. /\ SubSeq(text, first, last - 1) \in Seq(Symbols)
        /\ Len(SubSeq(text, first, last - 1)) = m
        /\ \A i \in 1 .. m : SubSeq(text, first, last - 1)[i] = text[first + i - 1]
    <3>1. first \in Int /\ last - 1 \in Int /\ first <= last - 1 /\ last - 1 - first + 1 = m
      BY <1>0, <1>1, <1>2, <1>4 DEF first, last
    <3> QED  BY <2>1, <3>1, SubSeqProperties
  <2>3. \A i \in 1 .. m : SubSeq(text, first, last - 1)[i] = word[i]
    BY <1>3, <2>2 DEF first
  <2>4. SubSeq(text, first, last - 1) = word
    BY <1>1, <2>2, <2>3, SeqEqual DEF m
  <2> QED  BY <1>8, <2>4
<1>10. ASSUME NEW t \in Seq(Symbols), Len(t) = Len(text),
              \A i \in last + 1 .. Len(text) : t[i] = text[i]
       PROVE  Remains(t, last + 1) = after
  <2>1. last + 1 \in 1 .. Len(t) + 1 /\ Len(t) - (last + 1) + 1 = Len(after)
    <3>1. last = from + n + m
      BY DEF first, last
    <3>2. Len(text) - from + 1 = n + m + 1 + Len(after)
      BY <1>3
    <3> QED  BY <1>0, <1>1, <1>2, <1>10, <3>1, <3>2
  <2>2. /\ Remains(t, last + 1) \in Seq(Symbols) /\ Len(Remains(t, last + 1)) = Len(after)
        /\ \A i \in 1 .. Len(after) : Remains(t, last + 1)[i] = t[last + 1 + i - 1]
    BY <1>10, <2>1, RemainsIs, ZenonT(30)
  <2>3. \A i \in 1 .. Len(after) : t[last + 1 + i - 1] = after[i]
    <3> TAKE i \in 1 .. Len(after)
    <3>1. last + 1 + i - 1 = from + n + m + i /\ last + 1 + i - 1 \in last + 1 .. Len(text)
      BY <1>0, <1>1, <1>2, <1>10, <2>1 DEF first, last
    <3> QED  BY <1>3, <1>10, <3>1
  <2> QED  BY <2>2, <2>3, SeqEqual
<1>11. Remains(text, last + 1) = after
  BY <1>10
<1>12. Remains([text EXCEPT ![last] = Nul], last + 1) = after
  <2>1. last \in 1 .. Len(text)
    BY <1>0, <1>4
  <2>2. /\ [text EXCEPT ![last] = Nul] \in Seq(Symbols)
        /\ Len([text EXCEPT ![last] = Nul]) = Len(text)
        /\ \A i \in 1 .. Len(text) :
             [text EXCEPT ![last] = Nul][i] = IF i = last THEN Nul ELSE text[i]
    BY <2>1, SymbolsAre, ExceptSeq
  <2>3. \A i \in last + 1 .. Len(text) : [text EXCEPT ![last] = Nul][i] = text[i]
    <3> TAKE i \in last + 1 .. Len(text)
    <3>1. i \in 1 .. Len(text) /\ i # last
      BY <1>0, <2>1
    <3> QED  BY <2>2, <3>1
  <2> QED  BY <1>10, <2>2, <2>3
<1>13. last + 1 \in 1 .. Len(text) + 1
  BY <1>0, <1>4
<1> QED  BY <1>8, <1>9, <1>11, <1>12, <1>13 DEF found, Cuts

LEMMA LastToken ==
  ASSUME NEW text \in Seq(Symbols), NEW from \in 1 .. Len(text) + 1,
         NEW d \in Symbols, d # Nul, NEW skip \in Seq({d}), NEW word, Word(word, d),
         Remains(text, from) = skip \o word
  PROVE  Strtok(text, from, d) = [token |-> word, next |-> Len(text) + 1, text |-> text]
<1> DEFINE n == Len(skip)
           m == Len(word)
           first == from + n
<1>0. Len(text) \in Nat /\ from \in Nat
  OBVIOUS
<1>1. /\ word \in Seq(Symbols) /\ m \in Nat /\ m # 0
      /\ \A i \in 1 .. m : word[i] # d /\ word[i] # Nul
  BY DEF Word
<1>2. skip \in Seq(Symbols) /\ n \in Nat /\ \A i \in 1 .. n : skip[i] = d
  BY SeqMonotonic
<1>3. /\ Len(text) - from + 1 = n + m
      /\ \A i \in 1 .. n : Remains(text, from)[i] = d
      /\ \A i \in 1 .. m : Remains(text, from)[n + i] = word[i]
  <2>1. /\ Len(skip \o word) = n + m
        /\ \A i \in 1 .. n : (skip \o word)[i] = skip[i]
        /\ \A i \in 1 .. m : (skip \o word)[n + i] = word[i]
    BY <1>1, <1>2, ConcatIs
  <2>2. Len(Remains(text, from)) = Len(text) - from + 1
    BY RemainsIs
  <2> HIDE DEF n, m
  <2> QED  BY <1>2, <2>1, <2>2
<1>4. \A i \in 1 .. n + m : Remains(text, from)[i] = text[from + i - 1]
  BY <1>3, RemainsIs, ZenonT(30)
<1> HIDE DEF n, m, Remains
<1>5. \A i \in from .. first - 1 : text[i] = d /\ text[i] # Nul
  <2> TAKE i \in from .. first - 1
  <2>1. i - from + 1 \in 1 .. n /\ i - from + 1 \in 1 .. n + m /\ from + (i - from + 1) - 1 = i
    BY <1>0, <1>1, <1>2
  <2> QED  BY <1>3, <1>4, <2>1
<1>6. \A i \in 1 .. m : text[first + i - 1] = word[i]
  <2> TAKE i \in 1 .. m
  <2>1. n + i \in 1 .. n + m /\ from + (n + i) - 1 = first + i - 1
    BY <1>0, <1>1, <1>2
  <2> QED  BY <1>3, <1>4, <2>1
<1>7. \A i \in first .. Len(text) : text[i] # d /\ text[i] # Nul
  <2> TAKE i \in first .. Len(text)
  <2>1. i - first + 1 \in 1 .. m /\ first + (i - first + 1) - 1 = i
    BY <1>0, <1>1, <1>2, <1>3
  <2> QED  BY <1>1, <1>6, <2>1
<1>8. first \in from .. Len(text) /\ Len(text) - first + 1 = m
  <2>1. Len(text) - from + 1 = n + m /\ n \in Nat /\ m \in Nat /\ m # 0
    BY <1>1, <1>2, <1>3
  <2> QED  BY <1>0, <2>1
<1>9. \A i \in from .. Len(text) : text[i] # Nul
  <2> TAKE i \in from .. Len(text)
  <2>1. i \in from .. first - 1 \/ i \in first .. Len(text)
    BY <1>0, <1>8
  <2> QED  BY <1>5, <1>7, <2>1
<1>10. SubSeq(text, first, Len(text)) = word
  <2>1. first \in Int /\ Len(text) \in Int /\ first <= Len(text)
    BY <1>0, <1>8
  <2>2. \A i \in first .. Len(text) : text[i] \in Symbols
    BY <1>0, <1>8
  <2>3. /\ SubSeq(text, first, Len(text)) \in Seq(Symbols)
        /\ Len(SubSeq(text, first, Len(text))) = m
        /\ \A i \in 1 .. m : SubSeq(text, first, Len(text))[i] = text[first + i - 1]
    BY <1>8, <2>1, <2>2, SubSeqProperties
  <2> QED  BY <1>1, <1>6, <2>3, SeqEqual DEF m
<1> HIDE DEF first
<1>11. Strtok(text, from, d) = [token |-> SubSeq(text, first, Len(text)),
                                next |-> Len(text) + 1, text |-> text]
  <2>1. first \in from .. Len(text) /\ \A i \in from .. Len(text) : text[i] # Nul
    BY <1>8, <1>9
  <2>2. \A i \in from .. first - 1 : text[i] = d
    BY <1>5
  <2>3. \A i \in first .. Len(text) : text[i] # d
    BY <1>7
  <2> QED  BY <2>1, <2>2, <2>3, LastTokenFound
<1> QED  BY <1>10, <1>11

LEMMA NoMoreTokens ==
  ASSUME NEW text \in Seq(Symbols), NEW from \in 1 .. Len(text) + 1, NEW d,
         Remains(text, from) = <<>>
  PROVE  Strtok(text, from, d) = [token |-> NULL, next |-> Len(text) + 1, text |-> text]
<1>1. from = Len(text) + 1
  BY RemainsIs
<1> QED  BY <1>1, NoTokenFound

\* The same with nothing to skip.
Stands(text, from, d, word, after) ==
  /\ text \in Seq(Symbols) /\ from \in 1 .. Len(text) + 1
  /\ d \in Symbols /\ d # Nul /\ Word(word, d) /\ after \in Seq(Symbols)
  /\ Remains(text, from) = word \o <<d>> \o after

LEMMA NextWord ==
  ASSUME NEW text, NEW from, NEW d, NEW word, NEW after, Stands(text, from, d, word, after)
  PROVE  Cuts(Strtok(text, from, d), text, word, after)
<1> DEFINE skip == <<>>
           mark == <<d>>
<1>1. /\ text \in Seq(Symbols) /\ from \in 1 .. Len(text) + 1
      /\ d \in Symbols /\ d # Nul /\ Word(word, d) /\ after \in Seq(Symbols)
      /\ Remains(text, from) = word \o mark \o after
  BY DEF Stands
<1>2. skip \in Seq({d})
  OBVIOUS
<1>3. skip \o word = word
  BY <1>1, ConcatEmptySeq DEF Word
<1> HIDE DEF skip, mark
<1>4. Remains(text, from) = skip \o word \o <<d>> \o after
  BY <1>1, <1>3 DEF mark
<1> QED  BY <1>1, <1>2, <1>4, NextToken

StandsLast(text, from, d, word) ==
  /\ text \in Seq(Symbols) /\ from \in 1 .. Len(text) + 1
  /\ d \in Symbols /\ d # Nul /\ Word(word, d)
  /\ Remains(text, from) = word

LEMMA LastWord ==
  ASSUME NEW text, NEW from, NEW d, NEW word, StandsLast(text, from, d, word)
  PROVE  Strtok(text, from, d) = [token |-> word, next |-> Len(text) + 1, text |-> text]
<1> DEFINE skip == <<>>
<1>1. /\ text \in Seq(Symbols) /\ from \in 1 .. Len(text) + 1
      /\ d \in Symbols /\ d # Nul /\ Word(word, d)
      /\ Remains(text, from) = word
  BY DEF StandsLast
<1>2. skip \in Seq({d})
  OBVIOUS
<1>3. skip \o word = word
  BY <1>1, ConcatEmptySeq DEF Word
<1> HIDE DEF skip
<1> QED  BY <1>1, <1>2, <1>3, LastToken

LEMMA AllRemains ==
  ASSUME NEW text \in Seq(Symbols)
  PROVE  Remains(text, 1) = text /\ Remains(text, Len(text) + 1) = <<>>
BY SubSeqFull, SubSeqEmpty DEF Remains

-----------------------------------------------------------------------------
(* The pairs of labels and values of a text. *)

LabelAt(text, p) == Strtok(text, p, ":")
ValueAt(text, p) == Strtok(text, LabelAt(text, p).next, ";")
PairAt(text, p) == [label |-> LabelAt(text, p).token, value |-> ValueAt(text, p).token]
Over(text, p) == NULL \in {LabelAt(text, p).token, ValueAt(text, p).token}

\* The texts a value may be.
EndsValue(s) == s = ";" \/ s = Nul
ValueTexts == {v \in Seq(Symbols) : \A i \in 1 .. Len(v) : ~EndsValue(v[i])}

AllPairs == [label : Seq(Symbols), value : ValueTexts]

LEMMA PairAtIs ==
  ASSUME NEW text \in Seq(Symbols), NEW p \in 1 .. Len(text) + 1
  PROVE  /\ PairAt(text, p) \in AllPairs
         /\ ValueAt(text, p).next \in p .. Len(text) + 1
         /\ ~Over(text, p) => ValueAt(text, p).next > p
<1>1. /\ LabelAt(text, p).next \in p .. Len(text) + 1
      /\ LabelAt(text, p).token \in Seq(Symbols)
  BY StrtokType DEF LabelAt, TokenOK
<1>2. LabelAt(text, p).next \in 1 .. Len(text) + 1
  BY <1>1
<1>3. /\ ValueAt(text, p).next \in LabelAt(text, p).next .. Len(text) + 1
      /\ ValueAt(text, p).token \in ValueTexts
      /\ ValueAt(text, p).token # NULL => ValueAt(text, p).next > LabelAt(text, p).next
  <2> DEFINE from == LabelAt(text, p).next
             found == Strtok(text, from, ";")
  <2>0. from \in 1 .. Len(text) + 1
    BY <1>2
  <2> HIDE DEF from
  <2>1. /\ found.next \in from .. Len(text) + 1
        /\ found.token \in Seq(Symbols)
        /\ \A i \in DOMAIN found.token : found.token[i] # ";" /\ found.token[i] # Nul
        /\ found.token # NULL => found.next > from
    <3>1. TokenOK(text, from, ";", found)
      BY <2>0, StrtokType
    <3> HIDE DEF found
    <3> QED  BY <3>1 DEF TokenOK
  <2>2. found = ValueAt(text, p)
    BY DEF ValueAt, from
  <2> HIDE DEF found
  <2>3. found.token \in ValueTexts
    <3>1. ASSUME NEW i \in 1 .. Len(found.token)
          PROVE  ~EndsValue(found.token[i])
      <4>1. i \in DOMAIN found.token
        BY <2>1, LenProperties
      <4>2. found.token[i] # ";" /\ found.token[i] # Nul
        BY <2>1, <4>1
      <4> QED  BY <4>2 DEF EndsValue
    <3> QED  BY <2>1, <3>1 DEF ValueTexts
  <2> QED  BY <2>1, <2>2, <2>3 DEF from
<1>4. ~Over(text, p) => ValueAt(text, p).token # NULL
  BY DEF Over
<1>5. PairAt(text, p) \in AllPairs
  BY <1>1, <1>3 DEF PairAt, AllPairs
<1> QED  BY <1>1, <1>3, <1>4, <1>5

\* What the loop finds from a position on.
PairsFrom(f, text, p) ==
  IF Over(text, p) THEN <<>> ELSE <<PairAt(text, p)>> \o f[ValueAt(text, p).next]

LEMMA PairsExist ==
  ASSUME NEW text \in Seq(Symbols)
  PROVE  \E f : f = [p \in 1 .. Len(text) + 1 |-> PairsFrom(f, text, p)]
<1> DEFINE N == Len(text) + 1
           A == {n \in 0 .. N : \E f : /\ f = [p \in 1 .. N |-> f[p]]
                                       /\ \A p \in N - n + 1 .. N : f[p] = PairsFrom(f, text, p)}
<1>0. N \in Nat
  OBVIOUS
<1>1. 0 \in A
  <2> DEFINE f == [p \in 1 .. N |-> <<>>]
  <2>1. f = [p \in 1 .. N |-> f[p]]
    OBVIOUS
  <2>2. \A p \in N - 0 + 1 .. N : f[p] = PairsFrom(f, text, p)
    BY <1>0
  <2>3. 0 \in 0 .. N
    BY <1>0
  <2> HIDE DEF f, N
  <2> QED  BY <2>1, <2>2, <2>3
<1>2. ASSUME NEW n \in 0 .. N - 1, n \in A
      PROVE  n + 1 \in A
  <2>1. PICK f : /\ f = [p \in 1 .. N |-> f[p]]
                 /\ \A p \in N - n + 1 .. N : f[p] = PairsFrom(f, text, p)
    BY <1>2
  <2> DEFINE q == N - n
             h == [p \in 1 .. N |-> IF p = q THEN PairsFrom(f, text, q) ELSE f[p]]
  <2>2. q \in 1 .. N /\ n \in Nat /\ n + 1 \in 0 .. N
    BY <1>0
  <2>3. h = [p \in 1 .. N |-> h[p]]
    OBVIOUS
  <2>4. ASSUME NEW p \in q .. N
        PROVE  h[p] = PairsFrom(h, text, p)
    <3>0. p \in 1 .. N
      BY <2>2
    <3>1. ~Over(text, p) => ValueAt(text, p).next \in 1 .. N /\ ValueAt(text, p).next # q
      <4>1. ValueAt(text, p).next \in p .. N /\ (~Over(text, p) => ValueAt(text, p).next > p)
        BY <3>0, PairAtIs
      <4> HIDE DEF N
      <4> QED  BY <1>0, <2>2, <3>0, <4>1
    <3>2. ~Over(text, p) => h[ValueAt(text, p).next] = f[ValueAt(text, p).next]
      <4> HIDE DEF q, N
      <4> QED  BY <3>1
    <3>3. PairsFrom(f, text, p) = PairsFrom(h, text, p)
      <4> HIDE DEF h
      <4> QED  BY <3>2 DEF PairsFrom
    <3>4. h[p] = PairsFrom(f, text, p)
      <4>1. CASE p = q
        BY <3>0, <4>1
      <4>2. CASE p # q
        <5>1. p \in N - n + 1 .. N
          BY <1>0, <2>2, <4>2
        <5>2. h[p] = f[p]
          BY <3>0, <4>2
        <5> HIDE DEF h, q, N
        <5> QED  BY <2>1, <5>1, <5>2
      <4> QED  BY <4>1, <4>2
    <3> HIDE DEF h
    <3> QED  BY <3>3, <3>4
  <2>5. N - (n + 1) + 1 = q
    BY <1>0, <2>2
  <2> HIDE DEF h, q, N
  <2> QED  BY <2>2, <2>3, <2>4, <2>5
<1>3. N \in A
  <2> HIDE DEF A, N
  <2>1. \A n \in 0 .. N : n \in A
    BY <1>0, <1>1, <1>2, UpTo
  <2> QED  BY <1>0, <2>1
<1>4. PICK f : /\ f = [p \in 1 .. N |-> f[p]]
               /\ \A p \in N - N + 1 .. N : f[p] = PairsFrom(f, text, p)
  BY <1>3
<1>5. \A p \in 1 .. N : f[p] = PairsFrom(f, text, p)
  BY <1>0, <1>4
<1>6. f = [p \in 1 .. N |-> PairsFrom(f, text, p)]
  <2> HIDE DEF N
  <2> QED  BY <1>4, <1>5
<1> QED  BY <1>6

LEMMA PairsIs ==
  ASSUME NEW text \in Seq(Symbols)
  PROVE  \E f : /\ \A p \in 1 .. Len(text) + 1 : f[p] = PairsFrom(f, text, p)
                /\ Pairs(text) = f[1]
<1> DEFINE f == CHOOSE g : g = [p \in 1 .. Len(text) + 1 |-> PairsFrom(g, text, p)]
<1>1. f = [p \in 1 .. Len(text) + 1 |-> PairsFrom(f, text, p)]
  BY PairsExist
<1>2. Pairs(text) = f[1]
  BY DEF Pairs, PairsFrom, Over, PairAt, LabelAt, ValueAt
<1>3. \A p \in 1 .. Len(text) + 1 : f[p] = PairsFrom(f, text, p)
  <2> HIDE DEF f
  <2> QED  BY <1>1
<1> QED  BY <1>2, <1>3

-----------------------------------------------------------------------------
(* FoldLeft and FoldRight, one element of the sequence at a time. *)

Greatest(n) == [s \in SUBSET (1 .. n) |-> Max(s)]
Least(n) == [s \in SUBSET (1 .. n) |-> Min(s)]

LEMMA EndsArePicked ==
  ASSUME NEW n \in Nat
  PROVE  /\ Picks(Greatest(n), 1 .. n) /\ Picks(Least(n), 1 .. n)
         /\ IsFiniteSet(1 .. n)
<1>1. \A s \in SUBSET (1 .. n) : s \in SUBSET Nat
  OBVIOUS
<1>2. \A s \in SUBSET (1 .. n) : s # {} => Greatest(n)[s] \in s /\ Least(n)[s] \in s
  BY <1>1, MaxIs, MinIs DEF Greatest, Least
<1>3. IsFiniteSet(1 .. n)
  BY FS_Interval
<1> QED  BY <1>2, <1>3 DEF Picks

LEMMA Interval ==
  ASSUME NEW n \in Nat, NEW k \in 1 .. n
  PROVE  /\ 1 .. k # {} /\ 1 .. k \in SUBSET (1 .. n) /\ Max(1 .. k) = k
         /\ (1 .. k) \ {k} = 1 .. k - 1 /\ 1 .. k - 1 \in SUBSET (1 .. n)
         /\ k .. n # {} /\ k .. n \in SUBSET (1 .. n) /\ Min(k .. n) = k
         /\ (k .. n) \ {k} = k + 1 .. n /\ k + 1 .. n \in SUBSET (1 .. n)
<1>1. 1 .. k # {} /\ 1 .. k \in SUBSET (1 .. n) /\ k .. n # {} /\ k .. n \in SUBSET (1 .. n)
  OBVIOUS
<1>2. Max(1 .. k) = k
  <2>1. Max(1 .. k) \in 1 .. k /\ k <= Max(1 .. k)
    <3>1. k \in 1 .. k
      OBVIOUS
    <3> QED  BY <1>1, <3>1, MaxIs
  <2> QED  BY <2>1
<1>3. Min(k .. n) = k
  <2>1. Min(k .. n) \in k .. n /\ Min(k .. n) <= k
    <3>1. k \in k .. n /\ k .. n \in SUBSET Nat
      OBVIOUS
    <3> QED  BY <1>1, <3>1, MinIs
  <2> QED  BY <2>1
<1> QED  BY <1>1, <1>2, <1>3

\* What a fold from the left has made of each beginning of the sequence.
Grows(m, n, V, base, step) ==
  /\ m \in [0 .. n -> V]
  /\ m[0] = base
  /\ \A k \in 1 .. n : m[k] = step[k][m[k - 1]]

FoldsLeft(h, n, V, base, step) ==
  /\ h[{}] = base
  /\ \A k \in 1 .. n : h[1 .. k - 1] \in V => h[1 .. k] = step[k][h[1 .. k - 1]]

LEMMA LeftFold ==
  ASSUME NEW n \in Nat, NEW V, NEW base \in V, NEW step \in [1 .. n -> [V -> V]],
         NEW h, FoldsLeft(h, n, V, base, step)
  PROVE  \E m : Grows(m, n, V, base, step) /\ h[1 .. n] = m[n]
<1> USE DEF FoldsLeft
<1> DEFINE A == {k \in 0 .. n : h[1 .. k] \in V}
           m == [k \in 0 .. n |-> h[1 .. k]]
<1>1. 1 .. 0 = {}
  OBVIOUS
<1>2. 0 \in A
  BY <1>1
<1>3. ASSUME NEW k \in 0 .. n - 1, k \in A
      PROVE  k + 1 \in A
  <2>1. k + 1 \in 1 .. n /\ (k + 1) - 1 = k /\ k + 1 \in 0 .. n
    OBVIOUS
  <2>2. h[1 .. k] \in V
    BY <1>3
  <2>3. h[1 .. k + 1] = step[k + 1][h[1 .. k]]
    BY <2>1, <2>2
  <2> QED  BY <2>1, <2>2, <2>3
<1>4. \A k \in 0 .. n : k \in A
  <2> HIDE DEF A
  <2> QED  BY <1>2, <1>3, UpTo
<1>5. m \in [0 .. n -> V]
  BY <1>4
<1>6. m[0] = base
  BY <1>1
<1>7. ASSUME NEW k \in 1 .. n
      PROVE  m[k] = step[k][m[k - 1]]
  <2>1. k \in 0 .. n /\ k - 1 \in 0 .. n
    OBVIOUS
  <2>2. m[k] = h[1 .. k] /\ m[k - 1] = h[1 .. k - 1] /\ h[1 .. k - 1] \in V
    BY <1>4, <2>1
  <2> HIDE DEF m
  <2> QED  BY <2>2
<1>8. h[1 .. n] = m[n]
  OBVIOUS
<1> HIDE DEF m
<1> QED  BY <1>5, <1>6, <1>7, <1>8 DEF Grows

-----------------------------------------------------------------------------
(* The message of a command line. *)

Argument == Seq(STRING \ {Nul})

LEMMA ArgumentIs == ASSUME NEW argument \in Argument
                    PROVE  /\ argument \in Seq(Symbols)
                           /\ \A i \in 1 .. Len(argument) : argument[i] # Nul
<1>1. argument \in Seq(STRING \ {Nul})
  BY DEF Argument
<1>2. STRING \ {Nul} \subseteq Symbols
  BY SymbolsAre
<1> QED  BY <1>1, <1>2, SeqMonotonic

Field(argument) ==
  RemoveDashes(LabelText(argument)) \o <<":">> \o ToUpperCase(ValueText(argument)) \o <<";">>

LEMMA FieldIs ==
  ASSUME NEW argument \in Argument, ValueText(argument) # NULL
  PROVE  /\ RemoveDashes(LabelText(argument)) \in Seq(Symbols)
         /\ ToUpperCase(ValueText(argument)) \in Seq(Symbols)
<1>1. argument \in Seq(Symbols)
  BY ArgumentIs
<1> DEFINE option == Strtok(argument, 1, "=")
           value == Strtok(argument, option.next, "=")
<1>2. option.token \in Seq(Symbols) /\ option.next \in 1 .. Len(argument) + 1
  <2>1. 1 \in 1 .. Len(argument) + 1
    BY <1>1
  <2>2. TokenOK(argument, 1, "=", option)
    BY <1>1, <2>1, StrtokType
  <2> HIDE DEF option
  <2> QED  BY <2>2 DEF TokenOK
<1>3. value.token \in Seq(Symbols)
  <2> HIDE DEF option
  <2>1. TokenOK(argument, option.next, "=", value)
    BY <1>1, <1>2, StrtokType
  <2> HIDE DEF value
  <2> QED  BY <2>1 DEF TokenOK
<1>4. LabelText(argument) = option.token /\ ValueText(argument) = value.token
  BY DEF LabelText, ValueText
<1> HIDE DEF option, value
<1>5. RemoveDashes(LabelText(argument)) \in Seq(Symbols)
  BY <1>2, <1>4 DEF RemoveDashes
<1>6. ToUpperCase(ValueText(argument)) \in Seq(Symbols)
  <2> DEFINE v == ValueText(argument)
  <2>1. v \in Seq(Symbols) /\ v # <<>> /\ Tail(v) \in Seq(Symbols)
    BY <1>3, <1>4, HeadTailProperties DEF NULL
  <2>2. Head(v) \in DOMAIN Upper => Upper[Head(v)] \in Symbols
    BY WordsAssumption, SymbolsAre
  <2> HIDE DEF v
  <2>3. Head(v) \in DOMAIN Upper => <<Upper[Head(v)]>> \o Tail(v) \in Seq(Symbols)
    BY <2>1, <2>2, ConcatIs
  <2>4. ToUpperCase(v) \in Seq(Symbols)
    BY <2>1, <2>3 DEF ToUpperCase
  <2> QED  BY <2>4 DEF v
<1> QED  BY <1>5, <1>6

MessageStep(text, argument) ==
  IF ~IsOption(argument) THEN text ELSE Field(argument) \o text

LEMMA MessageStepType ==
  ASSUME NEW text \in Seq(Symbols), NEW argument \in Argument,
         IsOption(argument) => ValueText(argument) # NULL
  PROVE  MessageStep(text, argument) \in Seq(Symbols)
<1>1. CASE IsOption(argument)
  <2> DEFINE name == RemoveDashes(LabelText(argument))
             value == ToUpperCase(ValueText(argument))
  <2>1. name \in Seq(Symbols) /\ value \in Seq(Symbols)
    BY <1>1, FieldIs
  <2>2. <<":">> \in Seq(Symbols) /\ <<";">> \in Seq(Symbols)
    <3>1. ":" \in Symbols /\ ";" \in Symbols
      BY SymbolsAre DEF Marks
    <3> QED  BY <3>1, OneSymbol
  <2> HIDE DEF name, value
  <2>3. ((name \o <<":">>) \o value) \o <<";">> \in Seq(Symbols)
    <3>1. name \o <<":">> \in Seq(Symbols)
      BY <2>1, <2>2, ConcatIs
    <3>2. (name \o <<":">>) \o value \in Seq(Symbols)
      BY <2>1, <3>1, ConcatIs
    <3> QED  BY <2>2, <3>2, ConcatIs
  <2>4. Field(argument) \in Seq(Symbols)
    BY <2>3 DEF Field, name, value
  <2>5. Field(argument) \o text \in Seq(Symbols)
    BY <2>4, ConcatIs
  <2> QED  BY <2>5, <1>1 DEF MessageStep
<1>2. CASE ~IsOption(argument)
  BY <1>2 DEF MessageStep
<1> QED  BY <1>1, <1>2

\* What Message has made of the first arguments.
Messages(m, arguments) ==
  /\ m \in [0 .. Len(arguments) -> Seq(Symbols)]
  /\ m[0] = <<>>
  /\ \A k \in 1 .. Len(arguments) : m[k] = MessageStep(m[k - 1], arguments[k])
  /\ Message(arguments) = m[Len(arguments)]

LEMMA MessageIs ==
  ASSUME NEW arguments \in Seq(Argument),
         \A i \in DOMAIN arguments :
           IsOption(arguments[i]) => ValueText(arguments[i]) # NULL
  PROVE  \E m : Messages(m, arguments)
<1> DEFINE n == Len(arguments)
           V == Seq(Symbols)
           step == [k \in 1 .. n |-> [v \in V |-> MessageStep(v, arguments[k])]]
           Made(g, s) == IF s = {} THEN <<>> ELSE MessageStep(g[s \ {Max(s)}], arguments[Max(s)])
           h == CHOOSE g : g = [s \in SUBSET (DOMAIN arguments) |-> Made(g, s)]
<1>0. n \in Nat /\ DOMAIN arguments = 1 .. n /\ <<>> \in V
  OBVIOUS
<1>1. ASSUME NEW k \in 1 .. n, NEW v \in V
      PROVE  MessageStep(v, arguments[k]) \in V
  <2>1. arguments[k] \in Argument
    BY <1>0
  <2> QED  BY <1>0, <2>1, MessageStepType
<1>2. step \in [1 .. n -> [V -> V]]
  <2> HIDE DEF n, V
  <2> QED  BY <1>1
<1>3. \A k \in 1 .. n, v \in V : step[k][v] = MessageStep(v, arguments[k])
  <2> HIDE DEF n, V
  <2> QED  OBVIOUS
<1>4. \E g : g = [s \in SUBSET (DOMAIN arguments) |-> Made(g, s)]
  <2>1. PICK g : IsFold(g, 1 .. n, V, <<>>, step, Greatest(n))
    <3> HIDE DEF n, V, step
    <3> QED  BY <1>0, <1>2, EndsArePicked, FoldExists
  <2>2. ASSUME NEW s \in SUBSET (1 .. n)
        PROVE  g[s] = Made(g, s)
    <3>1. CASE s = {}
      BY <2>1, <3>1 DEF IsFold
    <3>2. CASE s # {}
      <4>1. Max(s) \in 1 .. n /\ g[s \ {Max(s)}] \in V
        <5> HIDE DEF n, V, step
        <5> QED  BY <1>0, <2>1, <3>2, MaxIs DEF IsFold
      <4>2. g[s] = step[Max(s)][g[s \ {Max(s)}]]
        <5> HIDE DEF n, V, step
        <5> QED  BY <2>1, <3>2 DEF IsFold, Greatest
      <4> HIDE DEF n, V, step
      <4> QED  BY <1>3, <3>2, <4>1, <4>2
    <3> QED  BY <3>1, <3>2
  <2>3. g = [s \in SUBSET (1 .. n) |-> g[s]]
    <3> HIDE DEF n, V, step
    <3> QED  BY <2>1 DEF IsFold
  <2>4. g = [s \in SUBSET (1 .. n) |-> Made(g, s)]
    <3> HIDE DEF n, V, step, Made
    <3> QED  BY <2>2, <2>3
  <2> QED  BY <1>0, <2>4
<1>5. h = [s \in SUBSET (DOMAIN arguments) |-> Made(h, s)]
  <2> HIDE DEF Made
  <2> QED  BY <1>4
<1>6. Message(arguments) = h[DOMAIN arguments]
  BY DEF Message, FoldLeft, MapThenFoldSet, MessageStep, Field
<1> HIDE DEF h
<1>7. \A s \in SUBSET (1 .. n) : h[s] = Made(h, s)
  <2> HIDE DEF Made
  <2> QED  BY <1>0, <1>5
<1>8. h[{}] = <<>>
  BY <1>7
<1>9. ASSUME NEW k \in 1 .. n, h[1 .. k - 1] \in V
      PROVE  h[1 .. k] = step[k][h[1 .. k - 1]]
  <2>1. h[1 .. k] = MessageStep(h[1 .. k - 1], arguments[k])
    <3> HIDE DEF n
    <3>1. /\ 1 .. k # {} /\ 1 .. k \in SUBSET (1 .. n) /\ Max(1 .. k) = k
          /\ (1 .. k) \ {k} = 1 .. k - 1
      BY <1>0, Interval
    <3> QED  BY <1>7, <3>1
  <2> HIDE DEF n, V, step
  <2> QED  BY <1>3, <1>9, <2>1
<1>10. PICK m : Grows(m, n, V, <<>>, step) /\ h[1 .. n] = m[n]
  <2> HIDE DEF n, V, step
  <2>1. FoldsLeft(h, n, V, <<>>, step)
    BY <1>8, <1>9 DEF FoldsLeft
  <2> QED  BY <1>0, <1>2, <2>1, LeftFold
<1>11. \A k \in 1 .. n : m[k] = MessageStep(m[k - 1], arguments[k])
  <2> TAKE k \in 1 .. n
  <2>1. k - 1 \in 0 .. n
    BY <1>0
  <2> HIDE DEF n, V, step
  <2> QED  BY <1>3, <1>10, <2>1 DEF Grows
<1>12. m \in [0 .. n -> V] /\ m[0] = <<>>
  <2> HIDE DEF n, V, step
  <2> QED  BY <1>10 DEF Grows
<1> QED  BY <1>0, <1>6, <1>10, <1>11, <1>12 DEF Messages

-----------------------------------------------------------------------------
(* The books of a record file. *)

\* Values, and fields, which have no space at either end.
LEMMA ValuesJoin ==
  ASSUME NEW v, v \in ValueTexts, NEW w, w \in ValueTexts
  PROVE  v \o w \in ValueTexts
<1>1. /\ v \in Seq(Symbols) /\ \A i \in 1 .. Len(v) : ~EndsValue(v[i])
      /\ w \in Seq(Symbols) /\ \A i \in 1 .. Len(w) : ~EndsValue(w[i])
  BY DEF ValueTexts
<1> DEFINE vw == v \o w
           n == Len(v)
           m == Len(w)
<1>2. /\ vw \in Seq(Symbols) /\ Len(vw) = n + m /\ n \in Nat /\ m \in Nat
      /\ \A i \in 1 .. n : vw[i] = v[i]
      /\ \A i \in 1 .. m : vw[n + i] = w[i]
  BY <1>1, ConcatIs
<1>3. ASSUME NEW i \in 1 .. n + m
      PROVE  ~EndsValue(vw[i])
  <2> HIDE DEF vw, n, m
  <2>1. CASE i \in 1 .. n
    BY <1>1, <1>2, <2>1 DEF n
  <2>2. CASE i \notin 1 .. n
    <3>1. i - n \in 1 .. m /\ n + (i - n) = i
      BY <1>2, <2>2
    <3>2. vw[i] = w[i - n]
      BY <1>2, <3>1
    <3> QED  BY <1>1, <3>1, <3>2 DEF m
  <2> QED  BY <2>1, <2>2
<1> HIDE DEF vw, n, m
<1>4. vw \in ValueTexts
  BY <1>2, <1>3 DEF ValueTexts
<1> QED  BY <1>4 DEF vw

Trimmed == {t \in ValueTexts : t # <<>> => ~IsSpace(t[1]) /\ ~IsSpace(t[Len(t)])}

LEMMA RemoveSpacesIs ==
  ASSUME NEW text, text \in ValueTexts
  PROVE  /\ RemoveSpaces(text) \in Trimmed
         /\ text \in Trimmed => RemoveSpaces(text) = text
<1>1. /\ text \in Seq(Symbols) /\ Len(text) \in Nat
      /\ \A i \in 1 .. Len(text) : ~EndsValue(text[i])
  BY DEF ValueTexts
<1> DEFINE I == {i \in 1 .. Len(text) : ~IsSpace(text[i])}
           first == Min(I)
           last == Max(I)
<1>2. RemoveSpaces(text) = IF I = {} THEN <<>> ELSE SubSeq(text, first, last)
  <2>1. I # {} => Min(I) # 0
    <3>1. I \in SUBSET Nat /\ 0 \notin I
      BY <1>1
    <3> HIDE DEF I
    <3> QED  BY <3>1, MinIs
  <2> QED  BY <2>1 DEF RemoveSpaces, SelectInSeq, SelectLastInSeq
<1>3. CASE I = {}
  <2>1. RemoveSpaces(text) = <<>>
    BY <1>2, <1>3
  <2>2. <<>> \in Trimmed
    BY DEF Trimmed, ValueTexts
  <2>3. text \in Trimmed => text = <<>>
    <3> SUFFICES ASSUME text \in Trimmed, text # <<>> PROVE FALSE
      OBVIOUS
    <3>1. 1 \in 1 .. Len(text)
      BY <1>1
    <3>2. 1 \in I
      BY <3>1 DEF Trimmed
    <3> QED  BY <1>3, <3>2
  <2> QED  BY <2>1, <2>2, <2>3
<1>4. CASE I # {}
  <2>1. I \in SUBSET Nat /\ I \in SUBSET (1 .. Len(text))
    BY <1>1
  <2>2. first \in I /\ (\A i \in I : first <= i) /\ last \in I /\ \A i \in I : i <= last
    <3> HIDE DEF I
    <3> QED  BY <1>1, <1>4, <2>1, MinIs, MaxIs
  <2>3. /\ first \in 1 .. Len(text) /\ last \in 1 .. Len(text) /\ first <= last
        /\ ~IsSpace(text[first]) /\ ~IsSpace(text[last])
    <3> HIDE DEF first, last
    <3> QED  BY <2>2
  <2> DEFINE cut == SubSeq(text, first, last)
  <2>4. /\ cut \in Seq(Symbols) /\ Len(cut) = last - first + 1
        /\ \A i \in 1 .. last - first + 1 : cut[i] = text[first + i - 1]
    <3>1. \A i \in first .. last : text[i] \in Symbols
      <4> HIDE DEF first, last
      <4> QED  BY <1>1, <2>3
    <3> HIDE DEF first, last, I
    <3> QED  BY <2>3, <3>1, SubSeqProperties
  <2> HIDE DEF first, last, I, cut
  <2>5. ASSUME NEW i \in 1 .. Len(cut)
        PROVE  ~EndsValue(cut[i])
    <3>1. first + i - 1 \in 1 .. Len(text) /\ cut[i] = text[first + i - 1]
      BY <1>1, <2>3, <2>4
    <3> QED  BY <1>1, <3>1
  <2>6. ~IsSpace(cut[1]) /\ ~IsSpace(cut[Len(cut)])
    <3>1. /\ 1 \in 1 .. last - first + 1 /\ first + 1 - 1 = first
          /\ Len(cut) \in 1 .. last - first + 1 /\ first + Len(cut) - 1 = last
      BY <2>3, <2>4
    <3>2. cut[1] = text[first] /\ cut[Len(cut)] = text[last]
      BY <2>4, <3>1
    <3> QED  BY <2>3, <3>2
  <2>7. cut \in Trimmed
    BY <2>4, <2>5, <2>6 DEF Trimmed, ValueTexts
  <2>8. text \in Trimmed => cut = text
    <3> SUFFICES ASSUME text \in Trimmed PROVE cut = text
      OBVIOUS
    <3>1. text # <<>> /\ 1 \in 1 .. Len(text) /\ Len(text) \in 1 .. Len(text)
      BY <1>1, <2>3
    <3>2. 1 \in I /\ Len(text) \in I
      BY <3>1 DEF Trimmed, I
    <3>3. first = 1 /\ last = Len(text)
      BY <2>2, <2>3, <3>2
    <3> QED  BY <1>1, <3>3, SubSeqFull DEF cut
  <2> QED  BY <1>2, <1>4, <2>7, <2>8 DEF cut
<1> QED  BY <1>3, <1>4

Books == [Labels -> Trimmed]

LEMMA EmptyBookIs == EmptyBook \in Books
<1>1. <<>> \in Trimmed
  BY DEF Trimmed, ValueTexts
<1> QED  BY <1>1 DEF EmptyBook, Books

\* One pair of a line.
TokenizeStep(b, pair) ==
  [b EXCEPT ![LabelOf(pair.label)] = RemoveSpaces(@ \o pair.value)]

LEMMA TokenizeStepType ==
  ASSUME NEW b \in Books, NEW pair \in AllPairs
  PROVE  TokenizeStep(b, pair) \in Books
<1>1. pair.value \in ValueTexts
  BY DEF AllPairs
<1>2. \A f \in Labels : b[f] \in Trimmed /\ b[f] \in ValueTexts
  BY DEF Books, Trimmed
<1>3. \A f \in Labels : RemoveSpaces(b[f] \o pair.value) \in Trimmed
  BY <1>1, <1>2, ValuesJoin, RemoveSpacesIs
<1> QED  BY <1>2, <1>3 DEF TokenizeStep, Books

LEMMA PairsAreTyped ==
  ASSUME NEW text \in Seq(Symbols)
  PROVE  Pairs(text) \in Seq(AllPairs)
<1>1. PICK f : /\ \A p \in 1 .. Len(text) + 1 : f[p] = PairsFrom(f, text, p)
               /\ Pairs(text) = f[1]
  BY PairsIs
<1> DEFINE N == Len(text)
           A == {n \in 0 .. N : \A p \in N + 1 - n .. N + 1 : f[p] \in Seq(AllPairs)}
<1>0. N \in Nat
  OBVIOUS
<1>2. ASSUME NEW p \in 1 .. N + 1,
             \A q \in p + 1 .. N + 1 : f[q] \in Seq(AllPairs)
      PROVE  f[p] \in Seq(AllPairs)
  <2> DEFINE next == ValueAt(text, p).next
             pair == PairAt(text, p)
  <2>1. pair \in AllPairs /\ next \in p .. N + 1 /\ (~Over(text, p) => next > p)
    BY PairAtIs
  <2>2. f[p] = IF Over(text, p) THEN <<>> ELSE <<pair>> \o f[next]
    BY <1>1 DEF PairsFrom
  <2> HIDE DEF next, pair, N
  <2>3. CASE ~Over(text, p)
    <3>1. f[next] \in Seq(AllPairs)
      BY <1>0, <1>2, <2>1, <2>3
    <3>2. <<pair>> \in Seq(AllPairs)
      BY <2>1
    <3>3. <<pair>> \o f[next] \in Seq(AllPairs)
      BY <3>1, <3>2, ConcatProperties
    <3> QED  BY <2>2, <2>3, <3>3
  <2> QED  BY <2>2, <2>3
<1>3. 0 \in A
  BY <1>0, <1>2
<1>4. ASSUME NEW n \in 0 .. N - 1, n \in A
      PROVE  n + 1 \in A
  <2>1. /\ n \in Nat /\ N + 1 - (n + 1) \in 1 .. N + 1 /\ n + 1 \in 0 .. N
        /\ N + 1 - (n + 1) = N - n
    BY <1>0
  <2>2. f[N - n] \in Seq(AllPairs)
    <3>1. \A q \in N - n + 1 .. N + 1 : f[q] \in Seq(AllPairs)
      BY <1>0, <1>4, <2>1
    <3> QED  BY <1>2, <2>1, <3>1
  <2>3. \A p \in N - n .. N + 1 : p = N - n \/ p \in N + 1 - n .. N + 1
    BY <1>0, <2>1
  <2> QED  BY <1>4, <2>1, <2>2, <2>3
<1>5. \A n \in 0 .. N : n \in A
  <2> HIDE DEF A, N
  <2> QED  BY <1>0, <1>3, <1>4, UpTo
<1>6. f[1] \in Seq(AllPairs)
  <2>1. N \in 0 .. N /\ 1 \in N + 1 - N .. N + 1
    BY <1>0
  <2> QED  BY <1>5, <2>1
<1> QED  BY <1>1, <1>6

\* What tokenize has made of a line after each of its pairs.
Tokenized(m, line) ==
  /\ m \in [0 .. Len(Pairs(line)) -> Books]
  /\ m[0] = EmptyBook
  /\ \A k \in 1 .. Len(Pairs(line)) : m[k] = TokenizeStep(m[k - 1], Pairs(line)[k])
  /\ Tokenize(line) = m[Len(Pairs(line))]

LEMMA TokenizedExist ==
  ASSUME NEW line \in Seq(Symbols)
  PROVE  \E m : Tokenized(m, line)
<1> DEFINE s == Pairs(line)
           n == Len(s)
           V == Books
           step == [k \in 1 .. n |-> [v \in V |-> TokenizeStep(v, s[k])]]
           Made(g, t) == IF t = {} THEN EmptyBook ELSE TokenizeStep(g[t \ {Max(t)}], s[Max(t)])
           h == CHOOSE g : g = [t \in SUBSET (DOMAIN s) |-> Made(g, t)]
<1>0. s \in Seq(AllPairs) /\ n \in Nat /\ DOMAIN s = 1 .. n /\ EmptyBook \in V
  BY PairsAreTyped, LenProperties, EmptyBookIs
<1>1. \A k \in 1 .. n, v \in V : TokenizeStep(v, s[k]) \in V
  <2> HIDE DEF s
  <2>1. \A k \in 1 .. n : s[k] \in AllPairs
    BY <1>0
  <2> QED  BY <2>1, TokenizeStepType
<1>2. step \in [1 .. n -> [V -> V]]
  <2> HIDE DEF n, V
  <2> QED  BY <1>1
<1>3. \A k \in 1 .. n, v \in V : step[k][v] = TokenizeStep(v, s[k])
  <2> HIDE DEF n, V
  <2> QED  OBVIOUS
<1>4. \E g : g = [t \in SUBSET (DOMAIN s) |-> Made(g, t)]
  <2>1. PICK g : IsFold(g, 1 .. n, V, EmptyBook, step, Greatest(n))
    <3> HIDE DEF n, V, step
    <3> QED  BY <1>0, <1>2, EndsArePicked, FoldExists
  <2>2. ASSUME NEW t \in SUBSET (1 .. n)
        PROVE  g[t] = Made(g, t)
    <3> HIDE DEF n, V, step, s
    <3>1. CASE t = {}
      BY <2>1, <3>1 DEF IsFold
    <3>2. CASE t # {}
      <4>1. Max(t) \in 1 .. n /\ g[t \ {Max(t)}] \in V
        BY <1>0, <2>1, <3>2, MaxIs DEF IsFold
      <4>2. g[t] = step[Max(t)][g[t \ {Max(t)}]]
        BY <2>1, <3>2 DEF IsFold, Greatest
      <4> QED  BY <1>3, <3>2, <4>1, <4>2
    <3> QED  BY <3>1, <3>2
  <2>3. g = [t \in SUBSET (1 .. n) |-> g[t]]
    <3> HIDE DEF n, V, step
    <3> QED  BY <2>1 DEF IsFold
  <2>4. g = [t \in SUBSET (1 .. n) |-> Made(g, t)]
    <3> HIDE DEF n, V, step, Made
    <3> QED  BY <2>2, <2>3
  <2> HIDE DEF s, Made
  <2> QED  BY <1>0, <2>4
<1>5. h = [t \in SUBSET (DOMAIN s) |-> Made(h, t)]
  <2> HIDE DEF Made
  <2> QED  BY <1>4
<1>6. Tokenize(line) = h[DOMAIN s]
  BY DEF Tokenize, FoldLeft, MapThenFoldSet, TokenizeStep
<1> HIDE DEF h, s
<1>7. \A t \in SUBSET (1 .. n) : h[t] = Made(h, t)
  <2> HIDE DEF Made
  <2> QED  BY <1>0, <1>5
<1>8. h[{}] = EmptyBook
  BY <1>7
<1>9. ASSUME NEW k \in 1 .. n, h[1 .. k - 1] \in V
      PROVE  h[1 .. k] = step[k][h[1 .. k - 1]]
  <2>1. h[1 .. k] = TokenizeStep(h[1 .. k - 1], s[k])
    <3> HIDE DEF n
    <3>1. /\ 1 .. k # {} /\ 1 .. k \in SUBSET (1 .. n) /\ Max(1 .. k) = k
          /\ (1 .. k) \ {k} = 1 .. k - 1
      BY <1>0, Interval
    <3> QED  BY <1>7, <3>1
  <2> HIDE DEF n, V, step
  <2> QED  BY <1>3, <1>9, <2>1
<1> HIDE DEF n, V, step
<1>10. PICK m : Grows(m, n, V, EmptyBook, step) /\ h[1 .. n] = m[n]
  <2>1. FoldsLeft(h, n, V, EmptyBook, step)
    BY <1>8, <1>9 DEF FoldsLeft
  <2> QED  BY <1>0, <1>2, <2>1, LeftFold
<1>11. m \in [0 .. n -> V] /\ m[0] = EmptyBook
  BY <1>10 DEF Grows
<1>12. \A k \in 1 .. n : m[k] = TokenizeStep(m[k - 1], s[k])
  <2> TAKE k \in 1 .. n
  <2>1. k - 1 \in 0 .. n
    BY <1>0
  <2> QED  BY <1>3, <1>10, <2>1 DEF Grows
<1>13. Tokenize(line) = m[n]
  BY <1>0, <1>6, <1>10
<1> QED  BY <1>11, <1>12, <1>13 DEF Tokenized, n, s, V

LEMMA TokenizeType ==
  ASSUME NEW line \in Seq(Symbols)
  PROVE  Tokenize(line) \in Books
<1>1. PICK m : Tokenized(m, line)
  BY TokenizedExist
<1>2. Len(Pairs(line)) \in Nat
  BY PairsAreTyped
<1> QED  BY <1>1, <1>2 DEF Tokenized

\* Lists of books without a copy.
Shelves == {list \in Seq(Books) :
              \A i, j \in 1 .. Len(list) : i # j => list[i] # list[j]}

ReadStep(list, line) ==
  IF line = <<Newline>> \/ IsPresent(list, Tokenize(line)) THEN list
  ELSE AddNode(list, Tokenize(line))

\* A book in front of a list.
LEMMA AddNodeIs ==
  ASSUME NEW V, NEW list \in Seq(V), NEW b \in V
  PROVE  /\ AddNode(list, b) \in Seq(V) /\ Len(AddNode(list, b)) = Len(list) + 1
         /\ AddNode(list, b)[1] = b
         /\ \A i \in 1 .. Len(list) : AddNode(list, b)[i + 1] = list[i]
<1>1. <<b>> \in Seq(V) /\ Len(<<b>>) = 1 /\ <<b>>[1] = b
  OBVIOUS
<1> DEFINE head == <<b>>
<1>2. /\ head \o list \in Seq(V) /\ Len(head \o list) = 1 + Len(list)
      /\ \A i \in 1 .. 1 + Len(list) :
           (head \o list)[i] = IF i <= 1 THEN head[i] ELSE list[i - 1]
  <2> HIDE DEF head
  <2> QED  BY <1>1, ConcatProperties DEF head
<1>3. AddNode(list, b) = head \o list
  BY DEF AddNode
<1>4. Len(list) \in Nat
  OBVIOUS
<1>5. 1 \in 1 .. 1 + Len(list)
  BY <1>4
<1>6. \A i \in 1 .. Len(list) :
        i + 1 \in 1 .. 1 + Len(list) /\ ~(i + 1 <= 1) /\ (i + 1) - 1 = i
  BY <1>4
<1> DEFINE all == head \o list
<1> HIDE DEF head, all
<1>7. \A i \in 1 .. Len(list) : all[i + 1] = list[i]
  BY <1>2, <1>6 DEF all
<1>8. all[1] = b
  BY <1>1, <1>2, <1>5 DEF all, head
<1> QED  BY <1>2, <1>3, <1>4, <1>7, <1>8 DEF all

LEMMA ReadStepType ==
  ASSUME NEW list \in Shelves, NEW line \in Seq(Symbols)
  PROVE  ReadStep(list, line) \in Shelves
<1> DEFINE b == Tokenize(line)
           more == AddNode(list, b)
<1>1. list \in Seq(Books) /\ \A i, j \in 1 .. Len(list) : i # j => list[i] # list[j]
  BY DEF Shelves
<1>2. b \in Books
  BY TokenizeType
<1> HIDE DEF b
<1>3. CASE ~IsPresent(list, b)
  <2>1. \A i \in 1 .. Len(list) : list[i] # b
    BY <1>1, <1>3, LenProperties DEF IsPresent, ToSet
  <2>2. /\ more \in Seq(Books) /\ Len(more) = Len(list) + 1 /\ more[1] = b
        /\ \A i \in 1 .. Len(list) : more[i + 1] = list[i]
    BY <1>1, <1>2, AddNodeIs
  <2> HIDE DEF more
  <2>3. ASSUME NEW i \in 1 .. Len(more), NEW j \in 1 .. Len(more), i # j
        PROVE  more[i] # more[j]
    <3>0. Len(list) \in Nat
      BY <1>1
    <3>1. \A k \in 1 .. Len(more) :
            k # 1 => k - 1 \in 1 .. Len(list) /\ more[k] = list[k - 1]
      <4> TAKE k \in 1 .. Len(more)
      <4>1. k # 1 => k - 1 \in 1 .. Len(list) /\ (k - 1) + 1 = k
        BY <2>2, <3>0
      <4> QED  BY <2>2, <4>1
    <3>2. CASE i = 1
      BY <2>1, <2>2, <2>3, <3>1, <3>2
    <3>3. CASE j = 1
      BY <2>1, <2>2, <2>3, <3>1, <3>3
    <3>4. CASE i # 1 /\ j # 1
      <4>1. i - 1 # j - 1
        BY <2>2, <2>3, <3>0
      <4> QED  BY <1>1, <3>1, <3>4, <4>1
    <3> QED  BY <3>2, <3>3, <3>4
  <2>4. more \in Shelves
    BY <2>2, <2>3 DEF Shelves
  <2> QED  BY <2>4 DEF ReadStep, more, b
<1>4. CASE IsPresent(list, b)
  BY <1>4 DEF ReadStep, b
<1> QED  BY <1>3, <1>4

\* The list that main has made of the lines of a file, after each of them.
Reads(m, lines) ==
  /\ m \in [0 .. Len(lines) -> Shelves]
  /\ m[0] = <<>>
  /\ \A k \in 1 .. Len(lines) : m[k] = ReadStep(m[k - 1], lines[k])
  /\ ReadRecords(lines) = m[Len(lines)]

LEMMA ReadsExist ==
  ASSUME NEW lines \in Seq(Seq(Symbols))
  PROVE  \E m : Reads(m, lines)
<1> DEFINE s == lines
           n == Len(s)
           V == Shelves
           step == [k \in 1 .. n |-> [v \in V |-> ReadStep(v, s[k])]]
           Made(g, t) == IF t = {} THEN <<>> ELSE ReadStep(g[t \ {Max(t)}], s[Max(t)])
           h == CHOOSE g : g = [t \in SUBSET (DOMAIN s) |-> Made(g, t)]
<1>0. s \in Seq(Seq(Symbols)) /\ n \in Nat /\ DOMAIN s = 1 .. n /\ <<>> \in V
  BY LenProperties DEF Shelves
<1>1. \A k \in 1 .. n, v \in V : ReadStep(v, s[k]) \in V
  <2> HIDE DEF s
  <2>1. \A k \in 1 .. n : s[k] \in Seq(Symbols)
    BY <1>0
  <2> QED  BY <2>1, ReadStepType
<1>2. step \in [1 .. n -> [V -> V]]
  <2> HIDE DEF n, V
  <2> QED  BY <1>1
<1>3. \A k \in 1 .. n, v \in V : step[k][v] = ReadStep(v, s[k])
  <2> HIDE DEF n, V
  <2> QED  OBVIOUS
<1>4. \E g : g = [t \in SUBSET (DOMAIN s) |-> Made(g, t)]
  <2>1. PICK g : IsFold(g, 1 .. n, V, <<>>, step, Greatest(n))
    <3> HIDE DEF n, V, step
    <3> QED  BY <1>0, <1>2, EndsArePicked, FoldExists
  <2>2. ASSUME NEW t \in SUBSET (1 .. n)
        PROVE  g[t] = Made(g, t)
    <3> HIDE DEF n, V, step, s
    <3>1. CASE t = {}
      BY <2>1, <3>1 DEF IsFold
    <3>2. CASE t # {}
      <4>1. Max(t) \in 1 .. n /\ g[t \ {Max(t)}] \in V
        BY <1>0, <2>1, <3>2, MaxIs DEF IsFold
      <4>2. g[t] = step[Max(t)][g[t \ {Max(t)}]]
        BY <2>1, <3>2 DEF IsFold, Greatest
      <4> QED  BY <1>3, <3>2, <4>1, <4>2
    <3> QED  BY <3>1, <3>2
  <2>3. g = [t \in SUBSET (1 .. n) |-> g[t]]
    <3> HIDE DEF n, V, step
    <3> QED  BY <2>1 DEF IsFold
  <2>4. g = [t \in SUBSET (1 .. n) |-> Made(g, t)]
    <3> HIDE DEF n, V, step, Made
    <3> QED  BY <2>2, <2>3
  <2> HIDE DEF s, Made
  <2> QED  BY <1>0, <2>4
<1>5. h = [t \in SUBSET (DOMAIN s) |-> Made(h, t)]
  <2> HIDE DEF Made
  <2> QED  BY <1>4
<1>6. ReadRecords(lines) = h[DOMAIN s]
  BY DEF ReadRecords, FoldLeft, MapThenFoldSet, ReadStep
<1> HIDE DEF h, s
<1>7. \A t \in SUBSET (1 .. n) : h[t] = Made(h, t)
  <2> HIDE DEF Made
  <2> QED  BY <1>0, <1>5
<1>8. h[{}] = <<>>
  BY <1>7
<1>9. ASSUME NEW k \in 1 .. n, h[1 .. k - 1] \in V
      PROVE  h[1 .. k] = step[k][h[1 .. k - 1]]
  <2>1. h[1 .. k] = ReadStep(h[1 .. k - 1], s[k])
    <3> HIDE DEF n
    <3>1. /\ 1 .. k # {} /\ 1 .. k \in SUBSET (1 .. n) /\ Max(1 .. k) = k
          /\ (1 .. k) \ {k} = 1 .. k - 1
      BY <1>0, Interval
    <3> QED  BY <1>7, <3>1
  <2> HIDE DEF n, V, step
  <2> QED  BY <1>3, <1>9, <2>1
<1> HIDE DEF n, V, step
<1>10. PICK m : Grows(m, n, V, <<>>, step) /\ h[1 .. n] = m[n]
  <2>1. FoldsLeft(h, n, V, <<>>, step)
    BY <1>8, <1>9 DEF FoldsLeft
  <2> QED  BY <1>0, <1>2, <2>1, LeftFold
<1>11. m \in [0 .. n -> V] /\ m[0] = <<>>
  BY <1>10 DEF Grows
<1>12. \A k \in 1 .. n : m[k] = ReadStep(m[k - 1], s[k])
  <2> TAKE k \in 1 .. n
  <2>1. k - 1 \in 0 .. n
    BY <1>0
  <2> QED  BY <1>3, <1>10, <2>1 DEF Grows
<1>13. ReadRecords(lines) = m[n]
  BY <1>0, <1>6, <1>10
<1> QED  BY <1>11, <1>12, <1>13 DEF Reads, n, s, V

\* A file whose lines are not all blank has a first book, and no book twice.
LEMMA ReadRecordsIs ==
  ASSUME NEW lines \in Seq(Seq(Symbols))
  PROVE  /\ ReadRecords(lines) \in Shelves
         /\ \A i \in 1 .. Len(lines) : lines[i] # <<Newline>> =>
              \E j \in 1 .. Len(ReadRecords(lines)) :
                ReadRecords(lines)[j] = Tokenize(lines[i])
<1>1. PICK m : Reads(m, lines)
  BY ReadsExist
<1> DEFINE n == Len(lines)
           Holds(list, b) == \E j \in 1 .. Len(list) : list[j] = b
           A == {k \in 0 .. n : \A i \in 1 .. k :
                   lines[i] # <<Newline>> => Holds(m[k], Tokenize(lines[i]))}
<1>2. /\ n \in Nat /\ m \in [0 .. n -> Shelves]
      /\ \A k \in 1 .. n : m[k] = ReadStep(m[k - 1], lines[k])
      /\ ReadRecords(lines) = m[n]
  BY <1>1 DEF Reads
<1>3. 0 \in A
  BY <1>2
<1>4. ASSUME NEW k \in 0 .. n - 1, k \in A
      PROVE  k + 1 \in A
  <2> DEFINE list == m[k]
             more == m[k + 1]
             line == lines[k + 1]
  <2>1. /\ k + 1 \in 1 .. n /\ k + 1 \in 0 .. n /\ (k + 1) - 1 = k
        /\ k \in 0 .. n /\ k \in Nat
    BY <1>2
  <2>2. /\ list \in Seq(Books) /\ line \in Seq(Symbols) /\ more = ReadStep(list, line)
    <3>1. m[k] \in Shelves
      BY <1>2, <2>1
    <3>2. m[k + 1] = ReadStep(m[k], lines[k + 1])
      BY <1>2, <2>1
    <3>3. lines[k + 1] \in Seq(Symbols)
      BY <2>1
    <3>4. m[k] \in Seq(Books)
      BY <3>1 DEF Shelves
    <3> QED  BY <3>2, <3>3, <3>4
  <2>3. Tokenize(line) \in Books
    <3> HIDE DEF line
    <3> QED  BY <2>2, TokenizeType
  <2> DEFINE b == Tokenize(line)
  <2>7. b \in Books /\ list \in Seq(Books)
    BY <2>2, <2>3
  <2>8. /\ Len(AddNode(list, b)) = Len(list) + 1 /\ Len(list) \in Nat
        /\ AddNode(list, b)[1] = b
        /\ \A i \in 1 .. Len(list) : AddNode(list, b)[i + 1] = list[i]
    <3> HIDE DEF b, list, more, line, n, A, Holds
    <3>1. Len(list) \in Nat
      BY <2>7
    <3> QED  BY <2>7, <3>1, AddNodeIs
  <2>4. \A c : Holds(list, c) => Holds(more, c)
    <3> HIDE DEF list, more, b
    <3>1. CASE more = list
      BY <3>1
    <3>2. CASE more = AddNode(list, b)
      <4>1. /\ Len(more) = Len(list) + 1 /\ Len(list) \in Nat
            /\ \A i \in 1 .. Len(list) : more[i + 1] = list[i]
        BY <2>8, <3>2
      <4> SUFFICES ASSUME NEW c, NEW j \in 1 .. Len(list), list[j] = c
                   PROVE  Holds(more, c)
        OBVIOUS
      <4>2. j + 1 \in 1 .. Len(more)
        BY <4>1
      <4> QED  BY <4>1, <4>2
    <3> QED  BY <2>2, <3>1, <3>2 DEF ReadStep, b
  <2>5. line # <<Newline>> => Holds(more, b)
    <3> SUFFICES ASSUME line # <<Newline>> PROVE Holds(more, b)
      OBVIOUS
    <3> HIDE DEF list, more, b, line
    <3>1. CASE IsPresent(list, b)
      <4>1. Holds(list, b)
        BY <2>2, <3>1, LenProperties DEF IsPresent, ToSet
      <4> QED  BY <2>4, <4>1
    <3>2. CASE ~IsPresent(list, b)
      <4>1. more = AddNode(list, b)
        BY <2>2, <3>2 DEF ReadStep, b
      <4>2. Len(more) = Len(list) + 1 /\ Len(list) \in Nat /\ more[1] = b
        BY <2>8, <4>1
      <4>3. 1 \in 1 .. Len(more)
        BY <4>2
      <4> QED  BY <4>2, <4>3
    <3> QED  BY <3>1, <3>2
  <2>6. ASSUME NEW i \in 1 .. k + 1, lines[i] # <<Newline>>
        PROVE  Holds(more, Tokenize(lines[i]))
    <3>1. CASE i = k + 1
      <4> HIDE DEF Holds
      <4> QED  BY <2>5, <2>6, <3>1
    <3>2. CASE i # k + 1
      <4>1. i \in 1 .. k
        BY <2>1, <3>2
      <4>2. Holds(list, Tokenize(lines[i]))
        <5> HIDE DEF Holds
        <5> QED  BY <1>4, <2>6, <4>1
      <4> HIDE DEF Holds, more, list
      <4> QED  BY <2>4, <4>2
    <3> QED  BY <3>1, <3>2
  <2> HIDE DEF Holds
  <2> QED  BY <2>1, <2>6
<1>5. n \in A
  <2> HIDE DEF A, n
  <2>1. \A k \in 0 .. n : k \in A
    BY <1>2, <1>3, <1>4, UpTo
  <2> QED  BY <1>2, <2>1
<1>6. m[n] \in Shelves
  BY <1>2
<1>7. \A i \in 1 .. n : lines[i] # <<Newline>> => Holds(m[n], Tokenize(lines[i]))
  <2> HIDE DEF Holds
  <2> QED  BY <1>5
<1> QED  BY <1>2, <1>6, <1>7

-----------------------------------------------------------------------------
(* The text of a book. *)

LEMMA LabelsAre ==
  /\ LabelOrder \in Seq(Labels) /\ Len(LabelOrder) = 11
  /\ \A k \in 1 .. 11 : LabelOrder[k] \in Labels
  /\ \A f \in Labels : \E k \in 1 .. 11 : f = LabelOrder[k]
  /\ \A j, k \in 1 .. 11 : LabelOrder[j] = LabelOrder[k] => j = k
  /\ LabelOrder[11] = "prestito"
<1>1. Len(LabelOrder) = 11 /\ DOMAIN LabelOrder = 1 .. 11 /\ LabelOrder[11] = "prestito"
  BY DEF LabelOrder
<1>2. /\ \A k \in 1 .. 11 : LabelOrder[k] \in Labels
      /\ \A f \in Labels : \E k \in 1 .. 11 : f = LabelOrder[k]
  BY <1>1 DEF Labels, ToSet
<1>3. \A j, k \in 1 .. 11 : LabelOrder[j] = LabelOrder[k] => j = k
  BY DEF LabelOrder
<1>4. LabelOrder \in Seq(Labels)
  <2>1. LabelOrder = [k \in 1 .. 11 |-> LabelOrder[k]]
    BY DEF LabelOrder
  <2> QED  BY <1>2, <2>1, IsASeq
<1> QED  BY <1>1, <1>2, <1>3, <1>4

\* What a fold from the right has made of each end of the sequence.
Shrinks(m, n, V, base, step) ==
  /\ m \in [1 .. n + 1 -> V]
  /\ m[n + 1] = base
  /\ \A k \in 1 .. n : m[k] = step[k][m[k + 1]]

FoldsRight(h, n, V, base, step) ==
  /\ h[{}] = base
  /\ \A k \in 1 .. n : h[k + 1 .. n] \in V => h[k .. n] = step[k][h[k + 1 .. n]]

LEMMA RightFold ==
  ASSUME NEW n \in Nat, NEW V, NEW base \in V, NEW step \in [1 .. n -> [V -> V]],
         NEW h, FoldsRight(h, n, V, base, step)
  PROVE  \E m : Shrinks(m, n, V, base, step) /\ h[1 .. n] = m[1]
<1> USE DEF FoldsRight
<1> DEFINE A == {k \in 0 .. n : h[n + 1 - k .. n] \in V}
           m == [k \in 1 .. n + 1 |-> h[k .. n]]
<1>1. n + 1 .. n = {}
  OBVIOUS
<1>2. 0 \in A
  BY <1>1
<1>3. ASSUME NEW k \in 0 .. n - 1, k \in A
      PROVE  k + 1 \in A
  <2>1. n - k \in 1 .. n /\ n + 1 - (k + 1) = n - k /\ n + 1 - k = n - k + 1 /\ k + 1 \in 0 .. n
    OBVIOUS
  <2>2. h[n - k + 1 .. n] \in V
    BY <1>3, <2>1
  <2>3. h[n - k .. n] = step[n - k][h[n - k + 1 .. n]]
    BY <2>1, <2>2
  <2>4. h[n - k .. n] \in V
    BY <2>1, <2>2, <2>3
  <2> QED  BY <2>1, <2>4
<1>4. \A k \in 0 .. n : k \in A
  <2> HIDE DEF A
  <2> QED  BY <1>2, <1>3, UpTo
<1>5. \A k \in 1 .. n + 1 : h[k .. n] \in V
  <2> TAKE k \in 1 .. n + 1
  <2>1. n + 1 - k \in 0 .. n /\ n + 1 - (n + 1 - k) = k
    OBVIOUS
  <2> QED  BY <1>4, <2>1
<1>6. m \in [1 .. n + 1 -> V]
  BY <1>5
<1>7. m[n + 1] = base
  BY <1>1
<1>8. ASSUME NEW k \in 1 .. n
      PROVE  m[k] = step[k][m[k + 1]]
  <2>1. k \in 1 .. n + 1 /\ k + 1 \in 1 .. n + 1
    OBVIOUS
  <2>2. m[k] = h[k .. n] /\ m[k + 1] = h[k + 1 .. n] /\ h[k + 1 .. n] \in V
    BY <1>5, <2>1
  <2> HIDE DEF m
  <2> QED  BY <2>2
<1>9. h[1 .. n] = m[1]
  OBVIOUS
<1> HIDE DEF m
<1> QED  BY <1>6, <1>7, <1>8, <1>9 DEF Shrinks

\* One field of a record.
PrintStep(b, f, text) == <<f, ":">> \o b[f] \o <<";">> \o text

LEMMA TwoSymbols ==
  ASSUME NEW c \in Symbols, NEW d \in Symbols
  PROVE  <<c, d>> \in Seq(Symbols) /\ <<c, d>> = <<c>> \o <<d>>
<1> DEFINE s == <<c, d>>
           t == <<c>> \o <<d>>
<1>1. s \in Seq(Symbols) /\ Len(s) = 2 /\ s[1] = c /\ s[2] = d
  OBVIOUS
<1>2. /\ t \in Seq(Symbols) /\ Len(t) = 2
      /\ t[1] = c /\ t[2] = d
  <2> DEFINE s1 == <<c>>
             s2 == <<d>>
  <2>1. /\ s1 \in Seq(Symbols) /\ Len(s1) = 1 /\ s1[1] = c
        /\ s2 \in Seq(Symbols) /\ Len(s2) = 1 /\ s2[1] = d
    BY OneSymbol
  <2> HIDE DEF s1, s2
  <2>2. 1 \in 1 .. Len(s1) /\ 1 \in 1 .. Len(s2) /\ Len(s1) + 1 = 2
    BY <2>1
  <2>3. /\ s1 \o s2 \in Seq(Symbols) /\ Len(s1 \o s2) = 2
        /\ (s1 \o s2)[1] = c /\ (s1 \o s2)[2] = d
    BY <2>1, <2>2, ConcatIs
  <2> QED  BY <2>3 DEF s1, s2
<1> HIDE DEF s, t
<1>3. \A i \in 1 .. 2 : s[i] = t[i]
  BY <1>1, <1>2
<1>4. s = t
  BY <1>1, <1>2, <1>3, SeqEqual
<1> QED  BY <1>1, <1>4 DEF s, t

LEMMA MarkIs ==
  /\ <<":">> \in Seq(Symbols) /\ <<";">> \in Seq(Symbols) /\ <<Newline>> \in Seq(Symbols)
  /\ ":" \in Symbols /\ ";" \in Symbols /\ Newline \in Symbols
  /\ \A f \in Symbols : <<f, ":">> \in Seq(Symbols) /\ <<f, ":">> = <<f>> \o <<":">>
<1>1. ":" \in Symbols /\ ";" \in Symbols /\ Newline \in Symbols
  BY SymbolsAre DEF Marks, Newline
<1>2. \A f \in Symbols : <<f, ":">> \in Seq(Symbols) /\ <<f, ":">> = <<f>> \o <<":">>
  BY <1>1, TwoSymbols
<1> QED  BY <1>1, <1>2, OneSymbol

LEMMA PrintStepType ==
  ASSUME NEW b \in Books, NEW f \in Labels, NEW text \in Seq(Symbols)
  PROVE  PrintStep(b, f, text) \in Seq(Symbols)
<1> DEFINE head == <<f, ":">>
           mark == <<";">>
<1>1. b[f] \in Seq(Symbols)
  BY DEF Books, Trimmed, ValueTexts
<1>2. head \in Seq(Symbols) /\ mark \in Seq(Symbols)
  BY MarkIs, SymbolsAre
<1> HIDE DEF head, mark
<1>3. head \o b[f] \in Seq(Symbols)
  BY <1>1, <1>2, ConcatIs
<1>4. (head \o b[f]) \o mark \in Seq(Symbols)
  BY <1>2, <1>3, ConcatIs
<1>5. ((head \o b[f]) \o mark) \o text \in Seq(Symbols)
  BY <1>4, ConcatIs
<1> QED  BY <1>5 DEF PrintStep, head, mark

\* The end of the text of a book, from each of its fields on.
Prints(r, b) ==
  /\ r \in [1 .. 12 -> Seq(Symbols)]
  /\ r[12] = <<>>
  /\ \A k \in 1 .. 11 : r[k] = PrintStep(b, LabelOrder[k], r[k + 1])
  /\ RecToString(b) = r[1]

LEMMA PrintsExist ==
  ASSUME NEW b \in Books
  PROVE  \E r : Prints(r, b)
<1> DEFINE s == LabelOrder
           n == Len(s)
           V == Seq(Symbols)
           step == [k \in 1 .. n |-> [v \in V |-> PrintStep(b, s[k], v)]]
           Made(g, t) == IF t = {} THEN <<>> ELSE PrintStep(b, s[Min(t)], g[t \ {Min(t)}])
           h == CHOOSE g : g = [t \in SUBSET (DOMAIN s) |-> Made(g, t)]
<1>0. s \in Seq(Labels) /\ n \in Nat /\ n = 11 /\ DOMAIN s = 1 .. n /\ <<>> \in V
  BY LabelsAre, LenProperties
<1>1. \A k \in 1 .. n, v \in V : PrintStep(b, s[k], v) \in V
  <2>1. \A k \in 1 .. n : s[k] \in Labels
    BY LabelsAre
  <2> HIDE DEF s, n
  <2> QED  BY <2>1, PrintStepType
<1>2. step \in [1 .. n -> [V -> V]]
  <2> HIDE DEF n, V
  <2> QED  BY <1>1
<1>3. \A k \in 1 .. n, v \in V : step[k][v] = PrintStep(b, s[k], v)
  <2> HIDE DEF n, V
  <2> QED  OBVIOUS
<1>4. \E g : g = [t \in SUBSET (DOMAIN s) |-> Made(g, t)]
  <2>1. PICK g : IsFold(g, 1 .. n, V, <<>>, step, Least(n))
    <3> HIDE DEF n, V, step
    <3> QED  BY <1>0, <1>2, EndsArePicked, FoldExists
  <2>2. ASSUME NEW t \in SUBSET (1 .. n)
        PROVE  g[t] = Made(g, t)
    <3> HIDE DEF n, V, step, s
    <3>1. CASE t = {}
      BY <2>1, <3>1 DEF IsFold
    <3>2. CASE t # {}
      <4>1. Min(t) \in 1 .. n /\ g[t \ {Min(t)}] \in V
        <5>1. t \in SUBSET Nat
          BY <1>0
        <5> QED  BY <1>0, <2>1, <3>2, <5>1, MinIs DEF IsFold
      <4>2. g[t] = step[Min(t)][g[t \ {Min(t)}]]
        BY <2>1, <3>2 DEF IsFold, Least
      <4> QED  BY <1>3, <3>2, <4>1, <4>2
    <3> QED  BY <3>1, <3>2
  <2>3. g = [t \in SUBSET (1 .. n) |-> g[t]]
    <3> HIDE DEF n, V, step
    <3> QED  BY <2>1 DEF IsFold
  <2>4. g = [t \in SUBSET (1 .. n) |-> Made(g, t)]
    <3> HIDE DEF n, V, step, Made
    <3> QED  BY <2>2, <2>3
  <2> HIDE DEF s, Made
  <2> QED  BY <1>0, <2>4
<1>5. h = [t \in SUBSET (DOMAIN s) |-> Made(h, t)]
  <2> HIDE DEF Made
  <2> QED  BY <1>4
<1>6. RecToString(b) = h[DOMAIN s]
  BY DEF RecToString, FoldRight, MapThenFoldSet, PrintStep
<1> HIDE DEF h, s
<1>7. \A t \in SUBSET (1 .. n) : h[t] = Made(h, t)
  <2> HIDE DEF Made
  <2> QED  BY <1>0, <1>5
<1>8. h[{}] = <<>>
  BY <1>7
<1>9. ASSUME NEW k \in 1 .. n, h[k + 1 .. n] \in V
      PROVE  h[k .. n] = step[k][h[k + 1 .. n]]
  <2>1. h[k .. n] = PrintStep(b, s[k], h[k + 1 .. n])
    <3> HIDE DEF n
    <3>1. /\ k .. n # {} /\ k .. n \in SUBSET (1 .. n) /\ Min(k .. n) = k
          /\ (k .. n) \ {k} = k + 1 .. n
      BY <1>0, Interval
    <3> QED  BY <1>7, <3>1
  <2> HIDE DEF n, V, step
  <2> QED  BY <1>3, <1>9, <2>1
<1> HIDE DEF n, V, step
<1>10. PICK r : Shrinks(r, n, V, <<>>, step) /\ h[1 .. n] = r[1]
  <2>1. FoldsRight(h, n, V, <<>>, step)
    BY <1>8, <1>9 DEF FoldsRight
  <2>2. n \in Nat /\ <<>> \in V
    BY <1>0
  <2> QED  BY <1>2, <2>1, <2>2, RightFold
<1>11. r \in [1 .. n + 1 -> V] /\ r[n + 1] = <<>>
  BY <1>10 DEF Shrinks
<1>12. \A k \in 1 .. n : r[k] = PrintStep(b, s[k], r[k + 1])
  <2> TAKE k \in 1 .. n
  <2>1. k + 1 \in 1 .. n + 1
    BY <1>0
  <2>2. r[k] = step[k][r[k + 1]] /\ r[k + 1] \in V
    BY <1>10, <2>1 DEF Shrinks
  <2> QED  BY <1>3, <2>2
<1>13. RecToString(b) = r[1]
  BY <1>0, <1>6, <1>10
<1>14. r \in [1 .. 12 -> Seq(Symbols)] /\ r[12] = <<>>
  <2>1. n + 1 = 12
    BY <1>0
  <2> QED  BY <1>11, <2>1 DEF V
<1>15. \A k \in 1 .. 11 : r[k] = PrintStep(b, LabelOrder[k], r[k + 1])
  BY <1>0, <1>12 DEF s
<1> QED  BY <1>13, <1>14, <1>15 DEF Prints

LEMMA RecToStringType ==
  ASSUME NEW b \in Books
  PROVE  RecToString(b) \in Seq(Symbols)
BY PrintsExist DEF Prints

LEMMA LinesType ==
  ASSUME NEW list \in Seq(Books)
  PROVE  /\ Lines(list) \in Seq(Seq(Symbols)) /\ Len(Lines(list)) = Len(list)
         /\ \A i \in 1 .. Len(list) : Lines(list)[i] = RecToString(list[i]) \o <<Newline>>
<1> DEFINE newline == <<Newline>>
           Text(i) == RecToString(list[i]) \o newline
<1>1. \A i \in 1 .. Len(list) : Text(i) \in Seq(Symbols)
  <2> TAKE i \in 1 .. Len(list)
  <2>1. newline \in Seq(Symbols) /\ list[i] \in Books
    BY MarkIs, ElementOfSeq
  <2>2. RecToString(list[i]) \in Seq(Symbols)
    BY <2>1, RecToStringType
  <2> HIDE DEF newline
  <2> QED  BY <2>1, <2>2, ConcatIs
<1>2. Lines(list) = [i \in 1 .. Len(list) |-> Text(i)]
  BY LenProperties DEF Lines
<1> HIDE DEF Text
<1>3. Lines(list) \in Seq(Seq(Symbols)) /\ Len(Lines(list)) = Len(list)
  BY <1>1, <1>2, IsASeq
<1> QED  BY <1>2, <1>3 DEF Text

-----------------------------------------------------------------------------
(* Types: the workers and the texts they read. *)

Searches == [Labels -> Seq(Symbols)]

LEMMA EmptyMessage == Message(<<>>) = <<>> /\ Accepted(<<>>)
<1>0. <<>> \in Seq(Argument) /\ DOMAIN <<>> = {}
  OBVIOUS
<1>1. PICK m : Messages(m, <<>>)
  BY <1>0, MessageIs
<1>2. Message(<<>>) = <<>>
  BY <1>1 DEF Messages
<1>3. Accepted(<<>>)
  BY DEF Accepted
<1> QED  BY <1>2, <1>3

LEMMA CommandIs ==
  ASSUME NEW arguments \in Commands \cup {<<>>}
  PROVE  arguments \in Seq(Argument)
<1>1. Commands \subseteq Seq(Argument)
  BY RequestAssumption DEF Argument
<1>2. <<>> \in Seq(Argument)
  OBVIOUS
<1> QED  BY <1>1, <1>2

LEMMA MessageType ==
  ASSUME NEW arguments \in Commands \cup {<<>>}, Accepted(arguments)
  PROVE  Message(arguments) \in Seq(Symbols)
<1>1. arguments \in Seq(Argument)
  BY CommandIs
<1>2. \A i \in DOMAIN arguments : IsOption(arguments[i]) => ValueText(arguments[i]) # NULL
  BY DEF Accepted
<1>3. PICK m : Messages(m, arguments)
  BY <1>1, <1>2, MessageIs
<1> QED  BY <1>1, <1>3 DEF Messages

LEMMA StoreType ==
  ASSUME NEW b \in Searches, NEW name \in Seq(Symbols), NEW value \in Seq(Symbols)
  PROVE  Store(b, name, value) \in Searches
<1>1. <<"ERROR">> \in Seq(Symbols)
  BY SymbolsAre, OneSymbol
<1> DEFINE error == <<"ERROR">>
<1> HIDE DEF error
<1>2. error \in Seq(Symbols)
  BY <1>1 DEF error
<1>3. [b EXCEPT !["anno"] = error] \in Searches
  BY <1>2 DEF Searches
<1>4. [b EXCEPT ![Head(name)] = value] \in Searches
  BY DEF Searches
<1> QED  BY <1>3, <1>4 DEF Store, error

Positions == [buf : Workers \cup {None}, at : Nat]

\* A position is in a text that some worker has read, or at its end.
PointsInto(p, pc, texts) ==
  IF p.buf = None THEN p = Nowhere
  ELSE pc[p.buf] # "idle" /\ p.at \in 1 .. Len(texts[p.buf]) + 1

TextInv ==
  /\ position \in Positions /\ PointsInto(position, wpc, data)
  /\ entry \in [Workers -> Positions] /\ \A w \in Workers : PointsInto(entry[w], wpc, data)
  /\ wpc \in [Workers -> {"idle", "first", "value", "in value", "label",
                          "in label", "parsed", "kept", "freed"}]
  /\ command \in [Workers -> Commands \cup {<<>>}]
  /\ data \in [Workers -> Seq(Symbols)]
  /\ label \in [Workers -> Seq(Symbols)]
  /\ book \in [Workers -> Searches]
  /\ disturbed \in [Workers -> BOOLEAN]
  /\ \A w \in Workers : Accepted(command[w])
  /\ \A w \in Workers : Len(data[w]) = Len(Message(command[w]))
  /\ \A w \in Workers : wpc[w] = "idle" => command[w] = <<>>

\* What a call of strtok without a text may return.
Returns(found) ==
  /\ found.token \in Seq(Symbols)
  /\ found.position \in Positions
  /\ PointsInto(found.position, wpc, data)
  /\ found.data \in [Workers -> Seq(Symbols)]
  /\ \A v \in Workers : Len(found.data[v]) = Len(data[v])

LEMMA StrtokNULLType ==
  ASSUME TextInv, NEW w \in Workers, NEW d, NEW found \in StrtokNULL(w, d)
  PROVE  Returns(found)
<1> DEFINE from == entry[w]
           cut == Strtok(data[from.buf], from.at, d)
<1>0. /\ from \in Positions /\ PointsInto(from, wpc, data)
      /\ data \in [Workers -> Seq(Symbols)]
      /\ NULL \in Seq(Symbols)
      /\ Nowhere \in Positions /\ PointsInto(Nowhere, wpc, data)
  <2>1. from \in Positions /\ PointsInto(from, wpc, data) /\ data \in [Workers -> Seq(Symbols)]
    BY DEF TextInv
  <2>2. NULL \in Seq(Symbols)
    BY DEF NULL
  <2>3. Nowhere \in Positions /\ PointsInto(Nowhere, wpc, data)
    BY DEF Nowhere, Positions, PointsInto
  <2> QED  BY <2>1, <2>2, <2>3
<1>1. CASE from.buf = None
  <2>1. found.token = NULL /\ found.position = Nowhere /\ found.data = data
    BY <1>0, <1>1 DEF StrtokNULL, PointsInto
  <2> QED  BY <1>0, <2>1 DEF Returns
<1>2. CASE from.buf # None /\ wpc[from.buf] = "freed"
  <2>1. /\ found.token \in {NULL, <<"garbage">>}
        /\ found.position = Nowhere /\ found.data = data
    BY <1>2 DEF StrtokNULL
  <2>2. <<"garbage">> \in Seq(Symbols)
    BY SymbolsAre, OneSymbol
  <2> QED  BY <1>0, <2>1, <2>2 DEF Returns
<1>3. CASE from.buf # None /\ wpc[from.buf] # "freed"
  <2>1. /\ found.token = cut.token
        /\ found.position = [buf |-> from.buf, at |-> cut.next]
        /\ found.data = [data EXCEPT ![from.buf] = cut.text]
    BY <1>3 DEF StrtokNULL
  <2>2. /\ from.buf \in Workers /\ data[from.buf] \in Seq(Symbols)
        /\ wpc[from.buf] # "idle" /\ from.at \in 1 .. Len(data[from.buf]) + 1
    BY <1>0, <1>3 DEF Positions, PointsInto
  <2>3. TokenOK(data[from.buf], from.at, d, cut)
    <3> HIDE DEF from
    <3> QED  BY <2>2, StrtokType
  <2> HIDE DEF cut, from
  <2>4. /\ cut.token \in Seq(Symbols) /\ cut.text \in Seq(Symbols)
        /\ Len(cut.text) = Len(data[from.buf])
        /\ cut.next \in 1 .. Len(data[from.buf]) + 1 /\ cut.next \in Nat
    BY <2>2, <2>3 DEF TokenOK
  <2>5. /\ found.position.buf = from.buf /\ found.position.at = cut.next
        /\ found.position \in Positions /\ from.buf # None
    BY <2>1, <2>2, <2>4, RequestAssumption DEF Positions
  <2>7. PointsInto(found.position, wpc, data)
    BY <2>2, <2>4, <2>5 DEF PointsInto
  <2>6. /\ found.data \in [Workers -> Seq(Symbols)]
        /\ \A v \in Workers : Len(found.data[v]) = Len(data[v])
    BY <1>0, <2>1, <2>2, <2>4
  <2> QED  BY <2>1, <2>4, <2>5, <2>6, <2>7 DEF Returns
<1> QED  BY <1>1, <1>2, <1>3

LEMMA KeepsPointing ==
  ASSUME NEW p \in Positions, NEW pc, NEW texts, PointsInto(p, pc, texts),
         NEW pc2, NEW texts2,
         \A v \in Workers :
           pc[v] # "idle" => pc2[v] # "idle" /\ Len(texts2[v]) = Len(texts[v])
  PROVE  PointsInto(p, pc2, texts2)
<1>1. CASE p.buf = None
  BY <1>1 DEF PointsInto
<1>2. CASE p.buf # None
  <2>1. p.buf \in Workers
    BY <1>2 DEF Positions
  <2> QED  BY <1>2, <2>1 DEF PointsInto
<1> QED  BY <1>1, <1>2

LEMMA TextInit ==
  ASSUME RequestInit
  PROVE  TextInv
<1>1. Nowhere \in Positions /\ PointsInto(Nowhere, wpc, data)
  BY DEF Nowhere, Positions, PointsInto
<1>2. <<>> \in Seq(Symbols) /\ Len(<<>>) = 0
  OBVIOUS
<1>3. EmptyBook \in Searches
  BY <1>2 DEF EmptyBook, Searches
<1>4. \A w \in Workers : /\ position = Nowhere /\ entry[w] = Nowhere /\ wpc[w] = "idle"
                         /\ command[w] = <<>> /\ data[w] = <<>>
  BY DEF RequestInit
<1>5. \A w \in Workers : Accepted(command[w]) /\ Len(data[w]) = Len(Message(command[w]))
  BY <1>4, EmptyMessage
<1>6. /\ entry \in [Workers -> Positions] /\ data \in [Workers -> Seq(Symbols)]
      /\ label \in [Workers -> Seq(Symbols)] /\ book \in [Workers -> Searches]
  BY <1>1, <1>2, <1>3 DEF RequestInit, NULL
<1>7. /\ command \in [Workers -> Commands \cup {<<>>}]
      /\ disturbed \in [Workers -> BOOLEAN]
      /\ wpc \in [Workers -> {"idle", "first", "value", "in value", "label",
                              "in label", "parsed", "kept", "freed"}]
  BY DEF RequestInit
<1>8. \A w \in Workers : PointsInto(entry[w], wpc, data)
  BY <1>1, <1>4
<1>9. position \in Positions /\ PointsInto(position, wpc, data)
  BY <1>1 DEF RequestInit
<1> QED  BY <1>4, <1>5, <1>6, <1>7, <1>8, <1>9 DEF TextInv

\* The positions after a step that moves the one of strtok, and the entry of
\* one worker.
LEMMA TextStep ==
  ASSUME TextInv, NEW w \in Workers, Parse(w) \/ Finish(w)
  PROVE  TextInv'
<1> USE DEF WorkerTo
<1>0. /\ position \in Positions /\ PointsInto(position, wpc, data)
      /\ entry \in [Workers -> Positions]
      /\ \A v \in Workers : PointsInto(entry[v], wpc, data)
      /\ wpc \in [Workers -> {"idle", "first", "value", "in value", "label",
                              "in label", "parsed", "kept", "freed"}]
      /\ command \in [Workers -> Commands \cup {<<>>}]
      /\ data \in [Workers -> Seq(Symbols)]
      /\ label \in [Workers -> Seq(Symbols)]
      /\ book \in [Workers -> Searches]
      /\ disturbed \in [Workers -> BOOLEAN]
      /\ \A v \in Workers : Accepted(command[v])
      /\ \A v \in Workers : Len(data[v]) = Len(Message(command[v]))
      /\ \A v \in Workers : wpc[v] = "idle" => command[v] = <<>>
  BY DEF TextInv
<1>1. CASE Receive(w)
  <2>1. PICK arguments \in Commands :
          /\ Accepted(arguments)
          /\ command' = [command EXCEPT ![w] = arguments]
          /\ data' = [data EXCEPT ![w] = Message(arguments)]
    BY <1>1 DEF Receive
  <2>2. Message(arguments) \in Seq(Symbols)
    BY <2>1, MessageType
  <2>3. /\ wpc[w] = "idle" /\ wpc' = [wpc EXCEPT ![w] = "first"]
        /\ UNCHANGED <<position, entry, label, book, disturbed>>
    BY <1>1 DEF Receive
  <2>4. \A v \in Workers :
          wpc[v] # "idle" => wpc'[v] # "idle" /\ Len(data'[v]) = Len(data[v])
    BY <1>0, <2>1, <2>3
  <2>5. /\ PointsInto(position', wpc', data')
        /\ \A v \in Workers : PointsInto(entry'[v], wpc', data')
    <3>1. ASSUME NEW p \in Positions, PointsInto(p, wpc, data)
          PROVE  PointsInto(p, wpc', data')
      BY <2>4, <3>1, KeepsPointing
    <3>2. position' = position /\ entry' = entry
      BY <2>3
    <3>3. \A v \in Workers : entry[v] \in Positions
      BY <1>0
    <3> QED  BY <1>0, <3>1, <3>2, <3>3
  <2>6. /\ data' \in [Workers -> Seq(Symbols)] /\ command' \in [Workers -> Commands \cup {<<>>}]
        /\ wpc' \in [Workers -> {"idle", "first", "value", "in value", "label",
                                 "in label", "parsed", "kept", "freed"}]
    BY <1>0, <2>1, <2>2, <2>3
  <2>7. \A v \in Workers : /\ Accepted(command'[v])
                           /\ Len(data'[v]) = Len(Message(command'[v]))
                           /\ wpc'[v] = "idle" => command'[v] = <<>>
    BY <1>0, <2>1, <2>3
  <2> QED  BY <1>0, <2>3, <2>5, <2>6, <2>7 DEF TextInv
<1>2. CASE ReceiveNothing(w)
  <2>1. /\ wpc[w] = "idle" /\ wpc' = [wpc EXCEPT ![w] = "first"]
        /\ UNCHANGED <<position, command, data, entry, label, book, disturbed>>
    BY <1>2 DEF ReceiveNothing
  <2>2. \A v \in Workers :
          wpc[v] # "idle" => wpc'[v] # "idle" /\ Len(data'[v]) = Len(data[v])
    BY <1>0, <2>1
  <2>3. /\ PointsInto(position', wpc', data')
        /\ \A v \in Workers : PointsInto(entry'[v], wpc', data')
    BY <1>0, <2>1, <2>2, KeepsPointing
  <2> QED  BY <1>0, <2>1, <2>3 DEF TextInv
<1>3. CASE FirstLabel(w)
  <2> DEFINE found == Strtok(data[w], 1, ":")
  <2>1. /\ wpc[w] = "first" /\ wpc' = [wpc EXCEPT ![w] = "value"]
        /\ label' = [label EXCEPT ![w] = found.token]
        /\ data' = [data EXCEPT ![w] = found.text]
        /\ position' = [buf |-> w, at |-> found.next]
        /\ disturbed' = [v \in Workers |-> disturbed[v] \/ (v # w /\ Parsing(v))]
        /\ UNCHANGED <<command, entry, book>>
    BY <1>3 DEF FirstLabel, Disturb
  <2>2. data[w] \in Seq(Symbols) /\ 1 \in 1 .. Len(data[w]) + 1
    <3>1. data[w] \in Seq(Symbols)
      BY <1>0
    <3>2. Len(data[w]) \in Nat
      BY <3>1, LenProperties
    <3> QED  BY <3>1, <3>2
  <2>3. /\ found.token \in Seq(Symbols) /\ found.text \in Seq(Symbols)
        /\ Len(found.text) = Len(data[w]) /\ found.next \in 1 .. Len(data[w]) + 1
    <3>1. TokenOK(data[w], 1, ":", found)
      BY <2>2, StrtokType
    <3> HIDE DEF found
    <3> QED  BY <3>1 DEF TokenOK
  <2> HIDE DEF found
  <2>4. \A v \in Workers : /\ Len(data'[v]) = Len(data[v])
                           /\ wpc[v] # "idle" => wpc'[v] # "idle"
    BY <1>0, <2>1, <2>3
  <2>5. \A v \in Workers : PointsInto(entry'[v], wpc', data')
    BY <1>0, <2>1, <2>4, KeepsPointing
  <2>6. position' \in Positions /\ PointsInto(position', wpc', data')
    <3>1. /\ position'.buf = w /\ position'.at = found.next /\ w # None
          /\ wpc'[w] # "idle" /\ found.next \in Nat
          /\ Len(data'[w]) = Len(data[w])
      <4>1. position'.buf = w /\ position'.at = found.next
        BY <2>1
      <4>2. w # None
        BY RequestAssumption
      <4>3. wpc'[w] # "idle"
        BY <1>0, <2>1
      <4>4. found.next \in Nat
        <5>1. Len(data[w]) \in Nat
          BY <2>2, LenProperties
        <5> QED  BY <2>3, <5>1
      <4> QED  BY <2>4, <4>1, <4>2, <4>3, <4>4
    <3>2. position' \in Positions
      BY <2>1, <3>1 DEF Positions
    <3> QED  BY <2>3, <3>1, <3>2 DEF PointsInto
  <2>7. /\ data' \in [Workers -> Seq(Symbols)] /\ label' \in [Workers -> Seq(Symbols)]
        /\ disturbed' \in [Workers -> BOOLEAN]
        /\ wpc' \in [Workers -> {"idle", "first", "value", "in value", "label",
                                 "in label", "parsed", "kept", "freed"}]
    BY <1>0, <2>1, <2>3 DEF Parsing
  <2>8. \A v \in Workers : wpc'[v] = "idle" => command'[v] = <<>>
    BY <1>0, <2>1
  <2>9. \A v \in Workers : Len(data'[v]) = Len(Message(command'[v]))
    BY <1>0, <2>1, <2>4
  <2> QED  BY <1>0, <2>1, <2>5, <2>6, <2>7, <2>8, <2>9 DEF TextInv
<1>4. CASE Call(w)
  <2>1. PICK to \in {"in value", "in label"} : wpc' = [wpc EXCEPT ![w] = to]
    BY <1>4 DEF Call
  <2>2. /\ entry' = [entry EXCEPT ![w] = position]
        /\ UNCHANGED <<position, command, data, label, book, disturbed>>
    BY <1>4 DEF Call, Entry
  <2>3. \A v \in Workers : wpc[v] # "idle" => wpc'[v] # "idle" /\ Len(data'[v]) = Len(data[v])
    BY <1>0, <2>1, <2>2
  <2>4. entry' \in [Workers -> Positions] /\ \A v \in Workers : entry'[v] \in {entry[v], position}
    BY <1>0, <2>2
  <2>5. /\ PointsInto(position', wpc', data')
        /\ \A v \in Workers : PointsInto(entry'[v], wpc', data')
    <3>1. PointsInto(position, wpc', data')
      <4>1. position \in Positions /\ PointsInto(position, wpc, data)
        BY <1>0
      <4> QED  BY <2>3, <4>1, KeepsPointing
    <3>2. \A v \in Workers : PointsInto(entry[v], wpc', data')
      <4> TAKE v \in Workers
      <4>1. entry[v] \in Positions /\ PointsInto(entry[v], wpc, data)
        BY <1>0
      <4> QED  BY <2>3, <4>1, KeepsPointing
    <3> QED  BY <2>2, <2>4, <3>1, <3>2
  <2>6. /\ wpc' \in [Workers -> {"idle", "first", "value", "in value", "label",
                                 "in label", "parsed", "kept", "freed"}]
        /\ \A v \in Workers : wpc'[v] = "idle" => command'[v] = <<>>
    BY <1>0, <2>1, <2>2
  <2> QED  BY <1>0, <2>2, <2>4, <2>5, <2>6 DEF TextInv
<1>5. ASSUME NEW d, NEW found \in StrtokNULL(w, d),
             NEW to \in {"value", "label", "parsed"},
             wpc[w] # "idle", wpc' = [wpc EXCEPT ![w] = to],
             position' = found.position, data' = found.data,
             disturbed' = [v \in Workers |-> disturbed[v] \/ (v # w /\ Parsing(v))],
             label' \in [Workers -> Seq(Symbols)], book' \in [Workers -> Searches],
             UNCHANGED <<command, entry>>
      PROVE  TextInv'
  <2>1. /\ found.position \in Positions /\ PointsInto(found.position, wpc, data)
        /\ found.data \in [Workers -> Seq(Symbols)]
        /\ \A v \in Workers : Len(found.data[v]) = Len(data[v])
    BY <1>5, StrtokNULLType DEF Returns
  <2>2. \A v \in Workers : /\ Len(data'[v]) = Len(data[v])
                           /\ wpc[v] # "idle" => wpc'[v] # "idle"
    BY <1>0, <1>5, <2>1
  <2>3. /\ PointsInto(position', wpc', data')
        /\ \A v \in Workers : PointsInto(entry'[v], wpc', data')
    BY <1>0, <1>5, <2>1, <2>2, KeepsPointing, ZenonT(30)
  <2>4. /\ disturbed' \in [Workers -> BOOLEAN]
        /\ wpc' \in [Workers -> {"idle", "first", "value", "in value", "label",
                                 "in label", "parsed", "kept", "freed"}]
        /\ \A v \in Workers : wpc'[v] = "idle" => command'[v] = <<>>
    BY <1>0, <1>5 DEF Parsing
  <2>5. \A v \in Workers : Len(data'[v]) = Len(Message(command'[v]))
    BY <1>0, <1>5, <2>2
  <2> QED  BY <1>0, <1>5, <2>1, <2>3, <2>4, <2>5 DEF TextInv
<1>6. CASE ReturnValue(w)
  <2>1. PICK found \in StrtokNULL(w, ";") :
          /\ position' = found.position /\ data' = found.data
          /\ IF Loop(w, found.token)
             THEN /\ book' = [book EXCEPT ![w] = Store(@, label[w], found.token)]
                  /\ WorkerTo(w, "label")
             ELSE UNCHANGED book /\ WorkerTo(w, "parsed")
    BY <1>6 DEF ReturnValue
  <2>2. found.token \in Seq(Symbols) /\ label[w] \in Seq(Symbols) /\ book[w] \in Searches
    BY <1>0, StrtokNULLType DEF Returns
  <2>3. Store(book[w], label[w], found.token) \in Searches
    BY <2>2, StoreType
  <2>4. book' \in [Workers -> Searches]
    BY <1>0, <2>1, <2>3
  <2>5. /\ wpc[w] # "idle" /\ label' \in [Workers -> Seq(Symbols)]
        /\ disturbed' = [v \in Workers |-> disturbed[v] \/ (v # w /\ Parsing(v))]
        /\ UNCHANGED <<command, entry>>
    BY <1>0, <1>6 DEF ReturnValue, Disturb
  <2>6. PICK to \in {"value", "label", "parsed"} : wpc' = [wpc EXCEPT ![w] = to]
    BY <2>1
  <2> QED  BY <1>5, <2>1, <2>4, <2>5, <2>6
<1>7. CASE ReturnLabel(w)
  <2>1. PICK found \in StrtokNULL(w, ":") :
          /\ position' = found.position /\ data' = found.data
          /\ label' = [label EXCEPT ![w] = found.token]
    BY <1>7 DEF ReturnLabel
  <2>2. found.token \in Seq(Symbols)
    BY StrtokNULLType DEF Returns
  <2>3. label' \in [Workers -> Seq(Symbols)]
    BY <1>0, <2>1, <2>2
  <2>4. /\ wpc[w] # "idle" /\ book' \in [Workers -> Searches]
        /\ disturbed' = [v \in Workers |-> disturbed[v] \/ (v # w /\ Parsing(v))]
        /\ wpc' = [wpc EXCEPT ![w] = "value"]
        /\ UNCHANGED <<command, entry>>
    BY <1>0, <1>7 DEF ReturnLabel, Disturb
  <2> QED  BY <1>5, <2>1, <2>3, <2>4
<1>8. CASE Finish(w)
  <2>1. PICK to \in {"kept", "freed"} : wpc' = [wpc EXCEPT ![w] = to]
    BY <1>8 DEF Finish
  <2>2. wpc[w] = "parsed" /\ UNCHANGED <<position, command, data, entry, label, book, disturbed>>
    BY <1>8 DEF Finish
  <2>3. \A v \in Workers : wpc[v] # "idle" => wpc'[v] # "idle" /\ Len(data'[v]) = Len(data[v])
    BY <1>0, <2>1, <2>2
  <2>4. /\ PointsInto(position', wpc', data')
        /\ \A v \in Workers : PointsInto(entry'[v], wpc', data')
    BY <1>0, <2>2, <2>3, KeepsPointing
  <2>5. /\ wpc' \in [Workers -> {"idle", "first", "value", "in value", "label",
                                 "in label", "parsed", "kept", "freed"}]
        /\ \A v \in Workers : wpc'[v] = "idle" => command'[v] = <<>>
    BY <1>0, <2>1, <2>2
  <2> QED  BY <1>0, <2>2, <2>4, <2>5 DEF TextInv
<1> QED  BY <1>1, <1>2, <1>3, <1>4, <1>6, <1>7, <1>8 DEF Parse, Tokenizer

-----------------------------------------------------------------------------
(* Types: the books. *)

LEMMA LoanWordsAre ==
  <<DueDate>> \in Trimmed /\ <<"AVAILABLE">> \in Trimmed /\ DueDate \in Symbols
<1>1. ASSUME NEW s \in Symbols, ~EndsValue(s), ~IsSpace(s)
      PROVE  <<s>> \in Trimmed
  <2> DEFINE t == <<s>>
  <2>1. t \in Seq(Symbols) /\ Len(t) = 1 /\ t[1] = s
    BY OneSymbol
  <2> HIDE DEF t
  <2>2. \A i \in 1 .. Len(t) : ~EndsValue(t[i])
    BY <1>1, <2>1
  <2>3. ~IsSpace(t[1]) /\ ~IsSpace(t[Len(t)])
    BY <1>1, <2>1
  <2>4. t \in Trimmed
    BY <2>1, <2>2, <2>3 DEF Trimmed, ValueTexts
  <2> QED  BY <2>4 DEF t
<1>2. DueDate \in Symbols /\ ~EndsValue(DueDate) /\ ~IsSpace(DueDate)
  BY FileAssumption, SymbolsAre DEF Marks, EndsValue, IsSpace, Nul, Newline
<1>3. "AVAILABLE" \in Symbols /\ ~EndsValue("AVAILABLE") /\ ~IsSpace("AVAILABLE")
  BY SymbolsAre DEF EndsValue, IsSpace, Nul, Newline
<1> QED  BY <1>1, <1>2, <1>3

LEMMA LoanCheckIs ==
  ASSUME NEW list \in Seq(Books)
  PROVE  /\ LoanCheck(list) \in Seq(Books) /\ Len(LoanCheck(list)) = Len(list)
         /\ \A i \in 1 .. Len(list) :
              /\ \A f \in Labels \ {"prestito"} : LoanCheck(list)[i][f] = list[i][f]
              /\ list[i]["prestito"] # <<>> => LoanCheck(list)[i] = list[i]
              /\ list[i]["prestito"] = <<>> => LoanCheck(list)[i]["prestito"] = <<"AVAILABLE">>
<1> DEFINE available == <<"AVAILABLE">>
           Checked(b) == IF b["prestito"] # <<>> THEN b ELSE [b EXCEPT !["prestito"] = available]
<1>1. available \in Trimmed
  BY LoanWordsAre
<1> HIDE DEF available
<1>2. "prestito" \in Labels
  BY LabelsAre
<1>3. ASSUME NEW b \in Books
      PROVE  /\ Checked(b) \in Books
             /\ \A f \in Labels \ {"prestito"} : Checked(b)[f] = b[f]
             /\ b["prestito"] # <<>> => Checked(b) = b
             /\ b["prestito"] = <<>> => Checked(b)["prestito"] = available
  BY <1>1, <1>2 DEF Books
<1>4. LoanCheck(list) = [i \in 1 .. Len(list) |-> Checked(list[i])]
  BY LenProperties DEF LoanCheck, available
<1> HIDE DEF Checked
<1>5. \A i \in 1 .. Len(list) : list[i] \in Books
  BY ElementOfSeq
<1>6. LoanCheck(list) \in Seq(Books) /\ Len(LoanCheck(list)) = Len(list)
  BY <1>3, <1>4, <1>5, IsASeq
<1> QED  BY <1>3, <1>4, <1>5, <1>6 DEF available

LEMMA LendType ==
  ASSUME NEW list \in Seq(Books), NEW search, NEW lendable
  PROVE  /\ Lend(list, search, lendable) \in Seq(Books)
         /\ Len(Lend(list, search, lendable)) = Len(list)
<1> DEFINE due == <<DueDate>>
           Lent(i) == i \in Matches(list, search)
                        /\ {j \in Matches(list, search) : j <= i} \subseteq lendable
           After(i) == IF Lent(i) THEN [list[i] EXCEPT !["prestito"] = due] ELSE list[i]
<1>1. due \in Trimmed
  BY LoanWordsAre
<1>2. Lend(list, search, lendable) = [i \in 1 .. Len(list) |-> After(i)]
  BY LenProperties DEF Lend
<1> HIDE DEF due, Lent
<1>3. \A i \in 1 .. Len(list) : After(i) \in Books
  <2> TAKE i \in 1 .. Len(list)
  <2>1. list[i] \in Books
    BY ElementOfSeq
  <2> DEFINE b == list[i]
  <2> HIDE DEF b
  <2>2. b \in Books => [b EXCEPT !["prestito"] = due] \in Books
    BY <1>1 DEF Books
  <2> QED  BY <2>1, <2>2 DEF b
<1> HIDE DEF After
<1> QED  BY <1>2, <1>3, IsASeq

FileInv ==
  /\ phase \in {"start", "loaded", "serve", "joined", "exited", "dead"}
  /\ runs \in 1 .. MaxRuns
  /\ phase \in {"serve", "joined", "exited"} => runs < MaxRuns
  /\ input \in Seq(Seq(Symbols)) /\ books \in Seq(Books) /\ atStop \in Seq(Books)
  /\ phase \in {"loaded", "serve", "joined"} => books # <<>>
  /\ phase = "loaded" => Loads(input) /\ books = LoanCheck(ReadRecords(input))
  /\ runs > 1 \/ phase = "exited" => input = Lines(atStop) /\ atStop # <<>>

LEMMA FileInit ==
  ASSUME Init
  PROVE  FileInv
<1>1. STRING \subseteq Symbols
  BY SymbolsAre
<1>2. input \in Seq(Seq(STRING))
  BY FileAssumption DEF Init
<1>3. Seq(STRING) \subseteq Seq(Symbols)
  BY <1>1, SeqMonotonic
<1>4. input \in Seq(Seq(Symbols))
  BY <1>2, <1>3, SeqMonotonic
<1>5. phase = "start" /\ runs = 1 /\ books = <<>> /\ atStop = <<>> /\ 1 \in 1 .. MaxRuns
  BY FileAssumption DEF Init
<1> QED  BY <1>4, <1>5 DEF FileInv

LEMMA FileStep ==
  ASSUME FileInv, [Next]_vars
  PROVE  FileInv'
<1> USE DEF FileInv
<1>0. runs \in Nat /\ MaxRuns \in Nat
  BY FileAssumption
<1>1. CASE Load
  <2>1. CASE Loads(input)
    <3> DEFINE list == ReadRecords(input)
    <3>1. /\ phase' = "loaded" /\ books' = LoanCheck(list)
          /\ UNCHANGED <<input, runs, atStop>>
      BY <1>1, <2>1 DEF Load
    <3>2. list \in Seq(Books)
      BY ReadRecordsIs DEF Shelves
    <3>3. list # <<>>
      <4>1. PICK i \in DOMAIN input : input[i] # <<Newline>>
        BY <2>1 DEF Loads
      <4>2. i \in 1 .. Len(input)
        BY <4>1, LenProperties
      <4>3. \E j \in 1 .. Len(list) : list[j] = Tokenize(input[i])
        BY <4>1, <4>2, ReadRecordsIs
      <4> HIDE DEF list
      <4> QED  BY <4>3
    <3> HIDE DEF list
    <3>4. books' \in Seq(Books) /\ Len(books') = Len(list)
      BY <3>1, <3>2, LoanCheckIs
    <3>5. books' # <<>>
      BY <3>2, <3>3, <3>4
    <3> QED  BY <2>1, <3>1, <3>4, <3>5 DEF list
  <2>2. CASE ~Loads(input)
    BY <1>1, <2>2 DEF Load
  <2> QED  BY <2>1, <2>2
<1>2. CASE Serve
  BY <1>0, <1>2 DEF Serve
<1>3. CASE Join
  BY <1>3 DEF Join
<1>4. CASE Save
  <2>1. CASE phase' = "exited" /\ input' = Lines(books) /\ atStop' = books
    <3>1. phase = "joined" /\ UNCHANGED <<books, runs>>
      BY <1>4 DEF Save
    <3>2. Lines(books) \in Seq(Seq(Symbols))
      BY LinesType
    <3> QED  BY <2>1, <3>1, <3>2
  <2>2. CASE phase' = "dead" /\ UNCHANGED <<input, atStop>>
    BY <1>4, <2>2 DEF Save
  <2> QED  BY <1>4, <2>1, <2>2 DEF Save
<1>5. CASE Restart
  BY <1>0, <1>5 DEF Restart
<1>6. CASE Rest
  BY <1>6 DEF Rest, vars, fileVars
<1>7. ASSUME NEW w \in Workers, ParseRequest(w)
      PROVE  FileInv'
  BY <1>7 DEF ParseRequest, fileVars
<1>8. ASSUME NEW w \in Workers, ServeRequest(w)
      PROVE  FileInv'
  <2>1. phase = "serve" /\ UNCHANGED <<phase, input, runs, atStop>>
    BY <1>8 DEF ServeRequest
  <2>2. (\E lendable : books' = Lend(books, book[w], lendable)) \/ books' = books
    BY <1>8 DEF ServeRequest
  <2>3. books' \in Seq(Books) /\ Len(books') = Len(books)
    BY <2>2, LendType
  <2>4. books' # <<>>
    BY <2>1, <2>3
  <2> QED  BY <2>1, <2>3, <2>4
<1>9. CASE UNCHANGED vars
  BY <1>9 DEF vars, fileVars
<1> QED  BY <1>1, <1>2, <1>3, <1>4, <1>5, <1>6, <1>7, <1>8, <1>9 DEF Next

\* Nothing of the workers is left.
LEMMA TextJoin ==
  ASSUME TextInv, Join
  PROVE  TextInv'
<1>1. Nowhere \in Positions /\ PointsInto(Nowhere, wpc', data')
  BY DEF Nowhere, Positions, PointsInto
<1>2. <<>> \in Seq(Symbols) /\ Len(<<>>) = 0
  OBVIOUS
<1>3. EmptyBook \in Searches
  BY <1>2 DEF EmptyBook, Searches
<1>4. \A w \in Workers : /\ position' = Nowhere /\ entry'[w] = Nowhere /\ wpc'[w] = "freed"
                         /\ command'[w] = <<>> /\ data'[w] = <<>>
  BY DEF Join
<1>5. \A w \in Workers : Accepted(command'[w]) /\ Len(data'[w]) = Len(Message(command'[w]))
  BY <1>4, EmptyMessage
<1>6. /\ entry' \in [Workers -> Positions] /\ data' \in [Workers -> Seq(Symbols)]
      /\ label' \in [Workers -> Seq(Symbols)] /\ book' \in [Workers -> Searches]
  BY <1>1, <1>2, <1>3 DEF Join, NULL
<1>7. /\ command' \in [Workers -> Commands \cup {<<>>}]
      /\ disturbed' \in [Workers -> BOOLEAN]
      /\ wpc' \in [Workers -> {"idle", "first", "value", "in value", "label",
                               "in label", "parsed", "kept", "freed"}]
  BY DEF Join
<1>8. \A w \in Workers : PointsInto(entry'[w], wpc', data')
  BY <1>1, <1>4
<1>9. position' \in Positions /\ PointsInto(position', wpc', data')
  BY <1>1 DEF Join
<1> QED  BY <1>4, <1>5, <1>6, <1>7, <1>8, <1>9 DEF TextInv

\* Every step of the server is one of main, which leaves the texts alone or
\* drops them all, or one of a worker.
LEMMA StepIs ==
  ASSUME [Next]_vars
  PROVE  \/ UNCHANGED textVars \/ Join
         \/ \E w \in Workers : Parse(w) \/ Finish(w)
BY DEF Next, Load, Serve, Save, Restart, Rest, ParseRequest, ServeRequest, vars

LEMMA TextNext ==
  ASSUME TextInv, [Next]_vars
  PROVE  TextInv'
<1>1. CASE UNCHANGED textVars
  BY <1>1 DEF TextInv, PointsInto, textVars
<1>2. CASE Join
  BY <1>2, TextJoin
<1>3. ASSUME NEW w \in Workers, Parse(w) \/ Finish(w)
      PROVE  TextInv'
  BY <1>3, TextStep
<1> QED  BY <1>1, <1>2, <1>3, StepIs

LEMMA Types == Spec => [](TextInv /\ FileInv)
<1>1. Init => TextInv /\ FileInv
  BY TextInit, FileInit DEF Init
<1>2. TextInv /\ FileInv /\ [Next]_vars => (TextInv /\ FileInv)'
  BY TextNext, FileStep
<1> QED  BY <1>1, <1>2, PTL DEF Spec

\* The types hold: strtok's position stays inside the text it is about, a text
\* keeps its length while strtok cuts it, and a server that is up has a book.
THEOREM TypeCorrect == Spec => []TypeOK
<1>1. TextInv => TextTypeOK
  <2> SUFFICES ASSUME TextInv PROVE TextTypeOK
    OBVIOUS
  <2>1. position \in Positions /\ PointsInto(position, wpc, data)
    BY DEF TextInv
  <2>2. position.buf \in Workers \cup {None}
    BY <2>1 DEF Positions
  <2>3. position.at \in 1 .. Len(IF position.buf = None THEN <<>> ELSE data[position.buf]) + 1
    <3>1. CASE position.buf = None
      <4>1. position.at = 1 /\ Len(<<>>) = 0
        BY <2>1, <3>1 DEF PointsInto, Nowhere
      <4> QED  BY <3>1, <4>1
    <3>2. CASE position.buf # None
      BY <2>1, <3>2 DEF PointsInto
    <3> QED  BY <3>1, <3>2
  <2>4. \A w \in Workers : entry[w].buf \in Workers \cup {None} /\ entry[w].at \in Nat
    BY DEF TextInv, Positions
  <2>5. \A w \in Workers : DOMAIN book[w] = Labels
    BY DEF TextInv, Searches
  <2> QED  BY <2>2, <2>3, <2>4, <2>5 DEF TextTypeOK, TextInv
<1>2. FileInv => \A i \in DOMAIN books : DOMAIN books[i] = Labels
  BY DEF FileInv, Books
<1>3. TextInv /\ FileInv => TypeOK
  BY <1>1, <1>2 DEF TypeOK, FileInv
<1> QED  BY <1>3, Types, PTL

\* The books of a file are all different; what becomes equal, loan_check made
\* available.
THEOREM EqualBooksAfterCheck == Spec => []EqualBooksAreAvailable
<1>1. FileInv => EqualBooksAreAvailable
  <2> SUFFICES ASSUME FileInv, phase = "loaded",
                      NEW i \in DOMAIN books, NEW j \in DOMAIN books,
                      i # j, books[i] = books[j]
               PROVE  books[i]["prestito"] = <<"AVAILABLE">>
    BY DEF EqualBooksAreAvailable
  <2> DEFINE list == ReadRecords(input)
             available == <<"AVAILABLE">>
  <2>1. list \in Shelves /\ books = LoanCheck(list)
    BY ReadRecordsIs DEF FileInv
  <2>2. list \in Seq(Books) /\ \A k, l \in 1 .. Len(list) : k # l => list[k] # list[l]
    BY <2>1 DEF Shelves
  <2> HIDE DEF list, available
  <2>3. /\ Len(books) = Len(list) /\ DOMAIN books = 1 .. Len(books)
        /\ \A k \in 1 .. Len(list) :
              /\ list[k]["prestito"] # <<>> => books[k] = list[k]
              /\ list[k]["prestito"] = <<>> => books[k]["prestito"] = available
    BY <2>1, <2>2, LoanCheckIs, LenProperties DEF available
  <2>4. i \in 1 .. Len(list) /\ j \in 1 .. Len(list)
    BY <2>3
  <2>5. books[i]["prestito"] = available \/ books[j]["prestito"] = available
    BY <2>2, <2>3, <2>4
  <2> QED  BY <2>5 DEF available
<1> QED  BY <1>1, Types, PTL

-----------------------------------------------------------------------------
(* The options of a command line whose values have no separators in them. *)

Dashes == "--"
Equals == "="
Colon == ":"
Semicolon == ";"

LEMMA SeparatorsAre ==
  /\ {Dashes, Equals, Colon, Semicolon, Nul} \subseteq Symbols /\ Labels \subseteq Symbols
  /\ Dashes # Equals /\ Dashes # Nul /\ Equals # Nul
  /\ Colon # Semicolon /\ Colon # Nul /\ Semicolon # Nul
  /\ \A f \in Labels : f \notin {Dashes, Equals, Colon, Semicolon, Nul, Newline, " "}
<1>1. {Dashes, Equals, Colon, Semicolon, Nul} \subseteq Symbols /\ Labels \subseteq Symbols
  BY SymbolsAre DEF Marks, Dashes, Equals, Colon, Semicolon
<1>2. /\ Dashes # Equals /\ Dashes # Nul /\ Equals # Nul
      /\ Colon # Semicolon /\ Colon # Nul /\ Semicolon # Nul
  BY DEF Dashes, Equals, Colon, Semicolon, Nul
<1>3. \A k \in 1 .. 11 :
        LabelOrder[k] \notin {Dashes, Equals, Colon, Semicolon, Nul, Newline, " "}
  <2> DEFINE Names == {"autore", "titolo", "editore", "anno", "volume", "scaffale",
                       "collocazione", "luogo_pubblicazione", "descrizione_fisica",
                       "nota", "prestito"}
  <2>1. \A f \in Names : f \notin {"--", "=", ":", ";", "NUL", "\n", " "}
    OBVIOUS
  <2>2. \A f \in Names : f \notin {Dashes, Equals, Colon, Semicolon, Nul, Newline, " "}
    <3> HIDE DEF Names
    <3> QED  BY <2>1 DEF Dashes, Equals, Colon, Semicolon, Nul, Newline
  <2>3. \A k \in 1 .. 11 : LabelOrder[k] \in Names
    BY DEF LabelOrder
  <2> HIDE DEF Names
  <2> QED  BY <2>2, <2>3
<1> QED  BY <1>1, <1>2, <1>3, LabelsAre, ZenonT(60)

\* An option that is written as it is read.
Proper(argument, f) ==
  /\ argument \in Argument /\ f \in OptionLabels /\ Gives(argument, f)
  /\ \A i \in 1 .. Len(Given(argument)) : Given(argument)[i] \notin {Dashes, Equals, Semicolon}

LEMMA ProperIs ==
  ASSUME NEW argument, NEW f, Proper(argument, f)
  PROVE  /\ argument \in Seq(Symbols) /\ Len(argument) \in Nat /\ Len(argument) >= 3
         /\ argument[1] = Dashes /\ argument[2] = f /\ argument[3] = Equals
         /\ Given(argument) \in Seq(Symbols) /\ Len(Given(argument)) = Len(argument) - 3
         /\ \A i \in 1 .. Len(argument) - 3 :
              /\ Given(argument)[i] = argument[i + 3]
              /\ argument[i + 3] \notin {Dashes, Equals, Semicolon, Nul}
<1>1. argument \in Seq(Symbols) /\ \A i \in 1 .. Len(argument) : argument[i] # Nul
  BY ArgumentIs DEF Proper
<1> DEFINE start == <<"--", f, "=">>
           n == Len(argument)
<1>2. /\ Len(start) = 3 /\ SubSeq(start, 1, 3) = start
      /\ start[1] = Dashes /\ start[2] = f /\ start[3] = Equals
  <2>1. start = <<Dashes, f, Equals>>
    BY DEF Dashes, Equals
  <2> HIDE DEF start
  <2>2. Len(start) = 3 /\ start[1] = Dashes /\ start[2] = f /\ start[3] = Equals
    BY <2>1
  <2>3. start \in Seq(Symbols)
    <3>1. Dashes \in Symbols /\ Equals \in Symbols /\ f \in Symbols
      BY SeparatorsAre DEF Proper, OptionLabels
    <3> QED  BY <2>1, <3>1
  <2>4. SubSeq(start, 1, Len(start)) = start
    BY <2>3, SubSeqFull
  <2> QED  BY <2>2, <2>4
<1>3. n \in Nat /\ 3 <= n /\ SubSeq(argument, 1, 3) = start
  <2>1. Len(start) <= n /\ SubSeq(start, 1, Len(start)) = SubSeq(argument, 1, Len(start))
    BY DEF Proper, Gives, IsPrefix
  <2> HIDE DEF start
  <2> QED  BY <1>1, <1>2, <2>1
<1> HIDE DEF start
<1>4. \A i \in 1 .. 3 : SubSeq(argument, 1, 3)[i] = argument[i]
  <2>1. \A i \in 1 .. 3 : argument[i] \in Symbols
    BY <1>1, <1>3
  <2>2. \A i \in 1 .. 3 - 1 + 1 : SubSeq(argument, 1, 3)[i] = argument[1 + i - 1]
    BY <2>1, SubSeqProperties
  <2> QED  BY <2>2
<1>5. argument[1] = Dashes /\ argument[2] = f /\ argument[3] = Equals
  BY <1>2, <1>3, <1>4
<1>6. /\ Given(argument) \in Seq(Symbols) /\ Len(Given(argument)) = n - 3
      /\ \A i \in 1 .. n - 3 : Given(argument)[i] = argument[i + 3]
  <2>1. \A i \in 4 .. n : argument[i] \in Symbols
    BY <1>1, <1>3
  <2>2. /\ SubSeq(argument, 4, n) \in Seq(Symbols)
        /\ Len(SubSeq(argument, 4, n)) = IF 4 <= n THEN n - 4 + 1 ELSE 0
        /\ \A i \in 1 .. n - 4 + 1 : SubSeq(argument, 4, n)[i] = argument[4 + i - 1]
    BY <1>3, <2>1, SubSeqProperties
  <2>3. /\ (IF 4 <= n THEN n - 4 + 1 ELSE 0) = n - 3
        /\ \A i \in 1 .. n - 3 : i \in 1 .. n - 4 + 1 /\ 4 + i - 1 = i + 3
    <3> HIDE DEF n
    <3> QED  BY <1>3
  <2>4. Given(argument) = SubSeq(argument, 4, n)
    BY DEF Given
  <2> QED  BY <2>2, <2>3, <2>4
<1>7. \A i \in 1 .. n - 3 : argument[i + 3] \notin {Dashes, Equals, Semicolon, Nul}
  <2> TAKE i \in 1 .. n - 3
  <2>1. i + 3 \in 1 .. n
    BY <1>3
  <2>2. Given(argument)[i] \notin {Dashes, Equals, Semicolon}
    BY <1>6 DEF Proper
  <2> QED  BY <1>1, <1>6, <2>1, <2>2
<1> QED  BY <1>1, <1>3, <1>5, <1>6, <1>7

\* The option it is taken for is the one it gives.
LEMMA ProperOption ==
  ASSUME NEW argument, NEW f, Proper(argument, f)
  PROVE  IsOption(argument) /\ Option(argument) = f
<1> DEFINE n == Len(argument)
<1>1. /\ argument \in Seq(Symbols) /\ n \in Nat /\ n >= 3
      /\ argument[1] = Dashes /\ argument[2] = f /\ argument[3] = Equals
      /\ \A i \in 1 .. n - 3 : argument[i + 3] # Dashes
  BY ProperIs
<1>2. f \in Labels /\ f # Dashes /\ Dashes # Equals /\ f \in OptionLabels
  BY SeparatorsAre DEF Proper, OptionLabels
<1>3. \A i \in 2 .. n : argument[i] # Dashes
  <2> TAKE i \in 2 .. n
  <2>1. i = 2 \/ i = 3 \/ (i - 3 \in 1 .. n - 3 /\ (i - 3) + 3 = i)
    BY <1>1
  <2> QED  BY <1>1, <1>2, <2>1
<1>4. ASSUME NEW g
      PROVE  Within(<<"--", g>>, argument) <=> g = f
  <2> DEFINE key == <<"--", g>>
  <2>1. Len(key) = 2 /\ key = <<Dashes, g>> /\ key[1] = Dashes /\ key[2] = g
    BY DEF Dashes
  <2> HIDE DEF key
  <2>2. \A i \in 0 .. n - 2 : /\ Len(SubSeq(argument, i + 1, i + 2)) = 2
                              /\ SubSeq(argument, i + 1, i + 2)[1] = argument[i + 1]
                              /\ SubSeq(argument, i + 1, i + 2)[2] = argument[i + 2]
                              /\ SubSeq(argument, i + 1, i + 2) = <<argument[i + 1], argument[i + 2]>>
    <3> TAKE i \in 0 .. n - 2
    <3> DEFINE s == SubSeq(argument, i + 1, i + 2)
    <3>0. i + 1 \in 1 .. n /\ i + 2 \in 1 .. n /\ i \in Nat
      BY <1>1
    <3>1. \A j \in i + 1 .. i + 2 : argument[j] \in Symbols
      BY <1>1, <3>0
    <3>2. /\ s \in Seq(Symbols)
          /\ Len(s) = IF i + 1 <= i + 2 THEN (i + 2) - (i + 1) + 1 ELSE 0
          /\ \A j \in 1 .. (i + 2) - (i + 1) + 1 : s[j] = argument[i + 1 + j - 1]
      BY <3>0, <3>1, SubSeqProperties
    <3> HIDE DEF s
    <3>3. Len(s) = 2 /\ (i + 2) - (i + 1) + 1 = 2 /\ i + 1 + 1 - 1 = i + 1 /\ i + 1 + 2 - 1 = i + 2
      BY <3>0, <3>2
    <3>4. s[1] = argument[i + 1] /\ s[2] = argument[i + 2]
      BY <3>2, <3>3
    <3>5. s = <<argument[i + 1], argument[i + 2]>>
      BY <3>2, <3>3, <3>4
    <3> QED  BY <3>3, <3>4, <3>5 DEF s
  <2>3. Within(key, argument) <=> \E i \in 0 .. n - 2 : SubSeq(argument, i + 1, i + 2) = key
    BY <2>1 DEF Within
  <2>4. ASSUME NEW i \in 0 .. n - 2, SubSeq(argument, i + 1, i + 2) = key
        PROVE  g = f
    <3>1. argument[i + 1] = Dashes /\ argument[i + 2] = g
      BY <2>1, <2>2, <2>4
    <3>2. i = 0 \/ i + 1 \in 2 .. n
      BY <1>1
    <3>3. i = 0
      BY <1>3, <3>1, <3>2
    <3> QED  BY <1>1, <3>1, <3>3
  <2>5. ASSUME g = f
        PROVE  SubSeq(argument, 0 + 1, 0 + 2) = key
    <3>1. 0 \in 0 .. n - 2
      BY <1>1
    <3>2. SubSeq(argument, 0 + 1, 0 + 2) = <<argument[0 + 1], argument[0 + 2]>>
      BY <2>2, <3>1
    <3> QED  BY <1>1, <2>1, <2>5, <3>2
  <2>6. 0 \in 0 .. n - 2
    BY <1>1
  <2> QED  BY <2>3, <2>4, <2>5, <2>6 DEF key
<1>5. IsOption(argument)
  BY <1>2, <1>4 DEF IsOption
<1>6. Option(argument) = f
  <2>1. PICK k \in 1 .. 11 : f = LabelOrder[k]
    BY <1>2, LabelsAre
  <2> DEFINE I == {i \in 1 .. Len(LabelOrder) : Within(<<"--", LabelOrder[i]>>, argument)}
  <2>2. I = {k}
    <3>1. \A i \in 1 .. 11 : Within(<<"--", LabelOrder[i]>>, argument) <=> i = k
      BY <1>4, <2>1, LabelsAre
    <3> QED  BY <2>1, <3>1, LabelsAre
  <2>3. SelectInSeq(LabelOrder, LAMBDA g : Within(<<"--", g>>, argument)) = k
    <3>1. SelectInSeq(LabelOrder, LAMBDA g : Within(<<"--", g>>, argument))
            = IF I # {} THEN Min(I) ELSE 0
      BY DEF SelectInSeq
    <3>2. I \in SUBSET Nat /\ I # {}
      <4> HIDE DEF I
      <4> QED  BY <2>2
    <3>3. Min(I) \in I
      <4> HIDE DEF I
      <4> QED  BY <3>2, MinIs
    <3> HIDE DEF I
    <3> QED  BY <2>2, <3>1, <3>3
  <2> QED  BY <2>1, <2>3 DEF Option
<1> QED  BY <1>5, <1>6

LEMMA Associate ==
  ASSUME NEW s \in Seq(Symbols), NEW t \in Seq(Symbols), NEW u \in Seq(Symbols)
  PROVE  /\ (s \o t) \o u = s \o (t \o u) /\ s \o t \in Seq(Symbols)
         /\ <<>> \o s = s /\ s \o <<>> = s
BY ConcatAssociative, ConcatIs, ConcatEmptySeq

\* Its name and its value, as arguments_parser cuts them.
LEMMA ProperTexts ==
  ASSUME NEW argument, NEW f, Proper(argument, f)
  PROVE  /\ RemoveDashes(LabelText(argument)) = <<f>>
         /\ ValueText(argument) = Given(argument)
<1> DEFINE n == Len(argument)
           given == Given(argument)
           word == <<Dashes, f>>
           mark == <<Equals>>
           found == Strtok(argument, 1, Equals)
<1>1. /\ argument \in Seq(Symbols) /\ n \in Nat /\ n >= 3
      /\ argument[1] = Dashes /\ argument[2] = f /\ argument[3] = Equals
      /\ given \in Seq(Symbols) /\ Len(given) = n - 3
      /\ \A i \in 1 .. n - 3 : given[i] = argument[i + 3]
      /\ \A i \in 1 .. n - 3 : argument[i + 3] # Equals /\ argument[i + 3] # Nul
  BY ProperIs
<1>2. /\ f \in Symbols /\ Dashes \in Symbols /\ Equals \in Symbols
      /\ f # Equals /\ f # Nul /\ Dashes # Equals /\ Dashes # Nul /\ Equals # Nul
  BY SeparatorsAre DEF Proper, OptionLabels
<1>3. /\ word \in Seq(Symbols) /\ Len(word) = 2 /\ word[1] = Dashes /\ word[2] = f
      /\ mark \in Seq(Symbols) /\ Len(mark) = 1 /\ mark[1] = Equals
  BY <1>2, TwoSymbols
<1> HIDE DEF word, mark, given
<1>4. Word(word, Equals)
  <2>1. \A i \in 1 .. 2 : word[i] # Equals /\ word[i] # Nul
    BY <1>2, <1>3
  <2> QED  BY <1>3, <2>1 DEF Word
<1>5. argument = word \o mark \o given
  <2> DEFINE front == word \o mark
             all == front \o given
  <2>1. front \in Seq(Symbols) /\ Len(front) = 3
        /\ front[1] = Dashes /\ front[2] = f /\ front[3] = Equals
    <3>1. 1 \in 1 .. Len(word) /\ 2 \in 1 .. Len(word) /\ 1 \in 1 .. Len(mark)
          /\ Len(word) + 1 = 3 /\ Len(word) + Len(mark) = 3
      BY <1>3
    <3>2. /\ front \in Seq(Symbols) /\ Len(front) = Len(word) + Len(mark)
          /\ \A i \in 1 .. Len(word) : front[i] = word[i]
          /\ \A i \in 1 .. Len(mark) : front[Len(word) + i] = mark[i]
      BY <1>3, ConcatIs
    <3> HIDE DEF front
    <3> QED  BY <1>3, <3>1, <3>2
  <2> HIDE DEF front
  <2>2. /\ all \in Seq(Symbols) /\ Len(all) = n
        /\ \A i \in 1 .. 3 : all[i] = front[i]
        /\ \A i \in 1 .. n - 3 : all[3 + i] = given[i]
    <3>1. given \in Seq(Symbols) /\ Len(given) = n - 3 /\ n \in Nat
      BY <1>1
    <3>2. /\ all \in Seq(Symbols) /\ Len(all) = Len(front) + Len(given)
          /\ \A i \in 1 .. Len(front) : all[i] = front[i]
          /\ \A i \in 1 .. Len(given) : all[Len(front) + i] = given[i]
      BY <2>1, <3>1, ConcatIs
    <3> HIDE DEF all, n
    <3> QED  BY <2>1, <3>1, <3>2
  <2> HIDE DEF all
  <2>3. \A i \in 1 .. n : all[i] = argument[i]
    <3> TAKE i \in 1 .. n
    <3>1. CASE i \in 1 .. 3
      BY <1>1, <2>1, <2>2, <3>1
    <3>2. CASE i \notin 1 .. 3
      <4>0. n \in Nat
        BY <1>1
      <4>1. i - 3 \in 1 .. n - 3 /\ 3 + (i - 3) = i /\ (i - 3) + 3 = i
        <5> HIDE DEF n
        <5> QED  BY <3>2, <4>0
      <4>2. all[3 + (i - 3)] = given[i - 3] /\ given[i - 3] = argument[(i - 3) + 3]
        <5> HIDE DEF n
        <5> QED  BY <1>1, <2>2, <4>1
      <4> QED  BY <4>1, <4>2
    <3> QED  BY <3>1, <3>2
  <2>4. all = argument
    BY <1>1, <2>2, <2>3, SeqEqual
  <2> QED  BY <2>4 DEF all, front
<1>6. /\ found.token = word /\ found.next \in 1 .. n + 1
      /\ Remains(argument, found.next) = given
  <2>1. 1 \in 1 .. n + 1
    BY <1>1
  <2>2. Remains(argument, 1) = word \o <<Equals>> \o given
    <3>1. Remains(argument, 1) = argument
      BY <1>1, AllRemains
    <3> QED  BY <1>5, <3>1 DEF mark
  <2>3. Stands(argument, 1, Equals, word, given)
    BY <1>1, <1>2, <1>4, <2>1, <2>2 DEF Stands
  <2>4. Cuts(found, argument, word, given)
    BY <2>3, NextWord
  <2> HIDE DEF found
  <2> QED  BY <2>4 DEF Cuts
<1> HIDE DEF found
<1>7. LabelText(argument) = word /\ ValueText(argument) = Strtok(argument, found.next, Equals).token
  BY <1>6 DEF LabelText, ValueText, Equals, found
<1>8. ValueText(argument) = given
  <2>1. CASE given = <<>>
    <3>1. Strtok(argument, found.next, Equals) = [token |-> NULL, next |-> n + 1, text |-> argument]
      BY <1>1, <1>6, <2>1, NoMoreTokens
    <3> QED  BY <1>7, <2>1, <3>1 DEF NULL
  <2>2. CASE given # <<>>
    <3>1. Word(given, Equals)
      BY <1>1, <2>2 DEF Word
    <3>2. StandsLast(argument, found.next, Equals, given)
      BY <1>1, <1>2, <1>6, <3>1 DEF StandsLast
    <3>3. Strtok(argument, found.next, Equals)
            = [token |-> given, next |-> n + 1, text |-> argument]
      BY <3>2, LastWord
    <3> QED  BY <1>7, <3>3
  <2> QED  BY <2>1, <2>2
<1>9. RemoveDashes(word) = <<f>>
  <2>1. word # <<>> /\ Head(word) = Dashes /\ Tail(word) = <<f>>
    BY DEF word
  <2> QED  BY <2>1 DEF RemoveDashes, Dashes
<1> QED  BY <1>7, <1>8, <1>9 DEF given

\* The value as it is sent, which is what was typed, a word without ";".
Sent(argument) == ToUpperCase(Given(argument))

LEMMA SentIs ==
  ASSUME NEW argument, NEW f, Proper(argument, f), Given(argument) # <<>>
  PROVE  /\ Word(Sent(argument), Semicolon) /\ Sent(argument) \in Seq(Symbols)
         /\ Sent(argument) = [Given(argument) EXCEPT ![1] =
                                IF @ \in DOMAIN Upper THEN Upper[@] ELSE @]
<1> DEFINE given == Given(argument)
           first == IF given[1] \in DOMAIN Upper THEN Upper[given[1]] ELSE given[1]
           sent == [given EXCEPT ![1] = first]
<1>1. /\ given \in Seq(Symbols) /\ Len(given) \in Nat /\ Len(given) # 0
      /\ \A i \in 1 .. Len(given) : given[i] # Semicolon /\ given[i] # Nul
  <2>1. /\ given \in Seq(Symbols) /\ Len(given) = Len(argument) - 3
        /\ \A i \in 1 .. Len(argument) - 3 :
              /\ given[i] = argument[i + 3]
              /\ argument[i + 3] \notin {Dashes, Equals, Semicolon, Nul}
    BY ProperIs
  <2> HIDE DEF given
  <2>2. given # <<>>
    BY DEF given
  <2>3. \A i \in 1 .. Len(given) : given[i] # Semicolon /\ given[i] # Nul
    BY <2>1
  <2> QED  BY <2>1, <2>2, <2>3
<1>2. Upper \in [DOMAIN Upper -> STRING \ Marks] /\ STRING \subseteq Symbols
      /\ Semicolon \in Marks /\ Nul \in Marks
  BY WordsAssumption, SymbolsAre DEF Marks, Semicolon, Nul
<1> HIDE DEF given
<1>3. first \in Symbols /\ first # Semicolon /\ first # Nul
  <2>1. 1 \in 1 .. Len(given)
    BY <1>1
  <2>2. given[1] \in Symbols /\ given[1] # Semicolon /\ given[1] # Nul
    BY <1>1, <2>1
  <2> DEFINE g == given[1]
  <2> HIDE DEF g
  <2>3. g \in DOMAIN Upper => Upper[g] \in Symbols /\ Upper[g] # Semicolon /\ Upper[g] # Nul
    BY <1>2
  <2> QED  BY <2>2, <2>3 DEF g
<1> HIDE DEF first
<1>4. /\ sent \in Seq(Symbols) /\ Len(sent) = Len(given)
      /\ \A i \in 1 .. Len(given) : sent[i] = IF i = 1 THEN first ELSE given[i]
  <2>1. 1 \in 1 .. Len(given)
    BY <1>1
  <2> QED  BY <1>1, <1>3, <2>1, ExceptSeq
<1> HIDE DEF sent
<1>5. Word(sent, Semicolon)
  BY <1>1, <1>3, <1>4 DEF Word
<1>6. ToUpperCase(given) = sent
  <2>1. Head(given) = given[1] /\ given # <<>>
    BY <1>1
  <2>2. CASE given[1] \in DOMAIN Upper
    <3> DEFINE head == <<Upper[given[1]]>>
               tail == Tail(given)
               whole == head \o tail
    <3>1. /\ tail \in Seq(Symbols) /\ Len(tail) = Len(given) - 1
          /\ \A i \in 1 .. Len(tail) : tail[i] = given[i + 1]
      BY <1>1, <2>1, HeadTailProperties
    <3>2. first = Upper[given[1]]
      BY <2>2 DEF first
    <3>3. head \in Seq(Symbols) /\ Len(head) = 1 /\ head[1] = first
      BY <1>3, <3>2, OneSymbol
    <3>4. ToUpperCase(given) = whole
      BY <2>1, <2>2 DEF ToUpperCase
    <3> HIDE DEF head, tail
    <3>5. /\ whole \in Seq(Symbols) /\ Len(whole) = 1 + Len(tail)
          /\ whole[1] = head[1]
          /\ \A i \in 1 .. Len(tail) : whole[1 + i] = tail[i]
      <4>1. /\ whole \in Seq(Symbols) /\ Len(whole) = Len(head) + Len(tail)
            /\ \A i \in 1 .. Len(head) : whole[i] = head[i]
            /\ \A i \in 1 .. Len(tail) : whole[Len(head) + i] = tail[i]
        BY <3>1, <3>3, ConcatIs
      <4>2. Len(head) = 1 /\ 1 \in 1 .. Len(head)
        BY <3>3
      <4> HIDE DEF whole
      <4> QED  BY <4>1, <4>2
    <3> HIDE DEF whole
    <3>6. \A i \in 1 .. Len(given) : whole[i] = sent[i]
      <4> TAKE i \in 1 .. Len(given)
      <4>1. CASE i = 1
        BY <1>4, <3>3, <3>5, <4>1
      <4>2. CASE i # 1
        <5>0. Len(tail) = Len(given) - 1 /\ Len(given) \in Nat
          BY <1>1, <3>1
        <5>1. i - 1 \in 1 .. Len(tail) /\ 1 + (i - 1) = i /\ (i - 1) + 1 = i
          BY <4>2, <5>0
        <5>2. whole[1 + (i - 1)] = tail[i - 1] /\ tail[i - 1] = given[(i - 1) + 1]
          BY <3>1, <3>5, <5>1
        <5>3. sent[i] = given[i]
          BY <1>4, <4>2
        <5> QED  BY <5>1, <5>2, <5>3
      <4> QED  BY <4>1, <4>2
    <3>7. Len(whole) = Len(given)
      BY <1>1, <3>1, <3>5
    <3>8. whole = sent
      BY <1>4, <3>5, <3>6, <3>7, SeqEqual
    <3> QED  BY <3>4, <3>8
  <2>3. CASE given[1] \notin DOMAIN Upper
    <3>1. ToUpperCase(given) = given
      BY <2>1, <2>3 DEF ToUpperCase
    <3>2. first = given[1]
      BY <2>3 DEF first
    <3>3. \A i \in 1 .. Len(given) : given[i] = sent[i]
      BY <1>4, <3>2
    <3>4. given = sent
      BY <1>1, <1>4, <3>3, SeqEqual
    <3> QED  BY <3>1, <3>4
  <2> QED  BY <2>2, <2>3
<1> QED  BY <1>4, <1>5, <1>6 DEF Sent, sent, first, given

LEMMA GivesIsOption ==
  ASSUME NEW argument \in Argument, NEW f \in OptionLabels, Gives(argument, f)
  PROVE  IsOption(argument)
<1> DEFINE start == <<"--", f, "=">>
           key == <<"--", f>>
           n == Len(argument)
<1>1. argument \in Seq(Symbols) /\ n \in Nat
  BY ArgumentIs
<1>2. Len(start) = 3 /\ start[1] = Dashes /\ start[2] = f /\ start \in Seq(Symbols)
  <2>1. start = <<Dashes, f, Equals>>
    BY DEF Dashes, Equals
  <2>2. Dashes \in Symbols /\ Equals \in Symbols /\ f \in Symbols
    BY SeparatorsAre DEF OptionLabels
  <2> HIDE DEF start
  <2> QED  BY <2>1, <2>2
<1>3. 3 <= n /\ SubSeq(argument, 1, 3) = start
  <2>1. Len(start) <= n /\ SubSeq(start, 1, Len(start)) = SubSeq(argument, 1, Len(start))
    BY DEF Gives, IsPrefix
  <2>2. SubSeq(start, 1, Len(start)) = start
    BY <1>2, SubSeqFull
  <2> HIDE DEF start
  <2> QED  BY <1>2, <2>1, <2>2
<1> HIDE DEF start
<1>4. argument[1] = Dashes /\ argument[2] = f
  <2>1. \A i \in 1 .. 3 : argument[i] \in Symbols
    BY <1>1, <1>3
  <2>2. \A i \in 1 .. 3 - 1 + 1 : SubSeq(argument, 1, 3)[i] = argument[1 + i - 1]
    BY <2>1, SubSeqProperties
  <2>3. 1 \in 1 .. 3 - 1 + 1 /\ 2 \in 1 .. 3 - 1 + 1 /\ 1 + 1 - 1 = 1 /\ 1 + 2 - 1 = 2
    OBVIOUS
  <2> QED  BY <1>2, <1>3, <2>2, <2>3
<1>5. key = <<Dashes, f>> /\ Len(key) = 2
  BY DEF Dashes
<1> HIDE DEF key
<1>6. SubSeq(argument, 0 + 1, 0 + 2) = key
  <2> DEFINE s == SubSeq(argument, 1, 2)
  <2>1. \A i \in 1 .. 2 : argument[i] \in Symbols
    BY <1>1, <1>3
  <2>2. /\ s \in Seq(Symbols) /\ Len(s) = IF 1 <= 2 THEN 2 - 1 + 1 ELSE 0
        /\ \A i \in 1 .. 2 - 1 + 1 : s[i] = argument[1 + i - 1]
    BY <2>1, SubSeqProperties
  <2> HIDE DEF s
  <2>3. Len(s) = 2 /\ s[1] = Dashes /\ s[2] = f
    <3>1. 1 \in 1 .. 2 - 1 + 1 /\ 2 \in 1 .. 2 - 1 + 1 /\ 1 + 1 - 1 = 1 /\ 1 + 2 - 1 = 2
      OBVIOUS
    <3> QED  BY <1>4, <2>2, <3>1
  <2>4. s = <<Dashes, f>>
    BY <2>2, <2>3
  <2>5. 0 + 1 = 1 /\ 0 + 2 = 2
    OBVIOUS
  <2> QED  BY <1>5, <2>4, <2>5 DEF s
<1>7. 0 \in 0 .. n - 2
  BY <1>1, <1>3
<1>8. Within(key, argument)
  BY <1>5, <1>6, <1>7 DEF Within
<1> QED  BY <1>8 DEF IsOption, key

CleanCommand(c) == c \in Commands \cup {<<>>} /\ Accepted(c) /\ Clean(c)

LEMMA CleanIs ==
  ASSUME NEW c, CleanCommand(c)
  PROVE  /\ c \in Seq(Argument) /\ Len(c) \in Nat
         /\ \A i \in 1 .. Len(c) :
              /\ c[i] \in Argument
              /\ IsOption(c[i]) <=> \E f : Proper(c[i], f)
              /\ \A f : Proper(c[i], f) => Given(c[i]) # <<>>
              /\ \A f \in OptionLabels : Gives(c[i], f) => Proper(c[i], f)
         /\ \A i, j \in 1 .. Len(c) : \A f : Proper(c[i], f) /\ Proper(c[j], f) => i = j
         /\ \A i \in 1 .. Len(c) : \A f, g : Proper(c[i], f) /\ Proper(c[i], g) => f = g
<1>1. c \in Seq(Argument) /\ Len(c) \in Nat /\ DOMAIN c = 1 .. Len(c)
  BY CommandIs, LenProperties DEF CleanCommand
<1>2. ASSUME NEW i \in 1 .. Len(c)
      PROVE  /\ c[i] \in Argument
             /\ IsOption(c[i]) <=> \E f : Proper(c[i], f)
             /\ \A f : Proper(c[i], f) => Given(c[i]) # <<>>
             /\ \A f \in OptionLabels : Gives(c[i], f) => Proper(c[i], f)
  <2> DEFINE a == c[i]
  <2>1. a \in Argument
    BY <1>1, ElementOfSeq
  <2>2. IsOption(a) => /\ \E f \in OptionLabels : Gives(a, f)
                       /\ {"--", "=", ";"} \cap ToSet(Given(a)) = {}
    BY <1>1 DEF CleanCommand, Clean
  <2>3. \A f : Proper(a, f) => IsOption(a)
    BY ProperOption
  <2>4. ASSUME IsOption(a), NEW f \in OptionLabels, Gives(a, f)
        PROVE  Proper(a, f)
    <3>1. {Dashes, Equals, Semicolon} \cap ToSet(Given(a)) = {}
      BY <2>2, <2>4 DEF Dashes, Equals, Semicolon
    <3>2. Given(a) \in Seq(Symbols)
      <4>1. a \in Seq(Symbols)
        BY <2>1, ArgumentIs
      <4> HIDE DEF a
      <4>2. \A k \in 4 .. Len(a) : a[k] \in Symbols
        BY <4>1
      <4>3. Len(a) \in Int
        BY <4>1
      <4> QED  BY <4>2, <4>3, SubSeqProperties DEF Given
    <3>3. \A k \in 1 .. Len(Given(a)) : Given(a)[k] \in ToSet(Given(a))
      BY <3>2, LenProperties DEF ToSet
    <3> HIDE DEF a
    <3> QED  BY <2>1, <2>4, <3>1, <3>3 DEF Proper
  <2>5. \A f \in OptionLabels : Gives(a, f) => Proper(a, f)
    BY <2>1, <2>4, GivesIsOption
  <2>6. IsOption(a) => \E f : Proper(a, f)
    BY <2>2, <2>4
  <2>7. \A f : Proper(a, f) => Given(a) # <<>>
    <3>1. IsOption(a) => ValueText(a) # NULL
      BY <1>1 DEF CleanCommand, Accepted
    <3> HIDE DEF a
    <3> QED  BY <2>3, <3>1, ProperTexts DEF NULL
  <2> QED  BY <2>1, <2>3, <2>5, <2>6, <2>7
<1>3. ASSUME NEW i \in 1 .. Len(c), NEW j \in 1 .. Len(c), NEW f,
             Proper(c[i], f), Proper(c[j], f)
      PROVE  i = j
  <2>1. /\ IsOption(c[i]) /\ IsOption(c[j]) /\ Option(c[i]) = f /\ Option(c[j]) = f
    BY <1>3, ProperOption
  <2> QED  BY <1>1, <2>1 DEF CleanCommand, Accepted
<1>4. \A i \in 1 .. Len(c) : \A f, g : Proper(c[i], f) /\ Proper(c[i], g) => f = g
  BY ProperOption
<1> QED  BY <1>1, <1>2, <1>3, <1>4

LEMMA WantedIs ==
  ASSUME NEW c, CleanCommand(c)
  PROVE  /\ Wanted(c) = [f \in Labels |-> Wanted(c)[f]]
         /\ \A f \in Labels :
              (\A i \in 1 .. Len(c) : ~Proper(c[i], f)) => Wanted(c)[f] = <<>>
         /\ \A i \in 1 .. Len(c) : \A f : Proper(c[i], f) =>
              Wanted(c)[f] = Sent(c[i])
<1> DEFINE Giver(f) == CHOOSE argument \in ToSet(c) : Gives(argument, f)
           Value(f) == [Given(Giver(f)) EXCEPT ![1] =
                          IF @ \in DOMAIN Upper THEN Upper[@] ELSE @]
           Want(f) ==
             IF f \notin OptionLabels \/ \A i \in DOMAIN c : ~Gives(c[i], f)
             THEN <<>> ELSE Value(f)
<1>1. Wanted(c) = [f \in Labels |-> Want(f)]
  BY DEF Wanted
<1>2. /\ c \in Seq(Argument) /\ DOMAIN c = 1 .. Len(c)
      /\ \A i \in 1 .. Len(c), f \in OptionLabels : Gives(c[i], f) => Proper(c[i], f)
      /\ \A i, j \in 1 .. Len(c) : \A f : Proper(c[i], f) /\ Proper(c[j], f) => i = j
  BY CleanIs, LenProperties
<1>3. ASSUME NEW f \in Labels, \A i \in 1 .. Len(c) : ~Proper(c[i], f)
      PROVE  Want(f) = <<>>
  <2> HIDE DEF Value
  <2> QED  BY <1>2, <1>3
<1>4. ASSUME NEW i \in 1 .. Len(c), NEW f, Proper(c[i], f)
      PROVE  f \in Labels /\ Want(f) = Sent(c[i])
  <2>1. f \in OptionLabels /\ Gives(c[i], f)
    BY <1>4 DEF Proper
  <2>2. Giver(f) = c[i]
    <3>1. c[i] \in ToSet(c)
      BY <1>2 DEF ToSet
    <3>2. ASSUME NEW argument \in ToSet(c), Gives(argument, f)
          PROVE  argument = c[i]
      <4>1. PICK j \in 1 .. Len(c) : argument = c[j]
        BY <1>2 DEF ToSet
      <4> QED  BY <1>2, <1>4, <2>1, <3>2, <4>1
    <3> QED  BY <2>1, <3>1, <3>2
  <2>3. Given(c[i]) # <<>>
    BY <1>4, CleanIs
  <2>4. Value(f) = Sent(c[i])
    <3> HIDE DEF Giver
    <3> QED  BY <1>4, <2>2, <2>3, SentIs
  <2>5. f \in Labels
    BY <2>1 DEF OptionLabels
  <2> HIDE DEF Value
  <2> QED  BY <1>2, <2>1, <2>4, <2>5
<1> HIDE DEF Want
<1> QED  BY <1>1, <1>3, <1>4

\* What data_tokenizer makes of the book that was typed: it keeps no valid year.
Parsed(c) ==
  [f \in Labels |-> IF f # "anno" THEN Wanted(c)[f]
                    ELSE IF Wanted(c)[f] = <<>> \/ ValidYear(Wanted(c)[f])
                         THEN <<>> ELSE <<"ERROR">>]

LEMMA ParsedIs ==
  ASSUME NEW c, CleanCommand(c)
  PROVE  /\ Parsed(c) = [f \in Labels |-> Parsed(c)[f]]
         /\ \A f \in Labels :
              (\A i \in 1 .. Len(c) : ~Proper(c[i], f)) => Parsed(c)[f] = <<>>
         /\ \A i \in 1 .. Len(c) : \A f : Proper(c[i], f) =>
              Parsed(c)[f] = IF f # "anno" THEN Sent(c[i])
                             ELSE IF ValidYear(Sent(c[i])) THEN <<>> ELSE <<"ERROR">>
<1>1. \A f \in Labels :
        Parsed(c)[f] = IF f # "anno" THEN Wanted(c)[f]
                       ELSE IF Wanted(c)[f] = <<>> \/ ValidYear(Wanted(c)[f])
                            THEN <<>> ELSE <<"ERROR">>
  BY DEF Parsed
<1>2. Parsed(c) = [f \in Labels |-> Parsed(c)[f]]
  BY DEF Parsed
<1>3. ASSUME NEW i \in 1 .. Len(c), NEW f, Proper(c[i], f)
      PROVE  f \in Labels /\ Wanted(c)[f] = Sent(c[i]) /\ Sent(c[i]) # <<>>
  <2>1. f \in Labels
    BY <1>3 DEF Proper, OptionLabels
  <2>2. Given(c[i]) # <<>>
    BY <1>3, CleanIs
  <2>3. Word(Sent(c[i]), Semicolon)
    BY <1>3, <2>2, SentIs
  <2>4. Sent(c[i]) # <<>>
    BY <2>3 DEF Word
  <2> QED  BY <1>3, <2>1, <2>4, WantedIs
<1>4. \A f \in Labels :
        (\A i \in 1 .. Len(c) : ~Proper(c[i], f)) => Wanted(c)[f] = <<>>
  BY WantedIs
<1> HIDE DEF Parsed
<1> QED  BY <1>1, <1>2, <1>3, <1>4

\* The year is all that the parse loses, and it refuses only a year.
LEMMA ParsedKeeps ==
  ASSUME NEW c
  PROVE  /\ Keeps(Parsed(c), c)
         /\ Parsed(c)["anno"] # <<>> => Wanted(c)["anno"] # <<>>
<1>1. "anno" \in Labels
  <2>1. 4 \in DOMAIN LabelOrder /\ LabelOrder[4] = "anno"
    BY DEF LabelOrder
  <2> QED  BY <2>1 DEF Labels, ToSet
<1> QED  BY <1>1 DEF Parsed, Keeps, KeptLabels

-----------------------------------------------------------------------------
(* A message read to its end: the worker that nobody disturbs. *)

\* What the book holds when the options after the i-th have been read.
Stored(c, i) ==
  [f \in Labels |-> IF \E j \in i + 1 .. Len(c) : Proper(c[j], f)
                    THEN Parsed(c)[f] ELSE <<>>]

LEMMA StoredEnds ==
  ASSUME NEW c, CleanCommand(c)
  PROVE  Stored(c, Len(c)) = EmptyBook /\ Stored(c, 0) = Parsed(c)
<1>1. Len(c) \in Nat
  BY CleanIs
<1>2. Stored(c, Len(c)) = EmptyBook
  <2>1. Len(c) + 1 .. Len(c) = {}
    BY <1>1
  <2> QED  BY <2>1 DEF Stored, EmptyBook
<1>3. /\ Parsed(c) = [f \in Labels |-> Parsed(c)[f]]
      /\ \A f \in Labels :
           (\A i \in 1 .. Len(c) : ~Proper(c[i], f)) => Parsed(c)[f] = <<>>
  BY ParsedIs
<1>4. \A f \in Labels : (IF \E j \in 1 .. Len(c) : Proper(c[j], f)
                         THEN Parsed(c)[f] ELSE <<>>) = Parsed(c)[f]
  BY <1>3
<1>5. Stored(c, 0) = [f \in Labels |-> Parsed(c)[f]]
  <2>1. 0 + 1 .. Len(c) = 1 .. Len(c)
    BY <1>1
  <2> QED  BY <1>4, <2>1 DEF Stored
<1> QED  BY <1>2, <1>3, <1>5

\* An argument that is no option changes nothing.
LEMMA StoredSame ==
  ASSUME NEW c, CleanCommand(c), NEW i \in 1 .. Len(c), \A f : ~Proper(c[i], f)
  PROVE  Stored(c, i) = Stored(c, i - 1)
<1>1. Len(c) \in Nat
  BY CleanIs
<1>2. \A j : j \in (i - 1) + 1 .. Len(c) <=> j = i \/ j \in i + 1 .. Len(c)
  BY <1>1
<1>3. \A f : (\E j \in (i - 1) + 1 .. Len(c) : Proper(c[j], f))
               <=> \E j \in i + 1 .. Len(c) : Proper(c[j], f)
  BY <1>2
<1> QED  BY <1>3 DEF Stored

\* One turn of data_tokenizer stores the option that stands before the others.
LEMMA StoreIs ==
  ASSUME NEW c, CleanCommand(c), NEW i \in 1 .. Len(c), NEW f, Proper(c[i], f)
  PROVE  Store(Stored(c, i), <<f>>, Sent(c[i])) = Stored(c, i - 1)
<1> DEFINE before == Stored(c, i)
           after == Stored(c, i - 1)
           parsed == Parsed(c)
           sent == Sent(c[i])
           Later(g) == \E j \in i + 1 .. Len(c) : Proper(c[j], g)
           error == <<"ERROR">>
<1>1. /\ Len(c) \in Nat
      /\ \A j, k \in 1 .. Len(c) : \A g : Proper(c[j], g) /\ Proper(c[k], g) => j = k
      /\ \A g : Proper(c[i], g) => f = g
  BY CleanIs
<1>2. \A j : j \in (i - 1) + 1 .. Len(c) <=> j = i \/ j \in i + 1 .. Len(c)
  BY <1>1
<1>3. \A g : (\E j \in (i - 1) + 1 .. Len(c) : Proper(c[j], g)) <=> g = f \/ Later(g)
  BY <1>1, <1>2
<1>4. ~Later(f)
  <2> SUFFICES ASSUME NEW j \in i + 1 .. Len(c), Proper(c[j], f)
               PROVE  FALSE
    OBVIOUS
  <2>1. j \in 1 .. Len(c) /\ j # i
    BY <1>1
  <2> QED  BY <1>1, <2>1
<1>5. f \in Labels /\ f \in OptionLabels
  BY DEF Proper, OptionLabels
<1>6. /\ before = [g \in Labels |-> IF Later(g) THEN parsed[g] ELSE <<>>]
      /\ after = [g \in Labels |-> IF g = f \/ Later(g) THEN parsed[g] ELSE <<>>]
  BY <1>3 DEF Stored
<1>7. parsed[f] = IF f # "anno" THEN sent ELSE IF ValidYear(sent) THEN <<>> ELSE error
  BY ParsedIs
<1> HIDE DEF Later, parsed, sent, error, before, after
<1>0. SUFFICES Store(before, <<f>>, sent) = after
  BY DEF before, after, sent
<1>8. after = [before EXCEPT ![f] = parsed[f]]
  BY <1>5, <1>6
<1>9. before[f] = <<>> /\ DOMAIN before = Labels
  BY <1>4, <1>5, <1>6
<1>10. [before EXCEPT ![f] = <<>>] = before
  BY <1>6, <1>9
<1>11. CASE f = "anno"
  BY <1>7, <1>8, <1>10, <1>11 DEF Store, error
<1>12. CASE f # "anno"
  <2>1. <<f>> # <<"anno">> /\ Len(<<f>>) = 1 /\ Head(<<f>>) = f
    BY <1>12
  <2> DEFINE name == <<f>>
  <2> HIDE DEF name
  <2>2. name # <<"anno">> /\ Len(name) = 1 /\ Head(name) = f
    BY <2>1 DEF name
  <2>3. Store(before, name, sent) = [before EXCEPT ![f] = sent]
    BY <1>5, <2>2 DEF Store
  <2> QED  BY <1>7, <1>8, <1>12, <2>3 DEF name
<1> QED  BY <1>11, <1>12

\* The message of each number of arguments.
Texts(c) == CHOOSE m : Messages(m, c)

\* The message from the value of the i-th argument on.
FromValue(c, i) == Sent(c[i]) \o <<Semicolon>> \o Texts(c)[i - 1]

LEMMA SentWord ==
  ASSUME NEW c, CleanCommand(c), NEW i \in 1 .. Len(c), NEW f, Proper(c[i], f)
  PROVE  Sent(c[i]) \in Seq(Symbols) /\ Word(Sent(c[i]), Semicolon)
<1>1. Given(c[i]) # <<>>
  BY CleanIs
<1> QED  BY <1>1, SentIs

LEMMA TextsAre ==
  ASSUME NEW c, CleanCommand(c)
  PROVE  /\ Texts(c) \in [0 .. Len(c) -> Seq(Symbols)] /\ Texts(c)[0] = <<>>
         /\ Message(c) = Texts(c)[Len(c)]
         /\ \A i \in 1 .. Len(c) :
              (\A f : ~Proper(c[i], f)) => Texts(c)[i] = Texts(c)[i - 1]
         /\ \A i \in 1 .. Len(c) : \A f : Proper(c[i], f) =>
              Texts(c)[i] = <<f>> \o <<Colon>> \o FromValue(c, i)
<1> DEFINE m == Texts(c)
<1>1. /\ c \in Seq(Argument) /\ Len(c) \in Nat
      /\ \A i \in 1 .. Len(c) : IsOption(c[i]) <=> \E f : Proper(c[i], f)
  BY CleanIs
<1>2. Messages(m, c)
  <2>1. \A i \in DOMAIN c : IsOption(c[i]) => ValueText(c[i]) # NULL
    BY DEF CleanCommand, Accepted
  <2>2. \E n : Messages(n, c)
    BY <1>1, <2>1, MessageIs
  <2> QED  BY <2>2 DEF Texts
<1> HIDE DEF m
<1>3. /\ m \in [0 .. Len(c) -> Seq(Symbols)] /\ m[0] = <<>>
      /\ \A i \in 1 .. Len(c) : m[i] = MessageStep(m[i - 1], c[i])
      /\ Message(c) = m[Len(c)]
  BY <1>2 DEF Messages
<1>4. ASSUME NEW i \in 1 .. Len(c), \A f : ~Proper(c[i], f)
      PROVE  m[i] = m[i - 1]
  <2>1. ~IsOption(c[i])
    BY <1>1, <1>4
  <2> QED  BY <1>3, <2>1 DEF MessageStep
<1>5. ASSUME NEW i \in 1 .. Len(c), NEW f, Proper(c[i], f)
      PROVE  m[i] = <<f>> \o <<Colon>> \o FromValue(c, i)
  <2> DEFINE name == <<f>>
             colon == <<Colon>>
             sent == Sent(c[i])
             semicolon == <<Semicolon>>
             rest == m[i - 1]
  <2>1. m[i] = Field(c[i]) \o rest
    <3>1. IsOption(c[i])
      BY <1>1, <1>5
    <3> QED  BY <1>3, <3>1 DEF MessageStep
  <2>2. Field(c[i]) = name \o colon \o sent \o semicolon
    BY <1>5, ProperTexts DEF Field, Sent, Colon, Semicolon
  <2>3. /\ name \in Seq(Symbols) /\ colon \in Seq(Symbols) /\ semicolon \in Seq(Symbols)
    <3>1. f \in Symbols /\ Colon \in Symbols /\ Semicolon \in Symbols
      BY <1>5, SeparatorsAre DEF Proper, OptionLabels
    <3> QED  BY <3>1, OneSymbol
  <2>4. sent \in Seq(Symbols)
    BY <1>5, SentWord
  <2>5. rest \in Seq(Symbols)
    <3>1. i - 1 \in 0 .. Len(c)
      BY <1>1
    <3> QED  BY <1>3, <3>1
  <2>6. FromValue(c, i) = sent \o semicolon \o rest
    BY DEF FromValue, m
  <2> HIDE DEF name, colon, sent, semicolon, rest
  <2> DEFINE front == name \o colon
  <2>7. front \in Seq(Symbols)
    BY <2>3, ConcatIs
  <2> HIDE DEF front
  <2>8. (front \o sent) \o semicolon = front \o (sent \o semicolon)
    BY <2>3, <2>4, <2>7, Associate, SMTT(30)
  <2>9. (front \o (sent \o semicolon)) \o rest = front \o ((sent \o semicolon) \o rest)
    <3> DEFINE value == sent \o semicolon
    <3>1. value \in Seq(Symbols)
      BY <2>3, <2>4, ConcatIs
    <3> HIDE DEF value
    <3>2. (front \o value) \o rest = front \o (value \o rest)
      BY <2>5, <2>7, <3>1, Associate, SMTT(30)
    <3> QED  BY <3>2 DEF value
  <2>10. m[i] = front \o FromValue(c, i)
    BY <2>1, <2>2, <2>6, <2>8, <2>9 DEF front
  <2> QED  BY <2>10 DEF front, name, colon
<1> QED  BY <1>3, <1>4, <1>5 DEF m

\* From the message of some first arguments data_tokenizer goes on with the
\* last option among them, or has come to its end.
LastOption(c, i, j, f) ==
  /\ j \in 1 .. i /\ Proper(c[j], f)
  /\ Texts(c)[i] = <<f>> \o <<Colon>> \o FromValue(c, j)
  /\ Stored(c, i) = Stored(c, j)

NoOption(c, i) == Texts(c)[i] = <<>> /\ Stored(c, i) = Parsed(c)

LEMMA OptionsLeft ==
  ASSUME NEW c, CleanCommand(c), NEW k \in 0 .. Len(c)
  PROVE  NoOption(c, k) \/ \E j, f : LastOption(c, k, j, f)
<1> DEFINE S == {i \in 0 .. Len(c) : NoOption(c, i) \/ \E j, f : LastOption(c, i, j, f)}
<1>0. Len(c) \in Nat
  BY CleanIs
<1>1. 0 \in S
  <2>1. NoOption(c, 0)
    BY TextsAre, StoredEnds DEF NoOption
  <2> QED  BY <1>0, <2>1
<1>2. ASSUME NEW i \in 0 .. Len(c) - 1, i \in S
      PROVE  i + 1 \in S
  <2>1. i + 1 \in 1 .. Len(c) /\ (i + 1) - 1 = i /\ i + 1 \in 0 .. Len(c)
    BY <1>0
  <2>2. CASE \A f : ~Proper(c[i + 1], f)
    <3>1. Texts(c)[i + 1] = Texts(c)[i] /\ Stored(c, i + 1) = Stored(c, i)
      BY <2>1, <2>2, TextsAre, StoredSame
    <3>2. \A j : j \in 1 .. i => j \in 1 .. i + 1
      OBVIOUS
    <3>3. NoOption(c, i) => NoOption(c, i + 1)
      BY <3>1 DEF NoOption
    <3>4. \A j, f : LastOption(c, i, j, f) => LastOption(c, i + 1, j, f)
      BY <3>1, <3>2 DEF LastOption
    <3> QED  BY <1>2, <2>1, <3>3, <3>4
  <2>3. ASSUME NEW f, Proper(c[i + 1], f)
        PROVE  i + 1 \in S
    <3>1. Texts(c)[i + 1] = <<f>> \o <<Colon>> \o FromValue(c, i + 1)
      BY <2>1, <2>3, TextsAre
    <3>2. i + 1 \in 1 .. i + 1
      OBVIOUS
    <3>3. LastOption(c, i + 1, i + 1, f)
      BY <2>3, <3>1, <3>2 DEF LastOption
    <3> QED  BY <2>1, <3>3
  <2> QED  BY <2>2, <2>3
<1>3. \A i \in 0 .. Len(c) : i \in S
  <2> HIDE DEF S
  <2> QED  BY <1>0, <1>1, <1>2, UpTo
<1> QED  BY <1>3

\* What the loop finds in the text when strtok looks for a label: the options
\* it has not stored yet, and nothing else.
AtLabel(text, at, b, c) ==
  /\ text \in Seq(Symbols) /\ at \in 1 .. Len(text) + 1
  /\ \E i \in 0 .. Len(c) : Remains(text, at) = Texts(c)[i] /\ b = Stored(c, i)

\* And when it looks for the value of the label it has.
AtValue(text, at, name, b, c) ==
  /\ text \in Seq(Symbols) /\ at \in 1 .. Len(text) + 1
  /\ \E i \in 1 .. Len(c), f \in OptionLabels :
       /\ Proper(c[i], f) /\ name = <<f>>
       /\ Remains(text, at) = FromValue(c, i) /\ b = Stored(c, i)

AtEnd(name, b, c) == name = NULL /\ b = Parsed(c)

LEMMA CutText ==
  ASSUME NEW text \in Seq(Symbols), NEW from \in 1 .. Len(text) + 1, NEW d
  PROVE  /\ Strtok(text, from, d).text \in Seq(Symbols)
         /\ Strtok(text, from, d).next \in 1 .. Len(Strtok(text, from, d).text) + 1
<1> DEFINE found == Strtok(text, from, d)
<1>1. TokenOK(text, from, d, found)
  BY StrtokType
<1> HIDE DEF found
<1>2. /\ found.text \in Seq(Symbols) /\ Len(found.text) = Len(text)
      /\ found.next \in 1 .. Len(text) + 1
  <2>1. found.text \in Seq(Symbols) /\ Len(found.text) = Len(text)
    BY <1>1 DEF TokenOK
  <2>2. found.next \in from .. Len(text) + 1
    BY <1>1 DEF TokenOK
  <2> QED  BY <2>1, <2>2
<1> QED  BY <1>2 DEF found

LEMMA FromValueIs ==
  ASSUME NEW c, CleanCommand(c), NEW i \in 1 .. Len(c), NEW f, Proper(c[i], f)
  PROVE  FromValue(c, i) \in Seq(Symbols) /\ Texts(c)[i - 1] \in Seq(Symbols)
<1> DEFINE sent == Sent(c[i])
           semicolon == <<Semicolon>>
           rest == Texts(c)[i - 1]
<1>1. rest \in Seq(Symbols)
  <2>1. i - 1 \in 0 .. Len(c)
    BY CleanIs
  <2> QED  BY <2>1, TextsAre
<1>2. sent \in Seq(Symbols)
  BY SentWord
<1>3. semicolon \in Seq(Symbols)
  BY SeparatorsAre, OneSymbol
<1>4. FromValue(c, i) = (sent \o semicolon) \o rest
  BY DEF FromValue
<1> HIDE DEF sent, semicolon, rest
<1> DEFINE front == sent \o semicolon
<1>5. front \in Seq(Symbols)
  BY <1>2, <1>3, ConcatIs
<1> HIDE DEF front
<1>6. front \o rest \in Seq(Symbols)
  BY <1>1, <1>5, ConcatIs
<1> QED  BY <1>1, <1>4, <1>6 DEF front, rest

LEMMA LabelRead ==
  ASSUME NEW c, CleanCommand(c), NEW text, NEW at, NEW b, AtLabel(text, at, b, c),
         NEW found, found = Strtok(text, at, Colon)
  PROVE  AtEnd(found.token, b, c) \/ AtValue(found.text, found.next, found.token, b, c)
<1>1. text \in Seq(Symbols) /\ at \in 1 .. Len(text) + 1
  BY DEF AtLabel
<1>2. PICK i \in 0 .. Len(c) : Remains(text, at) = Texts(c)[i] /\ b = Stored(c, i)
  BY DEF AtLabel
<1>3. CASE NoOption(c, i)
  <2>1. Remains(text, at) = <<>> /\ b = Parsed(c)
    BY <1>2, <1>3 DEF NoOption
  <2>2. found = [token |-> NULL, next |-> Len(text) + 1, text |-> text]
    BY <1>1, <2>1, NoMoreTokens
  <2> QED  BY <2>1, <2>2 DEF AtEnd
<1>4. ASSUME NEW j, NEW f, LastOption(c, i, j, f)
      PROVE  AtValue(found.text, found.next, found.token, b, c)
  <2> DEFINE name == <<f>>
             after == FromValue(c, j)
  <2>1. /\ j \in 1 .. Len(c) /\ Proper(c[j], f) /\ f \in OptionLabels /\ b = Stored(c, j)
        /\ Remains(text, at) = name \o <<Colon>> \o after
    <3>1. j \in 1 .. Len(c)
      BY <1>4, CleanIs DEF LastOption
    <3> QED  BY <1>2, <1>4, <3>1 DEF LastOption, Proper
  <2>2. after \in Seq(Symbols)
    BY <2>1, FromValueIs
  <2>3. Word(name, Colon)
    <3>1. f \in Symbols /\ f # Colon /\ f # Nul
      BY <2>1, SeparatorsAre DEF Proper, OptionLabels
    <3>2. name \in Seq(Symbols) /\ Len(name) = 1 /\ name[1] = f /\ name # <<>>
      BY <3>1, OneSymbol
    <3> HIDE DEF name
    <3> QED  BY <3>1, <3>2 DEF Word
  <2>4. Colon \in Symbols /\ Colon # Nul
    BY SeparatorsAre
  <2> HIDE DEF name, after
  <2>5. Stands(text, at, Colon, name, after)
    BY <1>1, <2>1, <2>2, <2>3, <2>4 DEF Stands
  <2>6. Cuts(found, text, name, after)
    BY <2>5, NextWord
  <2>7. found.text \in Seq(Symbols) /\ found.next \in 1 .. Len(found.text) + 1
    BY <1>1, CutText
  <2>8. found.token = name /\ Remains(found.text, found.next) = after
    BY <2>6 DEF Cuts
  <2> QED  BY <2>1, <2>7, <2>8 DEF AtValue, name, after
<1> QED  BY <1>3, <1>4, OptionsLeft

LEMMA ValueRead ==
  ASSUME NEW c, CleanCommand(c), NEW text, NEW at, NEW name, NEW b,
         AtValue(text, at, name, b, c),
         NEW found, found = Strtok(text, at, Semicolon)
  PROVE  /\ name # NULL /\ found.token # NULL
         /\ AtLabel(found.text, found.next, Store(b, name, found.token), c)
<1>1. text \in Seq(Symbols) /\ at \in 1 .. Len(text) + 1
  BY DEF AtValue
<1>2. PICK i \in 1 .. Len(c), f \in OptionLabels :
        /\ Proper(c[i], f) /\ name = <<f>>
        /\ Remains(text, at) = FromValue(c, i) /\ b = Stored(c, i)
  BY DEF AtValue
<1> DEFINE sent == Sent(c[i])
           after == Texts(c)[i - 1]
<1>3. /\ Remains(text, at) = sent \o <<Semicolon>> \o after
      /\ after \in Seq(Symbols)
  BY <1>2, FromValueIs DEF FromValue
<1>4. Word(sent, Semicolon) /\ sent # NULL
  BY <1>2, SentWord DEF Word, NULL
<1>5. Semicolon \in Symbols /\ Semicolon # Nul
  BY SeparatorsAre
<1>6. Store(b, name, sent) = Stored(c, i - 1)
  BY <1>2, StoreIs
<1>7. i - 1 \in 0 .. Len(c)
  BY CleanIs
<1> HIDE DEF sent
<1>8. Stands(text, at, Semicolon, sent, after)
  BY <1>1, <1>3, <1>4, <1>5 DEF Stands
<1>9. Cuts(found, text, sent, after)
  <2> HIDE DEF after
  <2> QED  BY <1>8, NextWord
<1>10. found.text \in Seq(Symbols) /\ found.next \in 1 .. Len(found.text) + 1
  BY <1>1, CutText
<1>11. found.token = sent /\ Remains(found.text, found.next) = after
  <2> HIDE DEF after
  <2> QED  BY <1>9 DEF Cuts
<1>12. name # NULL
  BY <1>2 DEF NULL
<1> QED  BY <1>4, <1>6, <1>7, <1>10, <1>11, <1>12 DEF AtLabel

\* Where a worker is, if its text is as it was sent and the position is its own.
OnCourse(w) ==
  LET c == command[w]
      Label(at) == at.buf = w /\ AtLabel(data[w], at.at, book[w], c)
      Value(at) == \/ AtEnd(label[w], book[w], c)
                   \/ at.buf = w /\ AtValue(data[w], at.at, label[w], book[w], c)
  IN /\ wpc[w] \in {"idle", "first"} => data[w] = Message(c) /\ book[w] = EmptyBook
     /\ wpc[w] = "value" => Value(position)
     /\ wpc[w] = "in value" => Value(entry[w])
     /\ wpc[w] = "label" => Label(position)
     /\ wpc[w] = "in label" => Label(entry[w])
     /\ wpc[w] = "parsed" => book[w] = Parsed(c)

ParseInv == \A w \in Workers : Clean(command[w]) /\ ~disturbed[w] => OnCourse(w)

\* What a worker's state is made of, but for the position of strtok.
Mine(w) == <<wpc[w], command[w], data[w], entry[w], label[w], book[w], disturbed[w]>>

LEMMA StaysOnCourse ==
  ASSUME NEW w, Clean(command[w]) /\ ~disturbed[w] => OnCourse(w),
         Mine(w)' = Mine(w), position' = position
  PROVE  Clean(command'[w]) /\ ~disturbed'[w] => OnCourse(w)'
BY DEF OnCourse, Mine

\* Another worker's step leaves a worker alone or disturbs it, or the worker
\* is not parsing.
LEMMA OthersStep ==
  ASSUME TextInv, NEW w \in Workers, NEW v \in Workers, v # w, Parse(v) \/ Finish(v),
         Clean(command[w]) /\ ~disturbed[w] => OnCourse(w)
  PROVE  Clean(command'[w]) /\ ~disturbed'[w] => OnCourse(w)'
<1>0. /\ wpc[w] \in {"idle", "first", "value", "in value", "label", "in label",
                     "parsed", "kept", "freed"}
      /\ command' \in [Workers -> Commands \cup {<<>>}] /\ disturbed \in [Workers -> BOOLEAN]
      /\ DOMAIN wpc = Workers /\ DOMAIN command = Workers /\ DOMAIN data = Workers
      /\ DOMAIN entry = Workers /\ DOMAIN label = Workers /\ DOMAIN book = Workers
  BY TextStep DEF TextInv
<1>1. CASE Receive(v) \/ ReceiveNothing(v) \/ Call(v) \/ Finish(v)
  <2>1. Mine(w)' = Mine(w) /\ position' = position
    BY <1>0, <1>1 DEF Receive, ReceiveNothing, Call, Finish, WorkerTo, Mine
  <2> QED  BY <2>1, StaysOnCourse
<1>2. CASE FirstLabel(v) \/ ReturnValue(v) \/ ReturnLabel(v)
  <2>1. /\ disturbed' = [u \in Workers |-> disturbed[u] \/ (u # v /\ Parsing(u))]
        /\ command' = command /\ entry' = entry /\ wpc'[w] = wpc[w] /\ book'[w] = book[w]
        /\ label'[w] = label[w]
    <3>1. CASE FirstLabel(v)
      BY <1>0, <3>1 DEF FirstLabel, WorkerTo, Disturb
    <3>2. CASE ReturnValue(v)
      BY <1>0, <3>2 DEF ReturnValue, WorkerTo, Disturb
    <3>3. CASE ReturnLabel(v)
      BY <1>0, <3>3 DEF ReturnLabel, WorkerTo, Disturb
    <3> QED  BY <1>2, <3>1, <3>2, <3>3
  <2>2. CASE Parsing(w)
    BY <2>1, <2>2
  <2>3. CASE ~Parsing(w)
    <3>1. CASE wpc[w] = "idle"
      <4>1. command[w] = <<>> /\ data'[w] \in Seq(Symbols) /\ data[w] \in Seq(Symbols)
            /\ Len(data'[w]) = Len(Message(command'[w]))
            /\ Len(data[w]) = Len(Message(command[w]))
        BY <3>1, TextStep DEF TextInv
      <4>2. data'[w] = <<>> /\ data[w] = <<>> /\ Message(command'[w]) = <<>>
        BY <2>1, <4>1, EmptyMessage
      <4> QED  BY <2>1, <2>3, <3>1, <4>2 DEF OnCourse
    <3>2. CASE wpc[w] \in {"parsed", "kept", "freed"}
      BY <2>1, <2>3, <3>2 DEF OnCourse
    <3> QED  BY <1>0, <2>3, <3>1, <3>2 DEF Parsing
  <2> QED  BY <2>2, <2>3
<1> QED  BY <1>1, <1>2 DEF Parse, Tokenizer

\* strtok goes on in the text of the worker that calls it.
LEMMA OwnStrtok ==
  ASSUME TextInv, NEW w \in Workers, wpc[w] \in {"in value", "in label"},
         entry[w].buf = w, NEW d, NEW found \in StrtokNULL(w, d)
  PROVE  LET cut == Strtok(data[w], entry[w].at, d)
         IN /\ found.token = cut.token
            /\ found.position.buf = w /\ found.position.at = cut.next
            /\ found.data[w] = cut.text
<1> DEFINE cut == Strtok(data[w], entry[w].at, d)
<1>1. w # None /\ wpc[w] # "freed" /\ DOMAIN data = Workers
  BY RequestAssumption DEF TextInv
<1>2. found = [token |-> cut.token, position |-> [buf |-> w, at |-> cut.next],
               data |-> [data EXCEPT ![w] = cut.text]]
  BY <1>1, Zenon DEF StrtokNULL
<1> HIDE DEF cut
<1>3. /\ found.token = cut.token
      /\ found.position.buf = w /\ found.position.at = cut.next
      /\ found.data[w] = cut.text
  BY <1>1, <1>2
<1> QED  BY <1>3 DEF cut

LEMMA OwnStep ==
  ASSUME TextInv, NEW w \in Workers, Parse(w) \/ Finish(w),
         Clean(command[w]) /\ ~disturbed[w] => OnCourse(w),
         Clean(command'[w]), ~disturbed'[w]
  PROVE  OnCourse(w)'
<1> DEFINE c == command[w]
<1>0. /\ DOMAIN wpc = Workers /\ DOMAIN command = Workers /\ DOMAIN data = Workers
      /\ DOMAIN entry = Workers /\ DOMAIN label = Workers /\ DOMAIN book = Workers
      /\ c \in Commands \cup {<<>>} /\ Accepted(c)
      /\ Len(data[w]) = Len(Message(c)) /\ data[w] \in Seq(Symbols)
      /\ wpc[w] = "idle" => c = <<>>
  BY DEF TextInv
<1>1. ~disturbed[w]
  BY DEF TextInv, Parse, Tokenizer, Receive, ReceiveNothing, Call, Finish, FirstLabel,
         ReturnValue, ReturnLabel, Disturb
<1>2. CASE Receive(w)
  <2>1. wpc'[w] = "first" /\ data'[w] = Message(command'[w]) /\ book' = book
    BY <1>0, <1>2 DEF Receive, WorkerTo
  <2>2. book[w] = EmptyBook
    <3>1. wpc[w] = "idle" /\ c = <<>>
      BY <1>0, <1>2 DEF Receive
    <3>2. DOMAIN c = {}
      BY <3>1
    <3>3. Clean(c)
      BY <3>2 DEF Clean
    <3> QED  BY <1>1, <3>1, <3>3 DEF OnCourse
  <2> QED  BY <2>1, <2>2 DEF OnCourse
<1>3. CASE ReceiveNothing(w)
  <2>1. wpc[w] = "idle" /\ wpc'[w] = "first" /\ command' = command /\ data' = data /\ book' = book
    BY <1>0, <1>3 DEF ReceiveNothing, WorkerTo
  <2>2. data[w] = Message(c) /\ book[w] = EmptyBook
    BY <1>1, <2>1 DEF OnCourse
  <2> QED  BY <2>1, <2>2 DEF OnCourse
<1>4. ASSUME Tokenizer(w) \/ Finish(w)
      PROVE  CleanCommand(c) /\ OnCourse(w) /\ command' = command
  <2>1. command' = command
    BY <1>4 DEF Tokenizer, Call, Finish, FirstLabel, ReturnValue, ReturnLabel
  <2> QED  BY <1>0, <1>1, <2>1 DEF CleanCommand
<1>5. CASE FirstLabel(w)
  <2> DEFINE found == Strtok(data[w], 1, ":")
  <2>1. /\ wpc[w] = "first" /\ wpc'[w] = "value" /\ label'[w] = found.token
        /\ data'[w] = found.text /\ position'.buf = w /\ position'.at = found.next
        /\ book' = book
    BY <1>0, <1>5 DEF FirstLabel, WorkerTo
  <2>2. CleanCommand(c) /\ command' = command /\ data[w] = Message(c) /\ book[w] = EmptyBook
    BY <1>4, <1>5, <2>1 DEF Tokenizer, OnCourse
  <2>3. AtLabel(data[w], 1, book[w], c)
    <3>1. /\ Remains(data[w], 1) = Texts(c)[Len(c)] /\ book[w] = Stored(c, Len(c))
          /\ Len(c) \in 0 .. Len(c)
      BY <1>0, <2>2, AllRemains, TextsAre, StoredEnds, CleanIs
    <3>2. 1 \in 1 .. Len(data[w]) + 1
      <4>1. Len(data[w]) \in Nat
        BY <1>0, LenProperties
      <4> QED  BY <4>1
    <3> QED  BY <1>0, <3>1, <3>2 DEF AtLabel
  <2>4. \/ AtEnd(found.token, book[w], c)
        \/ AtValue(found.text, found.next, found.token, book[w], c)
    <3>1. found = Strtok(data[w], 1, Colon)
      BY DEF Colon
    <3> HIDE DEF found
    <3> QED  BY <2>2, <2>3, <3>1, LabelRead
  <2> HIDE DEF found
  <2> QED  BY <2>1, <2>2, <2>4 DEF OnCourse
<1>6. CASE Call(w)
  <2>1. /\ entry'[w] = position
        /\ UNCHANGED <<position, data, label, book>>
        /\ \/ wpc[w] = "value" /\ wpc'[w] = "in value"
           \/ wpc[w] = "label" /\ wpc'[w] = "in label"
    BY <1>0, <1>6 DEF Call, WorkerTo, Entry
  <2>2. OnCourse(w) /\ command' = command
    BY <1>4, <1>6 DEF Tokenizer
  <2> QED  BY <2>1, <2>2 DEF OnCourse
<1>7. CASE ReturnValue(w)
  <2>1. PICK found \in StrtokNULL(w, ";") :
          /\ position' = found.position
          /\ data' = found.data
          /\ IF Loop(w, found.token)
             THEN /\ book' = [book EXCEPT ![w] = Store(@, label[w], found.token)]
                  /\ WorkerTo(w, "label")
             ELSE UNCHANGED book /\ WorkerTo(w, "parsed")
    BY <1>7 DEF ReturnValue
  <2>2. wpc[w] = "in value" /\ label' = label
    BY <1>7 DEF ReturnValue
  <2>3. CleanCommand(c) /\ OnCourse(w) /\ command' = command
    BY <1>4, <1>7 DEF Tokenizer
  <2>4. CASE AtEnd(label[w], book[w], c)
    <3>1. book' = book /\ wpc'[w] = "parsed"
      BY <1>0, <2>1, <2>4 DEF Loop, WorkerTo, AtEnd
    <3> QED  BY <2>3, <2>4, <3>1 DEF OnCourse, AtEnd
  <2>5. CASE entry[w].buf = w /\ AtValue(data[w], entry[w].at, label[w], book[w], c)
    <3> DEFINE cut == Strtok(data[w], entry[w].at, Semicolon)
    <3>1. /\ found.token = cut.token
          /\ position'.buf = w /\ position'.at = cut.next /\ data'[w] = cut.text
      BY <2>1, <2>2, <2>5, OwnStrtok, ZenonT(30) DEF Semicolon
    <3>2. /\ label[w] # NULL /\ cut.token # NULL
          /\ AtLabel(cut.text, cut.next, Store(book[w], label[w], cut.token), c)
      BY <2>3, <2>5, ValueRead
    <3> HIDE DEF cut
    <3>3. book'[w] = Store(book[w], label[w], cut.token) /\ wpc'[w] = "label"
      BY <1>0, <2>1, <3>1, <3>2, ZenonT(60) DEF Loop, WorkerTo
    <3>4. position'.buf = w /\ AtLabel(data'[w], position'.at, book'[w], c)
      BY <3>1, <3>2, <3>3
    <3> QED  BY <2>3, <3>3, <3>4 DEF OnCourse
  <2> QED  BY <2>2, <2>3, <2>4, <2>5 DEF OnCourse
<1>8. CASE ReturnLabel(w)
  <2>1. PICK found \in StrtokNULL(w, ":") :
          /\ position' = found.position
          /\ data' = found.data
          /\ label' = [label EXCEPT ![w] = found.token]
    BY <1>8 DEF ReturnLabel
  <2>2. wpc[w] = "in label" /\ wpc'[w] = "value" /\ book' = book
    BY <1>0, <1>8 DEF ReturnLabel, WorkerTo
  <2>3. CleanCommand(c) /\ OnCourse(w) /\ command' = command
    BY <1>4, <1>8 DEF Tokenizer
  <2>4. entry[w].buf = w /\ AtLabel(data[w], entry[w].at, book[w], c)
    BY <2>2, <2>3 DEF OnCourse
  <2> DEFINE cut == Strtok(data[w], entry[w].at, Colon)
  <2>5. /\ label'[w] = cut.token
        /\ position'.buf = w /\ position'.at = cut.next /\ data'[w] = cut.text
    <3>1. /\ found.token = cut.token
          /\ found.position.buf = w /\ found.position.at = cut.next
          /\ found.data[w] = cut.text
      BY <2>1, <2>2, <2>4, OwnStrtok DEF Colon
    <3> HIDE DEF cut
    <3> QED  BY <1>0, <2>1, <3>1
  <2>6. \/ AtEnd(cut.token, book[w], c)
        \/ AtValue(cut.text, cut.next, cut.token, book[w], c)
    BY <2>3, <2>4, LabelRead
  <2> HIDE DEF cut
  <2> QED  BY <2>2, <2>3, <2>5, <2>6 DEF OnCourse
<1>9. CASE Finish(w)
  <2>1. wpc'[w] \in {"kept", "freed"}
    BY <1>0, <1>9 DEF Finish, WorkerTo
  <2> QED  BY <2>1 DEF OnCourse
<1> QED  BY <1>2, <1>3, <1>5, <1>6, <1>7, <1>8, <1>9 DEF Parse, Tokenizer

LEMMA ParseInit == ASSUME RequestInit PROVE ParseInv
<1> SUFFICES ASSUME NEW w \in Workers PROVE OnCourse(w)
  BY DEF ParseInv
<1>1. /\ wpc[w] = "idle" /\ command[w] = <<>> /\ data[w] = <<>> /\ book[w] = EmptyBook
  BY DEF RequestInit
<1> QED  BY <1>1, EmptyMessage DEF OnCourse

LEMMA ParseNext ==
  ASSUME TextInv, ParseInv, [Next]_vars
  PROVE  ParseInv'
<1>1. CASE UNCHANGED textVars
  <2>1. \A w : Mine(w)' = Mine(w) /\ position' = position
    BY <1>1 DEF textVars, Mine
  <2> QED  BY <2>1, StaysOnCourse DEF ParseInv
<1>2. CASE Join
  <2>1. \A w \in Workers : wpc'[w] = "freed"
    BY <1>2 DEF Join
  <2> QED  BY <2>1 DEF ParseInv, OnCourse
<1>3. ASSUME NEW v \in Workers, Parse(v) \/ Finish(v)
      PROVE  ParseInv'
  <2> SUFFICES ASSUME NEW w \in Workers
               PROVE  Clean(command'[w]) /\ ~disturbed'[w] => OnCourse(w)'
    BY DEF ParseInv
  <2>1. Clean(command[w]) /\ ~disturbed[w] => OnCourse(w)
    BY DEF ParseInv
  <2>2. CASE w = v
    BY <1>3, <2>1, <2>2, OwnStep
  <2>3. CASE w # v
    BY <1>3, <2>1, <2>3, OthersStep
  <2> QED  BY <2>2, <2>3
<1> QED  BY <1>1, <1>2, <1>3, StepIs

LEMMA ParseHolds == Spec => []ParseInv
<1>1. Init => ParseInv
  BY ParseInit DEF Init
<1>2. TextInv /\ FileInv /\ ParseInv /\ [Next]_vars => ParseInv'
  BY ParseNext
<1> QED  BY <1>1, <1>2, Types, PTL DEF Spec

\* data_tokenizer makes the book that was typed, but for the year, of every
\* command line whose values have no separators in them, and refuses none in
\* which no year was typed, whatever strtok's position was and whatever the
\* workers do that do not call strtok during its loop.
THEOREM ParseIsRight == Spec => []UndisturbedParse
<1>1. ParseInv => UndisturbedParse
  <2> SUFFICES ASSUME ParseInv, NEW w \in Workers, HasRead(w), ~disturbed[w]
               PROVE  /\ Keeps(book[w], command[w])
                      /\ Refused(w) => Wanted(command[w])["anno"] # <<>>
    BY DEF UndisturbedParse
  <2>1. book[w] = Parsed(command[w])
    BY DEF ParseInv, HasRead, OnCourse
  <2>2. Refused(w) => book[w]["anno"] # <<>>
    BY DEF Refused
  <2> QED  BY <2>1, <2>2, ParsedKeeps
<1> QED  BY <1>1, ParseHolds, PTL

LEMMA LendChanges ==
  ASSUME NEW list, NEW search, NEW i \in DOMAIN list, NEW lendable,
         Lend(list, search, lendable)[i] # list[i]
  PROVE  BookContainsAll(list[i], search)
<1>1. i \in Matches(list, search)
  BY DEF Lend
<1> QED  BY <1>1 DEF Matches

\* A step lends only books that match what its client typed but for the year,
\* unless a value has a separator in it or the parse was disturbed.
THEOREM LoansWereAsked == Spec => OnlyAskedBooksAreLent
<1> DEFINE Asked ==
      \A i \in DOMAIN books : phase' = "serve" /\ books'[i] # books[i] =>
        \E w \in Workers :
          /\ wpc[w] = "parsed" /\ wpc'[w] # "parsed"
          /\ IsLoanRequest(command[w])
          /\ Clean(command[w]) /\ ~disturbed[w]
               => \A f \in KeptLabels : BookContains(books[i], f, Wanted(command[w])[f])
<1>1. ASSUME TextInv, ParseInv, [Next]_vars
      PROVE  Asked
  <2> SUFFICES ASSUME NEW i \in DOMAIN books, phase' = "serve", books'[i] # books[i]
               PROVE  \E w \in Workers :
                        /\ wpc[w] = "parsed" /\ wpc'[w] # "parsed"
                        /\ IsLoanRequest(command[w])
                        /\ Clean(command[w]) /\ ~disturbed[w]
                             => \A f \in KeptLabels : BookContains(books[i], f, Wanted(command[w])[f])
    OBVIOUS
  <2>1. PICK w \in Workers : ServeRequest(w)
    BY <1>1 DEF Next, Load, Serve, Join, Save, Restart, Rest, ParseRequest, fileVars, vars
  <2>2. /\ wpc[w] = "parsed" /\ wpc'[w] # "parsed"
    BY <1>1, <2>1 DEF ServeRequest, Finish, WorkerTo, TextInv
  <2>3. IsLoanRequest(command[w]) /\ \E lendable : Lend(books, book[w], lendable)[i] # books[i]
    BY <2>1 DEF ServeRequest
  <2>4. BookContainsAll(books[i], book[w])
    BY <2>3, LendChanges
  <2>5. Clean(command[w]) /\ ~disturbed[w] => book[w] = Parsed(command[w])
    BY <1>1, <2>2 DEF ParseInv, OnCourse
  <2>6. KeptLabels \subseteq Labels
    BY DEF KeptLabels
  <2>7. ASSUME Clean(command[w]), ~disturbed[w], NEW f \in KeptLabels
        PROVE  BookContains(books[i], f, Wanted(command[w])[f])
    <3>1. book[w][f] = Wanted(command[w])[f]
      BY <2>5, <2>7, ParsedKeeps DEF Keeps
    <3>2. BookContains(books[i], f, book[w][f])
      BY <2>4, <2>6, <2>7 DEF BookContainsAll
    <3> QED  BY <3>1, <3>2
  <2> QED  BY <2>2, <2>3, <2>7
<1>2. TextInv /\ ParseInv /\ [Next]_vars => [Asked]_vars
  BY <1>1
<1> QED  BY <1>2, Types, ParseHolds, PTL DEF Spec, OnlyAskedBooksAreLent

-----------------------------------------------------------------------------
(* A record that was printed, read again. *)

\* What stands in the line from the k-th field on; 12 is the end of the line,
\* 13 the end of the text.
LineFrom(r, k) == IF k = 13 THEN <<>> ELSE r[k] \o <<Newline>>

\* And from the value of that field on.
ValueFrom(r, b, k) == b[LabelOrder[k]] \o <<Semicolon>> \o LineFrom(r, k + 1)

LEMMA FieldText ==
  ASSUME NEW b \in Books, NEW r, Prints(r, b), NEW k \in 1 .. 11
  PROVE  /\ LineFrom(r, k) \in Seq(Symbols) /\ LineFrom(r, k + 1) \in Seq(Symbols)
         /\ b[LabelOrder[k]] \in Seq(Symbols) /\ b[LabelOrder[k]] \in Trimmed
         /\ ValueFrom(r, b, k) \in Seq(Symbols)
         /\ LineFrom(r, k) = <<LabelOrder[k]>> \o <<Colon>> \o ValueFrom(r, b, k)
<1> DEFINE f == LabelOrder[k]
           name == <<f>>
           colon == <<Colon>>
           value == b[f]
           semicolon == <<Semicolon>>
           newline == <<Newline>>
           text == r[k + 1]
           head == name \o colon
           rest == text \o newline
<1>1. f \in Labels /\ f \in Symbols /\ Colon \in Symbols /\ Semicolon \in Symbols
  BY LabelsAre, SeparatorsAre
<1>2. /\ name \in Seq(Symbols) /\ colon \in Seq(Symbols) /\ semicolon \in Seq(Symbols)
      /\ newline \in Seq(Symbols)
  BY <1>1, OneSymbol, MarkIs
<1>3. value \in Seq(Symbols) /\ value \in Trimmed
  BY <1>1 DEF Books, Trimmed, ValueTexts
<1>4. text \in Seq(Symbols) /\ r[k] = PrintStep(b, f, text)
  <2>1. k + 1 \in 1 .. 12
    OBVIOUS
  <2> QED  BY <2>1 DEF Prints
<1>5. <<f, ":">> = name \o colon
  BY <1>1, MarkIs DEF Colon
<1>6. r[k] = ((head \o value) \o semicolon) \o text
  BY <1>4, <1>5 DEF PrintStep, Semicolon
<1>7. LineFrom(r, k) = r[k] \o newline /\ LineFrom(r, k + 1) = rest
  BY DEF LineFrom
<1>8. ValueFrom(r, b, k) = (value \o semicolon) \o rest
  BY <1>7 DEF ValueFrom
<1> HIDE DEF name, colon, semicolon, newline, value, text, f
<1>9. head \in Seq(Symbols) /\ rest \in Seq(Symbols)
  BY <1>2, <1>4, ConcatIs
<1> HIDE DEF head, rest
<1> DEFINE middle == value \o semicolon
<1>10. middle \in Seq(Symbols) /\ (head \o value) \o semicolon = head \o middle
  <2>1. /\ value \in Seq(Symbols) /\ semicolon \in Seq(Symbols) /\ head \in Seq(Symbols)
    BY <1>2, <1>3, <1>9
  <2>2. (head \o value) \o semicolon = head \o (value \o semicolon)
    BY <2>1, Associate, SMTT(30)
  <2>3. value \o semicolon \in Seq(Symbols)
    BY <2>1, ConcatIs
  <2> QED  BY <2>2, <2>3
<1> HIDE DEF middle
<1>11. (head \o middle) \in Seq(Symbols)
  BY <1>9, <1>10, ConcatIs
<1>12. ((head \o middle) \o text) \o newline = (head \o middle) \o rest
  <2> DEFINE front == head \o middle
  <2>1. front \in Seq(Symbols)
    BY <1>11
  <2> HIDE DEF front
  <2>2. text \in Seq(Symbols) /\ newline \in Seq(Symbols)
    BY <1>2, <1>4
  <2>3. (front \o text) \o newline = front \o (text \o newline)
    BY <2>1, <2>2, Associate, SMTT(30)
  <2> QED  BY <2>3 DEF front, rest
<1>13. (head \o middle) \o rest = head \o (middle \o rest)
  BY <1>9, <1>10, Associate, SMTT(30)
<1>14. middle \o rest \in Seq(Symbols) /\ head \o (middle \o rest) \in Seq(Symbols)
  <2>1. middle \o rest \in Seq(Symbols)
    BY <1>9, <1>10, ConcatIs
  <2> DEFINE back == middle \o rest
  <2> HIDE DEF back
  <2>2. back \in Seq(Symbols)
    BY <2>1 DEF back
  <2>3. head \o back \in Seq(Symbols)
    BY <1>9, <2>2, ConcatIs
  <2> QED  BY <2>1, <2>3 DEF back
<1>15. LineFrom(r, k) = head \o (middle \o rest)
  BY <1>6, <1>7, <1>10, <1>12, <1>13
<1>16. ValueFrom(r, b, k) = middle \o rest
  BY <1>8 DEF middle
<1>17. head = <<LabelOrder[k]>> \o <<Colon>>
  BY DEF head, name, colon, f
<1> QED  BY <1>3, <1>7, <1>9, <1>14, <1>15, <1>16, <1>17 DEF value, f

LEMMA RestEnds ==
  ASSUME NEW b \in Books, NEW r, Prints(r, b)
  PROVE  /\ LineFrom(r, 12) = <<Newline>> /\ LineFrom(r, 13) = <<>>
         /\ LineFrom(r, 1) = RecToString(b) \o <<Newline>>
         /\ \A k \in 1 .. 13 : LineFrom(r, k) \in Seq(Symbols)
<1>1. LineFrom(r, 13) = <<>> /\ LineFrom(r, 13) \in Seq(Symbols)
  BY DEF LineFrom
<1>2. LineFrom(r, 12) = <<Newline>> /\ LineFrom(r, 12) \in Seq(Symbols)
  <2> DEFINE newline == <<Newline>>
  <2>1. newline \in Seq(Symbols)
    BY MarkIs
  <2>2. LineFrom(r, 12) = <<>> \o newline
    BY DEF LineFrom, Prints
  <2> HIDE DEF newline
  <2>3. LineFrom(r, 12) = newline
    BY <2>1, <2>2, ConcatEmptySeq
  <2> QED  BY <2>1, <2>3 DEF newline
<1>3. LineFrom(r, 1) = RecToString(b) \o <<Newline>>
  BY DEF LineFrom, Prints
<1>4. ASSUME NEW k \in 1 .. 13 PROVE LineFrom(r, k) \in Seq(Symbols)
  <2>1. k \in 1 .. 11 \/ k = 12 \/ k = 13
    OBVIOUS
  <2> QED  BY <1>1, <1>2, <2>1, FieldText
<1> QED  BY <1>1, <1>2, <1>3, <1>4

Regrouped(a, h, v, m, l) == a \o (h \o ((v \o m) \o l)) = ((a \o (h \o v)) \o m) \o l

LEMMA Regroup ==
  ASSUME NEW a \in Seq(Symbols), NEW h \in Seq(Symbols), NEW v \in Seq(Symbols),
         NEW m \in Seq(Symbols), NEW l \in Seq(Symbols)
  PROVE  Regrouped(a, h, v, m, l)
<1> DEFINE vm == v \o m
           word == h \o v
<1>1. vm \in Seq(Symbols) /\ word \in Seq(Symbols)
  BY ConcatIs
<1>2. word \o m = h \o vm
  BY Associate, SMTT(30)
<1> HIDE DEF vm, word
<1>3. (h \o vm) \o l = h \o (vm \o l)
  BY <1>1, Associate, SMTT(30)
<1> DEFINE back == word \o m
<1>4. back \in Seq(Symbols)
  BY <1>1, ConcatIs
<1> HIDE DEF back
<1>5. (a \o back) \o l = a \o (back \o l)
  BY <1>4, Associate, SMTT(30)
<1>6. (a \o word) \o m = a \o (word \o m)
  <2>1. word \in Seq(Symbols)
    BY <1>1
  <2> QED  BY <2>1, Associate, SMTT(30)
<1>7. a \o (h \o (vm \o l)) = ((a \o word) \o m) \o l
  BY <1>2, <1>3, <1>5, <1>6 DEF back
<1> QED  BY <1>7 DEF vm, word, Regrouped

LEMMA ValueWord ==
  ASSUME NEW v, v \in ValueTexts, v # <<>>
  PROVE  Word(v, Semicolon) /\ v # NULL
<1>1. \A s : ~EndsValue(s) => s # Semicolon /\ s # Nul
  BY DEF EndsValue, Semicolon
<1>2. v \in Seq(Symbols) /\ \A i \in 1 .. Len(v) : ~EndsValue(v[i])
  BY DEF ValueTexts
<1> QED  BY <1>1, <1>2 DEF Word, NULL

\* The name of a field with its colon, as part of a value.
LEMMA NameIsValue ==
  ASSUME NEW f \in Labels
  PROVE  LET name == <<f>> \o <<Colon>>
         IN name \in Seq(Symbols) /\ name \in ValueTexts /\ Len(name) = 2
<1> DEFINE s == <<f>>
           t == <<Colon>>
           name == s \o t
<1>1. /\ f \in Symbols /\ Colon \in Symbols
      /\ f # Semicolon /\ f # Nul /\ Colon # Semicolon /\ Colon # Nul
  BY SeparatorsAre
<1>2. /\ s \in Seq(Symbols) /\ Len(s) = 1 /\ s[1] = f
      /\ t \in Seq(Symbols) /\ Len(t) = 1 /\ t[1] = Colon
  BY <1>1, OneSymbol
<1> HIDE DEF s, t
<1>3. 1 \in 1 .. Len(s) /\ 1 \in 1 .. Len(t) /\ Len(s) + 1 = 2 /\ Len(s) + Len(t) = 2
  BY <1>2
<1>4. /\ name \in Seq(Symbols) /\ Len(name) = 2
      /\ name[1] = f /\ name[2] = Colon
  BY <1>2, <1>3, ConcatIs
<1> HIDE DEF name
<1>5. ~EndsValue(f) /\ ~EndsValue(Colon)
  BY <1>1 DEF EndsValue, Semicolon
<1>6. \A i \in 1 .. Len(name) : ~EndsValue(name[i])
  <2>1. \A i \in 1 .. 2 : i = 1 \/ i = 2
    OBVIOUS
  <2> QED  BY <1>4, <1>5, <2>1
<1>7. name \in ValueTexts
  BY <1>4, <1>6 DEF ValueTexts
<1> QED  BY <1>4, <1>7 DEF name, s, t

\* The field that the loop goes on with: it takes two if the first is empty.
NextField(b, k) == IF b[LabelOrder[k]] # <<>> THEN k + 1 ELSE k + 2

ReadsField(text, p, r, b, k) ==
  /\ ~Over(text, p) /\ PairAt(text, p).label = <<LabelOrder[k]>>
  /\ b[LabelOrder[k]] # <<>> => PairAt(text, p).value = b[LabelOrder[k]]
  /\ ValueAt(text, p).next \in 1 .. Len(text) + 1
  /\ Remains(text, ValueAt(text, p).next) = LineFrom(r, NextField(b, k))

LEMMA FieldRead ==
  ASSUME NEW b \in Books, NEW r, Prints(r, b), NEW k \in 1 .. 11,
         NEW text \in Seq(Symbols), NEW p \in 1 .. Len(text) + 1,
         Remains(text, p) = LineFrom(r, k)
  PROVE  ReadsField(text, p, r, b, k)
<1> DEFINE f == LabelOrder[k]
           name == <<f>>
           after == ValueFrom(r, b, k)
           found == Strtok(text, p, Colon)
           at == found.next
           mark == <<Semicolon>>
           value == Strtok(text, at, Semicolon)
           rest == LineFrom(r, k + 1)
<1>1. /\ b[f] \in Seq(Symbols) /\ b[f] \in ValueTexts /\ after \in Seq(Symbols)
      /\ LineFrom(r, k) = name \o <<Colon>> \o after
      /\ rest \in Seq(Symbols)
  BY FieldText DEF Trimmed
<1>2. /\ f \in Labels /\ f \in Symbols /\ f # Colon /\ f # Nul /\ name # NULL
      /\ Colon \in Symbols /\ Colon # Nul /\ Semicolon \in Symbols /\ Semicolon # Nul
  BY LabelsAre, SeparatorsAre DEF NULL
<1>3. /\ found.token = name /\ at \in 1 .. Len(text) + 1
      /\ Remains(text, at) = after
  <2>1. Word(name, Colon)
    <3>1. name \in Seq(Symbols) /\ Len(name) = 1 /\ name[1] = f
      BY <1>2, OneSymbol
    <3>2. name # <<>>
      BY <1>2 DEF NULL
    <3> HIDE DEF name, f
    <3> QED  BY <1>2, <3>1, <3>2 DEF Word
  <2> HIDE DEF name, after, f
  <2>2. Stands(text, p, Colon, name, after)
    BY <1>1, <1>2, <2>1 DEF Stands
  <2>3. Cuts(found, text, name, after)
    BY <2>2, NextWord
  <2> HIDE DEF found
  <2> QED  BY <2>3 DEF Cuts, at
<1>4. /\ LabelAt(text, p) = found /\ ValueAt(text, p) = value
      /\ PairAt(text, p).label = found.token /\ PairAt(text, p).value = value.token
      /\ Over(text, p) <=> NULL \in {found.token, value.token}
  BY DEF LabelAt, ValueAt, PairAt, Over, Colon, Semicolon
<1>5. after = b[f] \o mark \o rest /\ mark \in Seq(Symbols) /\ mark \in Seq({Semicolon})
  BY <1>2, OneSymbol DEF ValueFrom
<1> HIDE DEF f, name, after, found, at, value, rest, mark
<1>6. CASE b[f] # <<>>
  <2>1. Word(b[f], Semicolon) /\ b[f] # NULL
    BY <1>1, <1>6, ValueWord
  <2>2. Remains(text, at) = b[f] \o <<Semicolon>> \o rest
    BY <1>3, <1>5 DEF mark
  <2>3. Stands(text, at, Semicolon, b[f], rest)
    BY <1>1, <1>2, <1>3, <2>1, <2>2 DEF Stands
  <2>4. Cuts(value, text, b[f], rest)
    BY <2>3, NextWord DEF value
  <2>5. value.token = b[f] /\ value.next \in 1 .. Len(text) + 1 /\ Remains(text, value.next) = rest
    BY <2>4 DEF Cuts
  <2>6. rest = LineFrom(r, NextField(b, k))
    BY <1>6 DEF NextField, rest, f
  <2> QED  BY <1>2, <1>3, <1>4, <2>1, <2>5, <2>6 DEF ReadsField, name, f
<1>7. ASSUME b[f] = <<>>
      PROVE  after = mark \o rest
  <2>1. <<>> \o mark = mark
    BY <1>5, ConcatEmptySeq
  <2> QED  BY <1>5, <1>7, <2>1
<1>8. ASSUME b[f] = <<>>, value.token # NULL, value.next \in 1 .. Len(text) + 1,
             Remains(text, value.next) = LineFrom(r, k + 2)
      PROVE  ReadsField(text, p, r, b, k)
  <2>1. NextField(b, k) = k + 2
    BY <1>8 DEF NextField, f
  <2> QED  BY <1>2, <1>3, <1>4, <1>8, <2>1 DEF ReadsField, name, f
<1>9. CASE b[f] = <<>> /\ k \in 1 .. 10
  <2> DEFINE g == LabelOrder[k + 1]
             head == <<g>> \o <<Colon>>
             last == LineFrom(r, k + 2)
             word == head \o b[g]
  <2>1. k + 1 \in 1 .. 11 /\ (k + 1) + 1 = k + 2
    BY <1>9
  <2>2. /\ b[g] \in Seq(Symbols) /\ b[g] \in ValueTexts /\ last \in Seq(Symbols)
        /\ rest = head \o (b[g] \o mark \o last)
    BY <2>1, FieldText, ZenonT(30) DEF Trimmed, ValueFrom, rest, mark
  <2>3. head \in Seq(Symbols) /\ head \in ValueTexts /\ Len(head) = 2
    BY <2>1, LabelsAre, NameIsValue
  <2> HIDE DEF g, head, last
  <2>4. word \in ValueTexts /\ word # <<>>
    <3>1. word \in ValueTexts
      BY <2>2, <2>3, ValuesJoin
    <3>2. Len(word) = Len(head) + Len(b[g]) /\ Len(b[g]) \in Nat
      BY <2>2, <2>3, ConcatIs
    <3>3. Len(word) # 0
      BY <2>3, <3>2
    <3> HIDE DEF word
    <3> QED  BY <3>1, <3>3
  <2>5. mark \o rest = mark \o word \o mark \o last
    <3> DEFINE v == b[g]
    <3>1. v \in Seq(Symbols)
      BY <2>2
    <3>2. last \in Seq(Symbols)
      BY <2>2
    <3>3. mark \in Seq(Symbols)
      BY <1>5
    <3>4. head \in Seq(Symbols)
      BY <2>3
    <3> HIDE DEF v
    <3>5. Regrouped(mark, head, v, mark, last)
      BY <3>1, <3>2, <3>3, <3>4, Regroup
    <3> QED  BY <2>2, <3>5 DEF v, Regrouped
  <2> HIDE DEF word
  <2>6. Word(word, Semicolon) /\ word # NULL
    BY <2>4, ValueWord
  <2>7. Remains(text, at) = mark \o word \o <<Semicolon>> \o last
    BY <1>3, <1>7, <1>9, <2>5 DEF mark
  <2>8. Cuts(value, text, word, last)
    BY <1>2, <1>3, <1>5, <2>2, <2>6, <2>7, NextToken DEF value
  <2>9. value.token = word /\ value.next \in 1 .. Len(text) + 1 /\ Remains(text, value.next) = last
    BY <2>8 DEF Cuts
  <2> QED  BY <1>8, <1>9, <2>6, <2>9 DEF last
<1>10. CASE b[f] = <<>> /\ k = 11
  <2> DEFINE word == <<Newline>>
  <2>1. rest = word /\ LineFrom(r, k + 2) = <<>>
    BY <1>10, RestEnds DEF rest
  <2>2. Word(word, Semicolon) /\ word # NULL
    <3>1. Newline \in Symbols /\ Newline # Semicolon /\ Newline # Nul
      BY MarkIs DEF Newline, Semicolon, Nul
    <3>2. word \in Seq(Symbols) /\ Len(word) = 1 /\ word[1] = Newline
      BY <3>1, OneSymbol
    <3>3. word # <<>>
      OBVIOUS
    <3> HIDE DEF word
    <3> QED  BY <3>1, <3>2, <3>3 DEF Word, NULL
  <2> HIDE DEF word
  <2>3. Remains(text, at) = mark \o word
    BY <1>3, <1>7, <1>10, <2>1
  <2>4. value = [token |-> word, next |-> Len(text) + 1, text |-> text]
    <3>1. Semicolon \in Symbols /\ Semicolon # Nul
      BY <1>2
    <3>2. at \in 1 .. Len(text) + 1 /\ mark \in Seq({Semicolon}) /\ Word(word, Semicolon)
      BY <1>3, <1>5, <2>2
    <3> QED  BY <2>3, <3>1, <3>2, LastToken, ZenonT(30) DEF value
  <2>5. value.token = word /\ value.next = Len(text) + 1
    BY <2>4
  <2>6. Len(text) + 1 \in 1 .. Len(text) + 1
    OBVIOUS
  <2> QED  BY <1>8, <1>10, <2>1, <2>2, <2>5, <2>6, AllRemains
<1> QED  BY <1>6, <1>9, <1>10

\* Nothing more at the end of the line, or of the text.
LEMMA EndRead ==
  ASSUME NEW b \in Books, NEW r, Prints(r, b), NEW k \in {12, 13},
         NEW text \in Seq(Symbols), NEW p \in 1 .. Len(text) + 1,
         Remains(text, p) = LineFrom(r, k)
  PROVE  Over(text, p)
<1> DEFINE found == Strtok(text, p, ":")
           end == Len(text) + 1
<1>1. CASE k = 13
  <2>1. Remains(text, p) = <<>>
    BY <1>1, RestEnds
  <2>2. found = [token |-> NULL, next |-> end, text |-> text]
    BY <2>1, NoMoreTokens
  <2> QED  BY <2>2 DEF Over, LabelAt
<1>2. CASE k = 12
  <2> DEFINE word == <<Newline>>
  <2>1. Remains(text, p) = word
    BY <1>2, RestEnds
  <2>2. Word(word, Colon) /\ Colon \in Symbols /\ Colon # Nul
    <3>1. Newline \in Symbols /\ Newline # Colon /\ Newline # Nul
      BY MarkIs DEF Newline, Colon, Nul
    <3>2. word \in Seq(Symbols) /\ Len(word) = 1 /\ word[1] = Newline
      BY <3>1, OneSymbol
    <3>3. word # <<>>
      OBVIOUS
    <3> HIDE DEF word
    <3>4. Word(word, Colon)
      BY <3>1, <3>2, <3>3 DEF Word
    <3> QED  BY <3>4, SeparatorsAre
  <2> HIDE DEF word
  <2>3. StandsLast(text, p, Colon, word)
    BY <2>1, <2>2 DEF StandsLast
  <2>4. found = [token |-> word, next |-> end, text |-> text]
    BY <2>3, LastWord DEF Colon
  <2>5. LabelAt(text, p).next = end
    BY <2>4 DEF LabelAt
  <2>6. end \in 1 .. Len(text) + 1 /\ Remains(text, end) = <<>>
    BY AllRemains
  <2>7. Strtok(text, end, ";") = [token |-> NULL, next |-> end, text |-> text]
    BY <2>6, NoMoreTokens
  <2> HIDE DEF end
  <2>8. ValueAt(text, p).token = NULL
    <3>1. ValueAt(text, p) = Strtok(text, end, ";")
      BY <2>5 DEF ValueAt
    <3>2. [token |-> NULL, next |-> end, text |-> text].token = NULL
      OBVIOUS
    <3> QED  BY <2>7, <3>1, <3>2, Zenon
  <2> QED  BY <2>8 DEF Over
<1> QED  BY <1>1, <1>2

\* The j-th field comes back to a reader that has come to the k-th: it is not
\* empty, and an even number of empty fields stands before it.
Comes(b, k, j) ==
  /\ b[LabelOrder[j]] # <<>>
  /\ \E s \in k .. j : /\ s = k \/ b[LabelOrder[s - 1]] # <<>>
                       /\ \A i \in s .. j - 1 : b[LabelOrder[i]] = <<>>
                       /\ (j - s) % 2 = 0

LEMMA ComesStep ==
  ASSUME NEW b, NEW k \in 1 .. 11, NEW j \in k .. 11, Comes(b, k, j)
  PROVE  \/ j = k /\ b[LabelOrder[k]] # <<>>
         \/ j \in NextField(b, k) .. 11 /\ Comes(b, NextField(b, k), j)
<1> DEFINE Empty(i) == b[LabelOrder[i]] = <<>>
<1>1. PICK s \in k .. j : /\ s = k \/ ~Empty(s - 1)
                          /\ \A i \in s .. j - 1 : Empty(i)
                          /\ (j - s) % 2 = 0
  BY DEF Comes
<1>2. ~Empty(j)
  BY DEF Comes
<1>3. \A n \in 1 .. j : (\E t \in n .. j : /\ t = n \/ ~Empty(t - 1)
                                           /\ \A i \in t .. j - 1 : Empty(i)
                                           /\ (j - t) % 2 = 0) => Comes(b, n, j)
  BY <1>2 DEF Comes
<1>4. NextField(b, k) = IF ~Empty(k) THEN k + 1 ELSE k + 2
  BY DEF NextField
<1> HIDE DEF Empty
<1>5. CASE ~Empty(k)
  <2>1. CASE j = k
    BY <1>5, <2>1 DEF Empty
  <2>2. CASE j # k
    <3>1. s # k
      <4> SUFFICES ASSUME s = k PROVE FALSE
        OBVIOUS
      <4>1. k \in s .. j - 1
        BY <2>2
      <4> QED  BY <1>1, <1>5, <4>1
    <3>2. k + 1 \in 1 .. j /\ s \in k + 1 .. j /\ j \in k + 1 .. 11
      BY <2>2, <3>1
    <3>3. Comes(b, k + 1, j)
      BY <1>1, <1>3, <3>1, <3>2
    <3> QED  BY <1>4, <1>5, <3>2, <3>3
  <2> QED  BY <2>1, <2>2
<1>6. CASE Empty(k)
  <2>1. j # k
    BY <1>2, <1>6
  <2>2. s # k + 1
    BY <1>1, <1>6
  <2>3. CASE s = k
    <3>1. j # k + 1
      BY <1>1, <2>3
    <3>2. k + 2 \in 1 .. j /\ k + 2 \in k + 2 .. j /\ j \in k + 2 .. 11
      BY <2>1, <3>1
    <3>3. \A i \in k + 2 .. j - 1 : Empty(i)
      BY <1>1, <2>3
    <3>4. (j - (k + 2)) % 2 = 0
      BY <1>1, <2>3, <3>2
    <3>5. Comes(b, k + 2, j)
      BY <1>3, <3>2, <3>3, <3>4
    <3> QED  BY <1>4, <1>6, <3>2, <3>5
  <2>4. CASE s # k
    <3>1. k + 2 \in 1 .. j /\ s \in k + 2 .. j /\ j \in k + 2 .. 11
      BY <2>2, <2>4
    <3>2. Comes(b, k + 2, j)
      BY <1>1, <1>3, <2>4, <3>1
    <3> QED  BY <1>4, <1>6, <3>1, <3>2
  <2> QED  BY <2>3, <2>4
<1> QED  BY <1>5, <1>6

\* The pairs that the loop finds from the k-th field of b on.
Fields(ps, b, k) ==
  /\ ps \in Seq(AllPairs) /\ (k <= 11 => Len(ps) # 0)
  /\ \A i \in 1 .. Len(ps) : \E j \in k .. 11 : ps[i].label = <<LabelOrder[j]>>
  /\ \A i, j \in 1 .. Len(ps) : ps[i].label = ps[j].label => i = j
  /\ \A j \in k .. 11 : Comes(b, k, j) =>
       \E i \in 1 .. Len(ps) : /\ ps[i].label = <<LabelOrder[j]>>
                               /\ ps[i].value = b[LabelOrder[j]]

LEMMA FieldsStep ==
  ASSUME NEW b, NEW k \in 1 .. 11, NEW tail, Fields(tail, b, NextField(b, k)),
         NEW pair \in AllPairs, pair.label = <<LabelOrder[k]>>,
         b[LabelOrder[k]] # <<>> => pair.value = b[LabelOrder[k]]
  PROVE  Fields(<<pair>> \o tail, b, k)
<1> DEFINE n == NextField(b, k)
           ps == AddNode(tail, pair)
           Name(j) == <<LabelOrder[j]>>
           Value(j) == b[LabelOrder[j]]
<1>1. n \in {k + 1, k + 2} /\ \A j \in n .. 11 : j \in k .. 11 /\ j # k
  BY DEF NextField
<1>2. /\ tail \in Seq(AllPairs)
      /\ \A i \in 1 .. Len(tail) : \E j \in n .. 11 : tail[i].label = Name(j)
      /\ \A i, j \in 1 .. Len(tail) : tail[i].label = tail[j].label => i = j
      /\ \A j \in n .. 11 : Comes(b, n, j) =>
           \E i \in 1 .. Len(tail) : tail[i].label = Name(j) /\ tail[i].value = Value(j)
  BY DEF Fields
<1>3. \A i, j \in 1 .. 11 : Name(i) = Name(j) => i = j
  BY LabelsAre
<1>4. Len(tail) \in Nat
  BY <1>2, LenProperties
<1>5. /\ ps \in Seq(AllPairs) /\ Len(ps) = Len(tail) + 1 /\ ps[1] = pair
      /\ \A i \in 1 .. Len(tail) : ps[i + 1] = tail[i]
  BY <1>2, AddNodeIs
<1>6. \A j \in k .. 11 : Comes(b, k, j) =>
        (j = k /\ Value(k) # <<>>) \/ (j \in n .. 11 /\ Comes(b, n, j))
  BY ComesStep
<1>7. pair.label = Name(k) /\ (Value(k) # <<>> => pair.value = Value(k))
  OBVIOUS
<1> HIDE DEF n, ps, Name, Value
<1>8. \A i \in 1 .. Len(ps) : i = 1 \/ (i - 1 \in 1 .. Len(tail) /\ ps[i] = tail[i - 1])
  <2> TAKE i \in 1 .. Len(ps)
  <2>1. i = 1 \/ (i - 1 \in 1 .. Len(tail) /\ (i - 1) + 1 = i)
    BY <1>4, <1>5
  <2> QED  BY <1>5, <2>1
<1>9. \A i \in 1 .. Len(tail) : i + 1 \in 1 .. Len(ps) /\ ps[i + 1] = tail[i]
  BY <1>4, <1>5
<1>10. \A i \in 1 .. Len(ps) : \E j \in k .. 11 : ps[i].label = Name(j)
  BY <1>1, <1>2, <1>5, <1>7, <1>8, SMTT(30)
<1>11. ASSUME NEW i \in 1 .. Len(tail)
       PROVE  tail[i].label # pair.label
  <2>1. PICK j \in n .. 11 : tail[i].label = Name(j)
    BY <1>2
  <2>2. j \in 1 .. 11 /\ k \in 1 .. 11 /\ j # k
    BY <1>1
  <2>3. Name(j) # Name(k)
    BY <1>3, <2>2
  <2> QED  BY <1>7, <2>1, <2>3
<1>12. ASSUME NEW i \in 1 .. Len(ps), NEW j \in 1 .. Len(ps), ps[i].label = ps[j].label
       PROVE  i = j
  <2>1. CASE i = 1
    BY <1>5, <1>8, <1>11, <1>12, <2>1
  <2>2. CASE j = 1
    BY <1>5, <1>8, <1>11, <1>12, <2>2
  <2>3. CASE i # 1 /\ j # 1
    <3>1. i - 1 = j - 1
      BY <1>2, <1>8, <1>12, <2>3, SMTT(30)
    <3> QED  BY <3>1
  <2> QED  BY <2>1, <2>2, <2>3
<1>13. ASSUME NEW j \in k .. 11, Comes(b, k, j)
       PROVE  \E i \in 1 .. Len(ps) : ps[i].label = Name(j) /\ ps[i].value = Value(j)
  <2>1. CASE j = k /\ Value(k) # <<>>
    <3>1. 1 \in 1 .. Len(ps)
      BY <1>4, <1>5
    <3> QED  BY <1>5, <1>7, <2>1, <3>1
  <2>2. CASE j \in n .. 11 /\ Comes(b, n, j)
    <3>1. PICK i \in 1 .. Len(tail) : tail[i].label = Name(j) /\ tail[i].value = Value(j)
      BY <1>2, <2>2
    <3> QED  BY <1>9, <3>1
  <2> QED  BY <1>6, <1>13, <2>1, <2>2
<1>14. Len(ps) # 0
  BY <1>4, <1>5
<1>15. Fields(ps, b, k)
  BY <1>5, <1>10, <1>12, <1>13, <1>14 DEF Fields, Name, Value
<1> QED  BY <1>15 DEF ps, AddNode

LEMMA FieldsLeft ==
  ASSUME NEW b \in Books, NEW r, Prints(r, b), NEW text \in Seq(Symbols),
         NEW f, \A p \in 1 .. Len(text) + 1 : f[p] = PairsFrom(f, text, p)
  PROVE  \A k \in 1 .. 13, p \in 1 .. Len(text) + 1 :
           Remains(text, p) = LineFrom(r, k) => Fields(f[p], b, k)
<1> DEFINE N == Len(text) + 1
           Holds(k) == \A p \in 1 .. N : Remains(text, p) = LineFrom(r, k) => Fields(f[p], b, k)
           S == {n \in 0 .. 12 : \A k \in 13 - n .. 13 : Holds(k)}
<1>1. ASSUME NEW k \in {12, 13}
      PROVE  Holds(k)
  <2> SUFFICES ASSUME NEW p \in 1 .. N, Remains(text, p) = LineFrom(r, k)
               PROVE  Fields(f[p], b, k)
    OBVIOUS
  <2>1. Over(text, p)
    BY EndRead
  <2>2. f[p] = <<>>
    BY <2>1 DEF PairsFrom
  <2>3. k .. 11 = {} /\ ~(k <= 11) /\ Len(<<>>) = 0 /\ <<>> \in Seq(AllPairs)
    BY <1>1
  <2> QED  BY <2>2, <2>3 DEF Fields
<1>2. ASSUME NEW k \in 1 .. 11, \A m \in k + 1 .. 13 : Holds(m)
      PROVE  Holds(k)
  <2> SUFFICES ASSUME NEW p \in 1 .. N, Remains(text, p) = LineFrom(r, k)
               PROVE  Fields(f[p], b, k)
    OBVIOUS
  <2> DEFINE next == ValueAt(text, p).next
             pair == PairAt(text, p)
             tail == f[next]
  <2>1. ReadsField(text, p, r, b, k)
    BY FieldRead
  <2>2. /\ ~Over(text, p) /\ pair.label = <<LabelOrder[k]>>
        /\ b[LabelOrder[k]] # <<>> => pair.value = b[LabelOrder[k]]
        /\ next \in 1 .. N /\ Remains(text, next) = LineFrom(r, NextField(b, k))
    BY <2>1 DEF ReadsField
  <2>3. pair \in AllPairs
    BY PairAtIs
  <2>4. f[p] = <<pair>> \o tail
    BY <2>2 DEF PairsFrom
  <2>5. NextField(b, k) \in k + 1 .. 13
    BY DEF NextField
  <2> HIDE DEF pair, next
  <2>6. Fields(tail, b, NextField(b, k))
    BY <1>2, <2>2, <2>5
  <2> HIDE DEF tail
  <2>7. Fields(<<pair>> \o tail, b, k)
    BY <2>2, <2>3, <2>6, FieldsStep
  <2> QED  BY <2>4, <2>7
<1> HIDE DEF Holds
<1>3. 0 \in S
  BY <1>1
<1>4. ASSUME NEW n \in 0 .. 12 - 1, n \in S
      PROVE  n + 1 \in S
  <2>1. \A k \in 13 - n .. 13 : Holds(k)
    BY <1>4
  <2>2. Holds(13 - (n + 1))
    <3>1. CASE n = 0
      BY <1>1, <3>1
    <3>2. CASE n # 0
      <4>1. 13 - (n + 1) \in 1 .. 11 /\ (13 - (n + 1)) + 1 = 13 - n
        BY <3>2
      <4> QED  BY <1>2, <2>1, <4>1
    <3> QED  BY <3>1, <3>2
  <2>3. \A k \in 13 - (n + 1) .. 13 : k = 13 - (n + 1) \/ k \in 13 - n .. 13
    OBVIOUS
  <2> QED  BY <2>1, <2>2, <2>3
<1>5. 12 \in S
  <2> HIDE DEF S
  <2>1. \A n \in 0 .. 12 : n \in S
    BY <1>3, <1>4, UpTo
  <2> QED  BY <2>1
<1>6. \A k \in 1 .. 13 : Holds(k)
  BY <1>5
<1> QED  BY <1>6 DEF Holds

LEMMA LabelOfIs ==
  ASSUME NEW k \in 1 .. 11
  PROVE  LabelOf(<<LabelOrder[k]>>) = LabelOrder[k] /\ Recognised(<<LabelOrder[k]>>)
<1> DEFINE f == LabelOrder[k]
           name == <<f>>
           I == {i \in 1 .. Len(LabelOrder) : LabelOrder[i] \in ToSet(name)}
<1>1. ToSet(name) = {f}
  BY DEF ToSet
<1>2. Recognised(name)
  BY <1>1, LabelsAre DEF Recognised
<1>3. I = {k}
  <2> HIDE DEF name
  <2>1. \A i \in 1 .. 11 : LabelOrder[i] \in ToSet(name) <=> i = k
    BY <1>1, LabelsAre
  <2> QED  BY <2>1, LabelsAre
<1> HIDE DEF name
<1>4. SelectInSeq(LabelOrder, LAMBDA g : g \in ToSet(name)) = IF I # {} THEN Min(I) ELSE 0
  BY DEF SelectInSeq
<1>5. I \in SUBSET Nat /\ I # {}
  <2> HIDE DEF I
  <2> QED  BY <1>3
<1>6. Min(I) \in I
  <2> HIDE DEF I
  <2> QED  BY <1>5, MinIs
<1> HIDE DEF I
<1>7. SelectInSeq(LabelOrder, LAMBDA g : g \in ToSet(name)) = k
  BY <1>3, <1>4, <1>6
<1>8. LabelOf(name) = f
  BY <1>7 DEF LabelOf
<1> QED  BY <1>2, <1>8 DEF name

\* A line that was saved is not blank, and tokenize gets through it.
LEMMA SavedLine ==
  ASSUME NEW b \in Books
  PROVE  LET line == RecToString(b) \o <<Newline>>
         IN /\ line \in Seq(Symbols) /\ line # <<Newline>>
            /\ Parses(line) /\ Fields(Pairs(line), b, 1)
<1>1. 1 \in 1 .. 13 /\ 1 \in 1 .. 11
  OBVIOUS
<1>2. PICK r : Prints(r, b)
  BY PrintsExist
<1> DEFINE text == LineFrom(r, 1)
           name == <<LabelOrder[1]>> \o <<Colon>>
           value == ValueFrom(r, b, 1)
<1>3. text = RecToString(b) \o <<Newline>>
  BY <1>2, RestEnds
<1>4. text \in Seq(Symbols)
  <2>1. \A k \in 1 .. 13 : LineFrom(r, k) \in Seq(Symbols)
    BY <1>2, RestEnds
  <2> QED  BY <1>1, <2>1
<1>5. text = name \o value /\ value \in Seq(Symbols)
  BY <1>1, <1>2, FieldText
<1>6. name \in Seq(Symbols) /\ Len(name) = 2
  <2>1. LabelOrder[1] \in Labels
    BY <1>1, LabelsAre
  <2> QED  BY <2>1, NameIsValue
<1>7. Len(text) = 2 + Len(value) /\ Len(value) \in Nat
  <2> HIDE DEF text, name, value
  <2>1. name \in Seq(Symbols) /\ value \in Seq(Symbols)
    BY <1>5, <1>6
  <2>2. Len(name \o value) = Len(name) + Len(value) /\ Len(value) \in Nat
    BY <2>1, ConcatIs
  <2> QED  BY <1>5, <1>6, <2>2
<1>8. text # <<Newline>>
  <2> HIDE DEF text, name, value
  <2>1. Len(text) # 1
    BY <1>7
  <2>2. Len(<<Newline>>) = 1
    OBVIOUS
  <2> QED  BY <2>1, <2>2
<1>9. Fields(Pairs(text), b, 1)
  <2>1. PICK f : /\ \A p \in 1 .. Len(text) + 1 : f[p] = PairsFrom(f, text, p)
                 /\ Pairs(text) = f[1]
    <3> HIDE DEF text
    <3> QED  BY <1>4, PairsIs
  <2>2. Remains(text, 1) = text
    <3> HIDE DEF text
    <3> QED  BY <1>4, AllRemains
  <2>3. 1 \in 1 .. Len(text) + 1
    <3> HIDE DEF text, value
    <3> QED  BY <1>7
  <2>4. \A k \in 1 .. 13, p \in 1 .. Len(text) + 1 :
          Remains(text, p) = LineFrom(r, k) => Fields(f[p], b, k)
    <3> HIDE DEF text
    <3> QED  BY <1>2, <1>4, <2>1, FieldsLeft
  <2>5. Fields(f[1], b, 1)
    <3>1. Remains(text, 1) = LineFrom(r, 1)
      BY <2>2
    <3> HIDE DEF text
    <3> QED  BY <1>1, <2>3, <2>4, <3>1
  <2> QED  BY <2>1, <2>5
<1> HIDE DEF text, name, value
<1>10. Parses(text)
  <2> DEFINE ps == Pairs(text)
  <2> HIDE DEF ps
  <2>1. Fields(ps, b, 1)
    BY <1>9 DEF ps
  <2>2. ps \in Seq(AllPairs) /\ Len(ps) # 0
    BY <2>1 DEF Fields
  <2>3. \A i \in 1 .. Len(ps) : \E j \in 1 .. 11 : ps[i].label = <<LabelOrder[j]>>
    BY <2>1 DEF Fields
  <2>4. \A i \in 1 .. Len(ps) : Recognised(ps[i].label)
    BY <2>3, LabelOfIs
  <2>5. DOMAIN ps = 1 .. Len(ps) /\ ps # <<>>
    BY <2>2, LenProperties
  <2> QED  BY <2>4, <2>5 DEF Parses, ps
<1> QED  BY <1>3, <1>8, <1>9, <1>10, <1>4

\* tokenize gives back the fields that come back.
LEMMA SavedField ==
  ASSUME NEW line \in Seq(Symbols), NEW b \in Books, Fields(Pairs(line), b, 1),
         NEW j \in 1 .. 11, Comes(b, 1, j)
  PROVE  Tokenize(line)[LabelOrder[j]] = b[LabelOrder[j]]
<1> DEFINE ps == Pairs(line)
           n == Len(ps)
           f == LabelOrder[j]
           value == b[f]
<1>1. PICK m : Tokenized(m, line)
  BY TokenizedExist
<1>2. /\ m \in [0 .. n -> Books] /\ m[0] = EmptyBook
      /\ \A k \in 1 .. n : m[k] = TokenizeStep(m[k - 1], ps[k])
      /\ Tokenize(line) = m[n]
  BY <1>1 DEF Tokenized
<1>3. /\ ps \in Seq(AllPairs)
      /\ \A i \in 1 .. n : \E l \in 1 .. 11 : ps[i].label = <<LabelOrder[l]>>
      /\ \A i, l \in 1 .. n : ps[i].label = ps[l].label => i = l
      /\ \E i \in 1 .. n : ps[i].label = <<f>> /\ ps[i].value = value
  BY DEF Fields
<1>4. PICK i \in 1 .. n : ps[i].label = <<f>> /\ ps[i].value = value
  BY <1>3
<1>5. n \in Nat
  BY <1>3, LenProperties
<1>6. f \in Labels /\ value \in Trimmed /\ value \in ValueTexts /\ value \in Seq(Symbols)
  <2>1. f \in Labels
    BY LabelsAre
  <2> HIDE DEF f
  <2> QED  BY <2>1 DEF Books, Trimmed, ValueTexts
<1>7. LabelOf(ps[i].label) = f
  BY <1>4, LabelOfIs
<1>8. ASSUME NEW k \in 1 .. n, k # i
      PROVE  LabelOf(ps[k].label) # f
  <2>1. PICK l \in 1 .. 11 : ps[k].label = <<LabelOrder[l]>>
    BY <1>3
  <2>2. LabelOf(ps[k].label) = LabelOrder[l]
    BY <2>1, LabelOfIs
  <2>3. LabelOrder[l] # f
    BY <1>3, <1>4, <1>8, <2>1, ZenonT(30)
  <2> QED  BY <2>2, <2>3
<1> HIDE DEF ps, n, f, value
<1>9. ASSUME NEW k \in 1 .. n, k # i
      PROVE  m[k][f] = m[k - 1][f]
  <2>1. m[k] = TokenizeStep(m[k - 1], ps[k]) /\ m[k - 1] \in Books
    <3>1. k - 1 \in 0 .. n
      BY <1>5
    <3> QED  BY <1>2, <3>1
  <2>2. LabelOf(ps[k].label) # f /\ DOMAIN m[k - 1] = Labels
    BY <1>8, <1>9, <2>1 DEF Books
  <2> QED  BY <1>6, <2>1, <2>2 DEF TokenizeStep
<1>10. m[i - 1][f] = <<>> => m[i][f] = value
  <2>1. m[i] = TokenizeStep(m[i - 1], ps[i]) /\ m[i - 1] \in Books
    <3>1. i - 1 \in 0 .. n
      BY <1>5
    <3> QED  BY <1>2, <3>1
  <2>2. m[i][f] = RemoveSpaces(m[i - 1][f] \o value)
    <3>1. DOMAIN m[i - 1] = Labels
      BY <2>1 DEF Books
    <3> QED  BY <1>4, <1>6, <1>7, <2>1, <3>1 DEF TokenizeStep
  <2>3. <<>> \o value = value /\ RemoveSpaces(value) = value
    BY <1>6, ConcatEmptySeq, RemoveSpacesIs
  <2> QED  BY <2>2, <2>3
<1> DEFINE S == {k \in 0 .. n : m[k][f] = IF k < i THEN <<>> ELSE value}
<1>11. 0 \in S
  <2>1. m[0][f] = <<>> /\ 0 < i
    BY <1>2, <1>5, <1>6 DEF EmptyBook
  <2> QED  BY <1>5, <2>1
<1>12. ASSUME NEW k \in 0 .. n - 1, k \in S
       PROVE  k + 1 \in S
  <2>1. k + 1 \in 1 .. n /\ k + 1 \in 0 .. n /\ (k + 1) - 1 = k /\ k \in Nat /\ i \in Nat
    BY <1>5
  <2>2. CASE k + 1 = i
    <3>1. k = i - 1 /\ k < i /\ ~(k + 1 < i)
      BY <2>1, <2>2
    <3>2. m[k][f] = <<>>
      BY <1>12, <3>1
    <3>3. m[k + 1][f] = value
      BY <1>10, <2>2, <3>1, <3>2
    <3> QED  BY <2>1, <3>1, <3>3
  <2>3. CASE k + 1 # i
    <3>1. m[k + 1][f] = m[k][f]
      BY <1>9, <2>1, <2>3
    <3>2. k + 1 < i <=> k < i
      BY <2>1, <2>3
    <3> QED  BY <1>12, <2>1, <3>1, <3>2
  <2> QED  BY <2>2, <2>3
<1>13. n \in S
  <2> HIDE DEF S
  <2>1. \A k \in 0 .. n : k \in S
    BY <1>5, <1>11, <1>12, UpTo
  <2> QED  BY <1>5, <2>1
<1>14. ~(n < i)
  BY <1>5
<1>15. m[n][f] = value
  BY <1>13, <1>14
<1>16. Tokenize(line)[f] = value
  BY <1>2, <1>15
<1> QED  BY <1>16 DEF f, value

-----------------------------------------------------------------------------
(* The file that a run saved. *)

LEMMA MaxOrZero ==
  ASSUME NEW n \in Nat, NEW I \in SUBSET (1 .. n)
  PROVE  /\ Max({0} \cup I) \in {0} \cup I
         /\ \A i \in I : i <= Max({0} \cup I)
<1> DEFINE J == {0} \cup I
<1>1. \E m \in J : \A i \in J : m >= i
  <2>1. CASE I = {}
    BY <2>1
  <2>2. CASE I # {}
    <3> DEFINE m == Max(I)
    <3>1. m \in I /\ \A i \in I : i <= m
      BY <2>2, MaxIs
    <3> HIDE DEF m
    <3>2. m \in 1 .. n
      BY <3>1
    <3>3. \A i \in J : m >= i
      BY <3>1, <3>2
    <3> QED  BY <3>1, <3>3
  <2> QED  BY <2>1, <2>2
<1>2. Max(J) \in J /\ \A i \in J : Max(J) >= i
  BY <1>1 DEF Max
<1>3. \A i \in I : i \in Nat /\ i \in J
  OBVIOUS
<1>4. Max(J) \in Nat
  <2>1. \A i \in J : i \in Nat
    OBVIOUS
  <2> HIDE DEF J
  <2> QED  BY <1>2, <2>1
<1> HIDE DEF J
<1>5. \A i \in I : i <= Max(J)
  BY <1>2, <1>3, <1>4
<1> QED  BY <1>2, <1>5 DEF J

\* What the property says of a field, as the reader of the line meets it: the
\* empty fields right before it begin after the last one that is not empty.
LEMMA ComesBackIs ==
  ASSUME NEW b, NEW j \in 1 .. 11, ComesBack(b, j)
  PROVE  Comes(b, 1, j)
<1> DEFINE Empty(i) == b[LabelOrder[i]] = <<>>
           I == {i \in 1 .. j - 1 : ~Empty(i)}
           last == Max({0} \cup I)
           s == last + 1
<1>1. ~Empty(j) /\ (j - 1 - last) % 2 = 0
  BY DEF ComesBack, EmptyBefore
<1>2. last \in {0} \cup I /\ \A i \in I : i <= last
  <2>1. j - 1 \in Nat /\ I \in SUBSET (1 .. j - 1)
    OBVIOUS
  <2> HIDE DEF I
  <2> QED  BY <2>1, MaxOrZero
<1> HIDE DEF last
<1>3. last \in 0 .. j - 1 /\ (last = 0 \/ ~Empty(last))
  BY <1>2
<1>4. \A i \in s .. j - 1 : Empty(i)
  <2> SUFFICES ASSUME NEW i \in s .. j - 1, ~Empty(i) PROVE FALSE
    OBVIOUS
  <2>1. i \in 1 .. j - 1 /\ i > last
    BY <1>3
  <2>2. i \in I
    BY <2>1
  <2>3. i <= last
    BY <1>2, <2>2
  <2> QED  BY <1>3, <2>1, <2>3
<1>5. s \in 1 .. j /\ s - 1 = last /\ j - s = j - 1 - last
  BY <1>3
<1>6. s = 1 \/ ~Empty(s - 1)
  BY <1>3, <1>5
<1>7. (j - s) % 2 = 0
  BY <1>1, <1>5
<1> HIDE DEF s
<1> QED  BY <1>1, <1>4, <1>5, <1>6, <1>7 DEF Comes

\* A file that a run saved has a record in each line, and tokenize gets through
\* all of them: the next server does not end at its start.
THEOREM SavedFileIsRead == Spec => []SavedFileLoads
<1>1. FileInv => SavedFileLoads
  <2> SUFFICES ASSUME FileInv, phase = "start", runs > 1
               PROVE  Loads(input)
    BY DEF SavedFileLoads
  <2>1. atStop \in Seq(Books) /\ atStop # <<>> /\ input = Lines(atStop)
    BY DEF FileInv
  <2>2. /\ input \in Seq(Seq(Symbols)) /\ Len(input) = Len(atStop)
        /\ \A i \in 1 .. Len(atStop) : input[i] = RecToString(atStop[i]) \o <<Newline>>
    BY <2>1, LinesType
  <2>3. DOMAIN input = 1 .. Len(atStop) /\ 1 \in DOMAIN input
    <3>1. Len(atStop) \in Nat /\ Len(atStop) # 0
      BY <2>1
    <3>2. DOMAIN input = 1 .. Len(atStop)
      BY <2>2, LenProperties
    <3> QED  BY <3>1, <3>2
  <2>4. ASSUME NEW i \in 1 .. Len(atStop)
        PROVE  input[i] # <<Newline>> /\ Parses(input[i])
    <3>1. atStop[i] \in Books
      BY <2>1, ElementOfSeq
    <3> DEFINE b == atStop[i]
    <3> HIDE DEF b
    <3>2. b \in Books
      BY <3>1 DEF b
    <3> DEFINE line == RecToString(b) \o <<Newline>>
    <3>3. line # <<Newline>> /\ Parses(line)
      BY <3>2, SavedLine
    <3>4. input[i] = line
      BY <2>2 DEF b
    <3> HIDE DEF line
    <3> QED  BY <3>3, <3>4
  <2> QED  BY <2>3, <2>4 DEF Loads
<1> QED  BY <1>1, Types, PTL

\* The fields that their empty neighbours do not swallow are in the list that
\* main reads from the line of a book, and loan_check leaves them as they are.
LEMMA BookIsRead ==
  ASSUME NEW list \in Seq(Books), NEW i \in 1 .. Len(list)
  PROVE  \E j \in DOMAIN LoanCheck(ReadRecords(Lines(list))) :
           \A k \in 1 .. 11 : ComesBack(list[i], k) =>
             LoanCheck(ReadRecords(Lines(list)))[j][LabelOrder[k]] = list[i][LabelOrder[k]]
<1> DEFINE b == list[i]
           line == RecToString(b) \o <<Newline>>
           lines == Lines(list)
           read == ReadRecords(lines)
           loaded == LoanCheck(read)
<1>1. b \in Books
  BY ElementOfSeq
<1>2. lines \in Seq(Seq(Symbols)) /\ i \in 1 .. Len(lines) /\ lines[i] = line
  BY LinesType
<1>3. line \in Seq(Symbols) /\ line # <<Newline>> /\ Fields(Pairs(line), b, 1)
  <2> HIDE DEF b
  <2> QED  BY <1>1, SavedLine
<1> HIDE DEF b, line, lines
<1>4. read \in Shelves /\ \E j \in 1 .. Len(read) : read[j] = Tokenize(line)
  BY <1>2, <1>3, ReadRecordsIs
<1>5. PICK j \in 1 .. Len(read) : read[j] = Tokenize(line)
  BY <1>4
<1>6. read \in Seq(Books)
  BY <1>4 DEF Shelves
<1> HIDE DEF read
<1>7. /\ loaded \in Seq(Books) /\ Len(loaded) = Len(read)
      /\ \A f \in Labels \ {"prestito"} : loaded[j][f] = read[j][f]
      /\ read[j]["prestito"] # <<>> => loaded[j] = read[j]
  BY <1>6, LoanCheckIs
<1>8. j \in DOMAIN loaded
  BY <1>7, LenProperties
<1> HIDE DEF loaded
<1>9. ASSUME NEW k \in 1 .. 11, ComesBack(b, k)
      PROVE  loaded[j][LabelOrder[k]] = b[LabelOrder[k]]
  <2> DEFINE f == LabelOrder[k]
  <2>1. f \in Labels
    BY LabelsAre
  <2>2. Comes(b, 1, k)
    BY <1>9, ComesBackIs
  <2>3. Tokenize(line)[f] = b[f]
    BY <1>1, <1>3, <2>2, SavedField
  <2>4. b[f] # <<>>
    BY <1>9 DEF ComesBack
  <2> HIDE DEF f
  <2>5. CASE f = "prestito"
    <3>1. read[j][f] = b[f] /\ read[j][f] # <<>>
      BY <1>5, <2>3, <2>4
    <3>2. read[j]["prestito"] # <<>>
      BY <2>5, <3>1, Zenon
    <3>3. loaded[j] = read[j]
      BY <1>7, <3>2, Zenon
    <3> QED  BY <3>1, <3>3 DEF f
  <2>6. CASE f # "prestito"
    <3>1. f \in Labels \ {"prestito"}
      BY <2>1, <2>6, Zenon
    <3>2. loaded[j][f] = read[j][f]
      BY <1>7, <3>1, Zenon
    <3> QED  BY <1>5, <2>3, <3>2 DEF f
  <2> QED  BY <2>5, <2>6, Zenon
<1>10. \E l \in DOMAIN loaded : \A k \in 1 .. 11 : ComesBack(b, k) =>
         loaded[l][LabelOrder[k]] = b[LabelOrder[k]]
  BY <1>8, <1>9
<1> QED  BY <1>10 DEF b, lines, read, loaded

\* A server that starts from the file of the run before has every book of that
\* run, with the loan and each field that its empty neighbours do not swallow.
THEOREM SavedFieldsAreRead == Spec => []SavedFieldsComeBack
<1>1. FileInv => SavedFieldsComeBack
  <2> SUFFICES ASSUME FileInv, phase = "loaded", runs > 1, NEW i \in DOMAIN atStop
               PROVE  \E j \in DOMAIN books : \A k \in DOMAIN LabelOrder :
                        ComesBack(atStop[i], k) =>
                          books[j][LabelOrder[k]] = atStop[i][LabelOrder[k]]
    BY DEF SavedFieldsComeBack
  <2>1. atStop \in Seq(Books) /\ books = LoanCheck(ReadRecords(Lines(atStop)))
    BY DEF FileInv
  <2>2. i \in 1 .. Len(atStop)
    BY <2>1, LenProperties
  <2>3. DOMAIN LabelOrder = 1 .. 11
    BY LabelsAre, LenProperties
  <2> QED  BY <2>1, <2>2, <2>3, BookIsRead
<1> QED  BY <1>1, Types, PTL

FullBooksKept ==
  phase = "loaded" /\ runs > 1 =>
    \A i \in DOMAIN atStop :
      (\A f \in Labels : atStop[i][f] # <<>>) =>
        \E j \in DOMAIN books : books[j] = atStop[i]

\* A book without an empty field is in the list of the next run as it was: what
\* a save loses, it loses behind an empty field.
THEOREM FullBooksAreRead == Spec => []FullBooksKept
<1>1. ASSUME NEW b, NEW k \in 1 .. 11, \A i \in 1 .. 11 : b[LabelOrder[i]] # <<>>
      PROVE  ComesBack(b, k)
  <2> DEFINE I == {j \in 1 .. k - 1 : b[LabelOrder[j]] # <<>>}
             last == Max({0} \cup I)
  <2>1. I = 1 .. k - 1
    BY <1>1
  <2> HIDE DEF I
  <2>2. last \in {0} \cup I /\ \A i \in I : i <= last
    <3>1. k - 1 \in Nat /\ I \in SUBSET (1 .. k - 1)
      BY <2>1
    <3> QED  BY <3>1, MaxOrZero
  <2> HIDE DEF last
  <2>3. last = k - 1
    BY <2>1, <2>2
  <2>4. EmptyBefore(b, k) = 0
    BY <2>3 DEF EmptyBefore, last, I
  <2> QED  BY <1>1, <2>4 DEF ComesBack
<1>2. FileInv /\ SavedFieldsComeBack => FullBooksKept
  <2> SUFFICES ASSUME FileInv, SavedFieldsComeBack, phase = "loaded", runs > 1,
                      NEW i \in DOMAIN atStop, \A f \in Labels : atStop[i][f] # <<>>
               PROVE  \E j \in DOMAIN books : books[j] = atStop[i]
    BY DEF FullBooksKept
  <2> DEFINE b == atStop[i]
  <2>1. PICK j \in DOMAIN books : \A k \in DOMAIN LabelOrder :
          ComesBack(b, k) => books[j][LabelOrder[k]] = b[LabelOrder[k]]
    BY DEF SavedFieldsComeBack
  <2>2. b \in Books /\ books[j] \in Books
    <3>1. atStop \in Seq(Books) /\ books \in Seq(Books)
      BY DEF FileInv
    <3>2. i \in 1 .. Len(atStop) /\ j \in 1 .. Len(books)
      BY <3>1, LenProperties
    <3> QED  BY <3>1, <3>2, ElementOfSeq
  <2>3. \A k \in 1 .. 11 : k \in DOMAIN LabelOrder /\ b[LabelOrder[k]] # <<>>
    BY LabelsAre, LenProperties
  <2> DEFINE c == books[j]
  <2> HIDE DEF b, c
  <2>4. \A k \in 1 .. 11 : c[LabelOrder[k]] = b[LabelOrder[k]]
    BY <1>1, <2>1, <2>3 DEF c
  <2>5. \A f \in Labels : c[f] = b[f]
    <3> TAKE f \in Labels
    <3>1. PICK k \in 1 .. 11 : f = LabelOrder[k]
      BY LabelsAre
    <3> QED  BY <2>4, <3>1
  <2>6. c = b
    BY <2>2, <2>5 DEF Books, c
  <2> QED  BY <2>6 DEF b, c
<1> QED  BY <1>2, Types, SavedFieldsAreRead, PTL
=============================================================================
