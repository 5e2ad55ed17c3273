--------------------------- MODULE BibSessionProofs ----------------------------
(***************************************************************************)
(* Proofs about BibSession, for every number of servers and of records in  *)
(* a reply.                                                                *)
(***************************************************************************)
EXTENDS BibSession, SequenceTheorems, TLAPS

Fields == Kinds \cup {"zero", "some", "data"}

Has(q, field) == \E k \in DOMAIN q : q[k] = field

\* What is left of a reply is messages, the first one perhaps begun: each field
\* is followed by the field the client reads next, nothing follows MSG_END and
\* no record a negative answer.
WellFormed(q) ==
  \A k \in DOMAIN q :
    /\ q[k] = "X" => k = Len(q)
    /\ q[k] \in Kinds \ {"X"} => k < Len(q) /\ q[k + 1] \in {"zero", "some"}
    /\ q[k] = "some" => k < Len(q) /\ q[k + 1] = "data"
    /\ q[k] \in {"zero", "data"} /\ k < Len(q) => q[k + 1] \in Kinds
    /\ q[k] = "zero" => \A j \in DOMAIN q : j > k => q[j] # "R"

\* A stream against the server that writes it.
StreamInv ==
  \A s \in Servers :
    /\ WellFormed(stream[s])
    /\ Has(stream[s], "zero") => negatives[s] > 0
    /\ Has(stream[s], "X") => spc[s] \in {"served", "stopped"}
    /\ stream[s] # <<>> => spc[s] \in {"reply", "served", "stopped", "killed"}
    /\ ended[s] # "no" => spc[s] = "stopped"

\* The servers the client has not connected to, and those it is done with.
Ahead(s) == s > at \/ (s = at /\ cpc \in {"count", "list", "connect"})
Behind(s) == s < at \/ (s = at /\ cpc \in {"leave", "done", "failed", "killed"})

ServerInv ==
  \A s \in Servers :
    /\ Ahead(s) => stream[s] = <<>> /\ spc[s] \in {"off", "published", "up", "stopped"}
    /\ Behind(s) /\ spc[s] \in {"accepted", "asked", "reply", "reject"}
         => negatives[s] > 0

\* The connection the client is reading from.
FrameInv ==
  /\ cpc = "write" => stream[at] = <<>> /\ (ended[at] = "no" => spc[at] = "accepted")
  /\ cpc = "type" /\ stream[at] # <<>> => stream[at][1] \in Kinds
  /\ cpc = "length" =>
       \/ stream[at] # <<>> /\ stream[at][1] \in {"zero", "some"}
       \/ Exhausted
  /\ cpc = "data" =>
       \/ received[2] = "some" /\ stream[at] # <<>> /\ stream[at][1] = "data"
       \/ received[2] = "zero" /\ negatives[at] > 0 /\ ~Has(stream[at], "R")
       \/ Exhausted

\* The lines the client counted, and who listened then.
CountInv ==
  /\ \A s \in Servers : spc[s] = "off" <=> s > lines
  /\ cpc \in {"count", "list"} => at = 1
  /\ cpc = "count" => upAtCount = {}
  /\ cpc \notin {"count", "done"} => at <= count
  /\ cpc = "done" => at = count \/ upAtCount = {}
  /\ \A s \in upAtCount :
       /\ s <= count
       /\ spc[s] \notin {"off", "published"}
       /\ spc[s] = "up" => Ahead(s) \/ cpc = "killed"

IInv ==
  /\ TypeOK
  /\ StreamInv
  /\ ServerInv
  /\ FrameInv
  /\ CountInv
  /\ NoRecordMissed
  /\ KilledByNegative

-----------------------------------------------------------------------------
(* Sequences of fields. *)

\* What is left when the client has read the first field.
LEMMA TailWellFormed ==
  ASSUME NEW q \in Seq(Fields), q # <<>>, WellFormed(q)
  PROVE  /\ Tail(q) \in Seq(Fields)
         /\ WellFormed(Tail(q))
         /\ \A field : Has(Tail(q), field) => Has(q, field)
         /\ Has(q, q[1])
         /\ q[1] \in Kinds \ {"X"} => Tail(q) # <<>> /\ Tail(q)[1] \in {"zero", "some"}
         /\ q[1] = "some" => Tail(q) # <<>> /\ Tail(q)[1] = "data"
         /\ q[1] \in {"zero", "data"} /\ Tail(q) # <<>> => Tail(q)[1] \in Kinds
         /\ q[1] = "zero" => ~Has(Tail(q), "R")
<1> DEFINE r == Tail(q)
<1>1. /\ r \in Seq(Fields)
      /\ Len(r) = Len(q) - 1
      /\ Len(q) \in Nat \ {0}
      /\ \A k \in 1 .. Len(r) : r[k] = q[k + 1]
  BY HeadTailProperties, LenProperties, EmptySeq
<1>2. DOMAIN r = 1 .. Len(r) /\ DOMAIN q = 1 .. Len(q) /\ Len(r) \in Nat
  BY <1>1, LenProperties
<1> HIDE DEF r
<1>3. r # <<>> <=> Len(r) > 0
  BY <1>1, <1>2, EmptySeq
<1>4. WellFormed(r)
  <2> SUFFICES ASSUME NEW k \in DOMAIN r
               PROVE  /\ r[k] = "X" => k = Len(r)
                      /\ r[k] \in Kinds \ {"X"} => k < Len(r) /\ r[k + 1] \in {"zero", "some"}
                      /\ r[k] = "some" => k < Len(r) /\ r[k + 1] = "data"
                      /\ r[k] \in {"zero", "data"} /\ k < Len(r) => r[k + 1] \in Kinds
                      /\ r[k] = "zero" => \A j \in DOMAIN r : j > k => r[j] # "R"
    BY DEF WellFormed
  <2>1. k \in 1 .. Len(r) /\ k + 1 \in DOMAIN q /\ r[k] = q[k + 1]
    BY <1>1, <1>2
  <2>2. k < Len(r) => r[k + 1] = q[(k + 1) + 1]
    BY <2>1, <1>1, <1>2
  <2>3. /\ q[k + 1] = "X" => k + 1 = Len(q)
        /\ q[k + 1] \in Kinds \ {"X"} => k + 1 < Len(q) /\ q[(k + 1) + 1] \in {"zero", "some"}
        /\ q[k + 1] = "some" => k + 1 < Len(q) /\ q[(k + 1) + 1] = "data"
        /\ q[k + 1] \in {"zero", "data"} /\ k + 1 < Len(q) => q[(k + 1) + 1] \in Kinds
        /\ q[k + 1] = "zero" => \A j \in DOMAIN q : j > k + 1 => q[j] # "R"
    BY <2>1 DEF WellFormed
  <2>4. ASSUME r[k] = "zero", NEW j \in DOMAIN r, j > k
        PROVE  r[j] # "R"
    <3>1. j + 1 \in DOMAIN q /\ j + 1 > k + 1 /\ r[j] = q[j + 1]
      BY <2>4, <1>1, <1>2, <2>1
    <3> QED  BY <3>1, <2>4, <2>1, <2>3
  <2> QED  BY <2>1, <2>2, <2>3, <2>4, <1>1, <1>2
<1>5. \A field : Has(r, field) => Has(q, field)
  <2> SUFFICES ASSUME NEW field, NEW k \in DOMAIN r, r[k] = field
               PROVE  \E j \in DOMAIN q : q[j] = field
    BY DEF Has
  <2>1. k + 1 \in DOMAIN q /\ q[k + 1] = field
    BY <1>1, <1>2
  <2> QED  BY <2>1
<1>6. 1 \in DOMAIN q /\ Has(q, q[1])
  BY <1>1, <1>2 DEF Has
<1>7. Len(q) > 1 => r # <<>> /\ r[1] = q[2]
  BY <1>1, <1>2, <1>3
<1>8. /\ q[1] \in Kinds \ {"X"} => 1 < Len(q) /\ q[2] \in {"zero", "some"}
      /\ q[1] = "some" => 1 < Len(q) /\ q[2] = "data"
      /\ q[1] \in {"zero", "data"} /\ 1 < Len(q) => q[2] \in Kinds
      /\ q[1] = "zero" => \A j \in DOMAIN q : j > 1 => q[j] # "R"
  <2>1. 1 + 1 = 2  OBVIOUS
  <2> QED  BY <1>6, <2>1 DEF WellFormed
<1>9. q[1] = "zero" => ~Has(r, "R")
  <2> SUFFICES ASSUME q[1] = "zero", NEW k \in DOMAIN r
               PROVE  r[k] # "R"
    BY DEF Has
  <2>1. k + 1 \in DOMAIN q /\ k + 1 > 1 /\ r[k] = q[k + 1]
    BY <1>1, <1>2
  <2> QED  BY <2>1, <1>8
<1>10. r # <<>> => Len(q) > 1
  BY <1>1, <1>2, <1>3
<1> QED  BY <1>1, <1>4, <1>5, <1>6, <1>7, <1>8, <1>9, <1>10 DEF r

\* What is left when the server has written a message.
LEMMA ConcatWellFormed ==
  ASSUME NEW q \in Seq(Fields), WellFormed(q), ~Has(q, "X"),
         NEW m \in Seq(Fields), WellFormed(m), m # <<>>, m[1] \in Kinds,
         Has(q, "zero") => ~Has(m, "R")
  PROVE  /\ q \o m \in Seq(Fields)
         /\ WellFormed(q \o m)
         /\ q \o m # <<>>
         /\ q # <<>> => (q \o m)[1] = q[1]
         /\ q = <<>> => (q \o m)[1] \in Kinds
         /\ \A field : Has(q \o m, field) => Has(q, field) \/ Has(m, field)
<1> DEFINE r == q \o m
<1>1. /\ r \in Seq(Fields)
      /\ Len(r) = Len(q) + Len(m)
      /\ \A k \in 1 .. Len(r) : r[k] = IF k <= Len(q) THEN q[k] ELSE m[k - Len(q)]
  BY ConcatProperties
<1>2. /\ DOMAIN r = 1 .. Len(r) /\ DOMAIN q = 1 .. Len(q) /\ DOMAIN m = 1 .. Len(m)
      /\ Len(r) \in Nat /\ Len(q) \in Nat /\ Len(m) \in Nat
  BY <1>1, LenProperties
<1> HIDE DEF r
<1>3. Len(m) > 0 /\ (q = <<>> <=> Len(q) = 0) /\ (r = <<>> <=> Len(r) = 0)
  BY <1>1, <1>2, EmptySeq
<1>4. \A k \in 1 .. Len(q) : k \in DOMAIN r /\ r[k] = q[k]
  BY <1>1, <1>2
<1>5. \A k \in DOMAIN r : k > Len(q) => k - Len(q) \in DOMAIN m /\ r[k] = m[k - Len(q)]
  BY <1>1, <1>2
<1>6. \A k \in DOMAIN r : r[k] \in Fields
  BY <1>1, <1>2, ElementOfSeq
<1>7. \A field : Has(r, field) => Has(q, field) \/ Has(m, field)
  <2> SUFFICES ASSUME NEW field, NEW k \in DOMAIN r, r[k] = field
               PROVE  Has(q, field) \/ Has(m, field)
    BY DEF Has
  <2>1. CASE k <= Len(q)
    <3>1. k \in DOMAIN q /\ q[k] = field  BY <2>1, <1>2, <1>4
    <3> QED  BY <3>1 DEF Has
  <2>2. CASE k > Len(q)
    <3>1. k - Len(q) \in DOMAIN m /\ m[k - Len(q)] = field  BY <2>2, <1>5
    <3> QED  BY <3>1 DEF Has
  <2> QED  BY <2>1, <2>2, <1>2
<1>8. WellFormed(r)
  <2> SUFFICES ASSUME NEW k \in DOMAIN r
               PROVE  /\ r[k] = "X" => k = Len(r)
                      /\ r[k] \in Kinds \ {"X"} => k < Len(r) /\ r[k + 1] \in {"zero", "some"}
                      /\ r[k] = "some" => k < Len(r) /\ r[k + 1] = "data"
                      /\ r[k] \in {"zero", "data"} /\ k < Len(r) => r[k + 1] \in Kinds
                      /\ r[k] = "zero" => \A j \in DOMAIN r : j > k => r[j] # "R"
    BY DEF WellFormed
  <2>1. CASE k > Len(q)
    <3> DEFINE i == k - Len(q)
    <3>1. i \in DOMAIN m /\ r[k] = m[i] /\ k = i + Len(q)
      BY <2>1, <1>2, <1>5
    <3>2. k < Len(r) <=> i < Len(m)
      BY <3>1, <1>1, <1>2
    <3>3. k < Len(r) => k + 1 \in DOMAIN r /\ (k + 1) - Len(q) = i + 1 /\ r[k + 1] = m[i + 1]
      BY <2>1, <3>1, <1>1, <1>2, <1>5
    <3>4. \A j \in DOMAIN r : j > k => j - Len(q) \in DOMAIN m /\ j - Len(q) > i /\ r[j] = m[j - Len(q)]
      BY <2>1, <3>1, <1>2, <1>5
    <3>5. /\ m[i] = "X" => i = Len(m)
          /\ m[i] \in Kinds \ {"X"} => i < Len(m) /\ m[i + 1] \in {"zero", "some"}
          /\ m[i] = "some" => i < Len(m) /\ m[i + 1] = "data"
          /\ m[i] \in {"zero", "data"} /\ i < Len(m) => m[i + 1] \in Kinds
          /\ m[i] = "zero" => \A j \in DOMAIN m : j > i => m[j] # "R"
      BY <3>1 DEF WellFormed
    <3>6. i = Len(m) => k = Len(r)
      BY <3>1, <1>1, <1>2
    <3> HIDE DEF i
    <3> QED  BY <3>1, <3>2, <3>3, <3>4, <3>5, <3>6
  <2>2. CASE k <= Len(q)
    <3>1. k \in DOMAIN q /\ r[k] = q[k]
      BY <2>2, <1>2, <1>4
    <3>2. k < Len(r) /\ k + 1 \in DOMAIN r
      BY <2>2, <1>1, <1>2, <1>3
    <3>3. k < Len(q) => r[k + 1] = q[k + 1]
      BY <3>2, <1>2, <1>4
    <3>4. k = Len(q) => r[k + 1] = m[1]
      BY <3>2, <1>2, <1>5
    <3>5. /\ q[k] # "X"
          /\ q[k] \in Kinds \ {"X"} => k < Len(q) /\ q[k + 1] \in {"zero", "some"}
          /\ q[k] = "some" => k < Len(q) /\ q[k + 1] = "data"
          /\ q[k] \in {"zero", "data"} /\ k < Len(q) => q[k + 1] \in Kinds
          /\ q[k] = "zero" => \A j \in DOMAIN q : j > k => q[j] # "R"
      BY <3>1 DEF WellFormed, Has
    <3>6. ASSUME r[k] = "zero", NEW j \in DOMAIN r, j > k
          PROVE  r[j] # "R"
      <4>1. CASE j <= Len(q)
        <5>1. j \in DOMAIN q /\ r[j] = q[j]  BY <4>1, <3>6, <1>2, <1>4
        <5> QED  BY <5>1, <3>1, <3>5, <3>6
      <4>2. CASE j > Len(q)
        <5>1. Has(q, "zero")  BY <3>1, <3>6 DEF Has
        <5>2. j - Len(q) \in DOMAIN m /\ r[j] = m[j - Len(q)]  BY <4>2, <1>5
        <5> QED  BY <5>1, <5>2 DEF Has
      <4> QED  BY <4>1, <4>2, <1>2
    <3>7. k = Len(q) \/ k < Len(q)
      BY <2>2, <3>1, <1>2
    <3> QED  BY <3>1, <3>2, <3>3, <3>4, <3>5, <3>6, <3>7
  <2> QED  BY <2>1, <2>2, <1>2
<1>9. q # <<>> => r[1] = q[1]
  BY <1>2, <1>3, <1>4
<1>10. q = <<>> => r[1] \in Kinds
  BY <1>1, <1>2, <1>3, <1>5
<1>11. r # <<>>
  BY <1>1, <1>2, <1>3
<1> QED  BY <1>1, <1>7, <1>8, <1>9, <1>10, <1>11 DEF r
\* The messages of a reply.
LEMMA RecordMessage ==
  ASSUME NEW kind \in {"R", "L", "Q"}
  PROVE  /\ Message(kind) \in Seq(Fields)
         /\ Message(kind) # <<>>
         /\ Message(kind)[1] = kind
         /\ WellFormed(Message(kind))
         /\ ~Has(Message(kind), "X") /\ ~Has(Message(kind), "zero")
         /\ kind # "R" => ~Has(Message(kind), "R")
<1> DEFINE m == Message(kind)
<1>1. m \in Seq(Fields) /\ Len(m) = 3 /\ DOMAIN m = {1, 2, 3}
  BY DEF Message, Fields, Kinds
<1>2. m[1] = kind /\ m[2] = "some" /\ m[3] = "data"
  BY DEF Message
<1> HIDE DEF m
<1>3. WellFormed(m)
  BY <1>1, <1>2 DEF WellFormed, Kinds
<1>4. ~Has(m, "X") /\ ~Has(m, "zero") /\ (kind # "R" => ~Has(m, "R"))
  BY <1>1, <1>2 DEF Has
<1>5. m # <<>>
  BY <1>1
<1> QED  BY <1>1, <1>2, <1>3, <1>4, <1>5 DEF m

LEMMA NegativeMessage ==
  /\ EmptyMessage("N") \in Seq(Fields)
  /\ EmptyMessage("N") # <<>>
  /\ EmptyMessage("N")[1] = "N"
  /\ WellFormed(EmptyMessage("N"))
  /\ ~Has(EmptyMessage("N"), "X") /\ ~Has(EmptyMessage("N"), "R")
<1> DEFINE m == EmptyMessage("N")
<1>1. m \in Seq(Fields) /\ Len(m) = 2 /\ DOMAIN m = {1, 2}
  BY DEF EmptyMessage, Fields, Kinds
<1>2. m[1] = "N" /\ m[2] = "zero"
  BY DEF EmptyMessage
<1> HIDE DEF m
<1>3. WellFormed(m)
  BY <1>1, <1>2 DEF WellFormed, Kinds
<1>4. ~Has(m, "X") /\ ~Has(m, "R")
  BY <1>1, <1>2 DEF Has
<1>5. m # <<>>
  BY <1>1
<1> QED  BY <1>1, <1>2, <1>3, <1>4, <1>5 DEF m

LEMMA EndOfReply ==
  /\ EndMessage \in Seq(Fields)
  /\ EndMessage # <<>>
  /\ EndMessage[1] = "X"
  /\ WellFormed(EndMessage)
  /\ ~Has(EndMessage, "zero") /\ ~Has(EndMessage, "R")
<1> DEFINE m == EndMessage
<1>1. m \in Seq(Fields) /\ Len(m) = 1 /\ DOMAIN m = {1} /\ m[1] = "X"
  BY DEF EndMessage, Fields, Kinds
<1> HIDE DEF m
<1>2. WellFormed(m) /\ ~Has(m, "zero") /\ ~Has(m, "R") /\ m # <<>>
  BY <1>1 DEF WellFormed, Kinds, Has
<1> QED  BY <1>1, <1>2 DEF m

\* The property, in the words of the invariant.
LEMMA NoRecord == NoRecordMissed <=> \A s \in Servers : Left(s) => ~Has(stream[s], "R")
BY DEF NoRecordMissed, Has

LEMMA EmptyStream == WellFormed(<<>>) /\ \A field : ~Has(<<>>, field)
BY DEF WellFormed, Has

-----------------------------------------------------------------------------
(* The invariant is inductive. *)

LEMMA InitInv == Init => IInv
<1> SUFFICES ASSUME Init PROVE IInv  OBVIOUS
<1> USE SessionAssumption, EmptyStream DEF Init, Servers
<1>1. TypeOK
  BY DEF TypeOK, Kinds
<1>2. StreamInv
  BY DEF StreamInv
<1>3. ServerInv
  BY DEF ServerInv, Ahead, Behind
<1>4. FrameInv
  BY DEF FrameInv
<1>5. CountInv
  BY DEF CountInv
<1>6. NoRecordMissed /\ KilledByNegative
  <2>1. \A s \in Servers : stream[s] = <<>> /\ spc[s] # "killed"
    OBVIOUS
  <2>2. \A s \in Servers : ~Has(stream[s], "R")
    BY <2>1, EmptyStream
  <2> QED  BY <2>1, <2>2, NoRecord DEF KilledByNegative
<1> QED  BY <1>1, <1>2, <1>3, <1>4, <1>5, <1>6 DEF IInv

\* A server writes a message of its reply.
LEMMA WriteToInv ==
  ASSUME IInv, NEW s \in Servers, NEW m \in Seq(Fields), NEW p \in {"reply", "served"},
         spc[s] \in {"reply", "reject"},
         m # <<>>, m[1] \in Kinds, WellFormed(m),
         Has(m, "X") => p = "served",
         Has(m, "zero") => negatives'[s] > 0,
         Has(m, "R") => negatives[s] = 0,
         WriteTo(s, m, p),
         records' \in [Servers -> 0 .. MaxRecords],
         negatives' \in [Servers -> 0 .. 2],
         \A t \in Servers : negatives[t] > 0 => negatives'[t] > 0,
         UNCHANGED <<requestVars, lines, clientVars, ended>>
  PROVE  IInv'
<1> USE DEF requestVars, clientVars, ServerTo
<1>t. TypeOK  BY DEF IInv
<1>1. s # at => s < at \/ s > at
  BY <1>t DEF TypeOK, Servers
<1>2. ~Ahead(s)
  BY DEF IInv, ServerInv
<1>3. /\ WellFormed(stream[s]) /\ stream[s] \in Seq(Fields) /\ ~Has(stream[s], "X")
      /\ Has(stream[s], "zero") => negatives[s] > 0 /\ negatives'[s] > 0
      /\ ended[s] = "no"
  BY <1>t DEF IInv, StreamInv, TypeOK, Fields
<1>4. Has(stream[s], "zero") => ~Has(m, "R")
  BY <1>3, <1>t DEF TypeOK
<1>5. ClientGone => negatives[s] > 0 /\ negatives'[s] > 0
  <2>1. ClientGone => Behind(s)
    BY <1>1, <1>2 DEF ClientGone, Behind, Ahead
  <2> QED  BY <2>1 DEF IInv, ServerInv
<1>6. Left(s) => negatives[s] > 0
  BY DEF IInv, ServerInv, Behind, Left
<1>7. Has(m, "R") => negatives[s] = 0 /\ ~Left(s) /\ ~ClientGone
  BY <1>5, <1>6, <1>t DEF TypeOK
<1> DEFINE r == stream[s] \o m
<1>8. /\ r \in Seq(Fields) /\ WellFormed(r) /\ r # <<>>
      /\ stream[s] # <<>> => r[1] = stream[s][1]
      /\ stream[s] = <<>> => r[1] \in Kinds
      /\ \A field : Has(r, field) => Has(stream[s], field) \/ Has(m, field)
  <2> HIDE DEF r
  <2> QED  BY <1>3, <1>4, ConcatWellFormed DEF r
<1> HIDE DEF r
\* The stream and the place of s after the step, whichever way it went.
<1>9. /\ stream' \in [Servers -> Seq(Fields)]
      /\ spc' \in [Servers -> {"off", "published", "up", "accepted", "asked", "reply",
                               "reject", "served", "stopped", "killed"}]
      /\ reset' \in [Servers -> BOOLEAN]
      /\ \A t \in Servers \ {s} : stream'[t] = stream[t] /\ spc'[t] = spc[t]
      /\ stream'[s] = stream[s] \/ (stream'[s] = r /\ ~ClientGone)
      /\ spc'[s] = p \/ (spc'[s] = "killed" /\ ClientGone)
      /\ stream'[s] = r => spc'[s] = p \/ r = stream[s]
      /\ spc'[s] \in {"reply", "served", "killed"}
  <2> USE <1>t, <1>8 DEF TypeOK, Fields
  <2>1. CASE /\ ~ClientGone
             /\ stream' = [stream EXCEPT ![s] = r]
             /\ spc' = [spc EXCEPT ![s] = p]
             /\ UNCHANGED reset
    BY <2>1
  <2>2. CASE /\ ClientGone
             /\ reset' = [reset EXCEPT ![s] = TRUE]
             /\ spc' = [spc EXCEPT ![s] = p]
             /\ UNCHANGED stream
    BY <2>2
  <2>3. CASE /\ ClientGone
             /\ spc' = [spc EXCEPT ![s] = "killed"]
             /\ UNCHANGED <<stream, reset>>
    BY <2>3
  <2> QED  BY <2>1, <2>2, <2>3 DEF WriteTo, r
<1>10. TypeOK'
  BY <1>t, <1>9 DEF TypeOK, Fields
<1>11. StreamInv'
  <2> SUFFICES ASSUME NEW t \in Servers
               PROVE  /\ WellFormed(stream'[t])
                      /\ Has(stream'[t], "zero") => negatives'[t] > 0
                      /\ Has(stream'[t], "X") => spc'[t] \in {"served", "stopped"}
                      /\ stream'[t] # <<>> => spc'[t] \in {"reply", "served", "stopped", "killed"}
                      /\ ended'[t] # "no" => spc'[t] = "stopped"
    BY DEF StreamInv, Has, WellFormed
  <2>1. CASE t # s
    BY <2>1, <1>9 DEF IInv, StreamInv
  <2>2. CASE t = s
    BY <2>2, <1>3, <1>8, <1>9
  <2> QED  BY <2>1, <2>2
<1>12. ServerInv'
  BY <1>2, <1>5, <1>9 DEF IInv, ServerInv, Ahead, Behind, ClientGone
<1>13. FrameInv'
  <2>1. at \in Servers /\ FrameInv
    BY <1>t DEF TypeOK, IInv
  <2>2. CASE at # s
    BY <2>1, <2>2, <1>9, <1>t DEF FrameInv, Exhausted, Has, TypeOK
  <2>3. CASE at = s
    <3>1. cpc # "write"
      BY <2>1, <2>3, <1>3 DEF FrameInv
    <3>2. ~Exhausted
      BY <2>3, <1>3 DEF Exhausted
    <3>3. stream'[s] # <<>> => stream'[s][1] \in Kinds \/ (stream'[s][1] = stream[s][1] /\ stream[s] # <<>>)
      BY <1>8, <1>9
    <3>4. stream[s] # <<>> => stream'[s] # <<>> /\ stream'[s][1] = stream[s][1]
      BY <1>8, <1>9
    <3>5. negatives[s] > 0 => negatives'[s] > 0 /\ ~Has(m, "R")
      BY <1>7, <1>t DEF TypeOK
    <3>6. negatives[s] > 0 /\ ~Has(stream[s], "R") => ~Has(stream'[s], "R")
      BY <3>5, <1>8, <1>9
    <3>7. cpc = "type" /\ stream'[s] # <<>> => stream'[s][1] \in Kinds
      BY <3>3, <2>1, <2>3 DEF FrameInv
    <3>8. cpc = "length" => stream'[s] # <<>> /\ stream'[s][1] \in {"zero", "some"}
      BY <3>2, <3>4, <2>1, <2>3 DEF FrameInv
    <3>9. cpc = "data" =>
            \/ received[2] = "some" /\ stream'[s] # <<>> /\ stream'[s][1] = "data"
            \/ received[2] = "zero" /\ negatives'[s] > 0 /\ ~Has(stream'[s], "R")
      BY <3>2, <3>4, <3>5, <3>6, <2>1, <2>3 DEF FrameInv
    <3> QED  BY <3>1, <3>7, <3>8, <3>9, <2>3 DEF FrameInv, Has
  <2> QED  BY <2>2, <2>3
<1>14. CountInv'
  <2>1. CountInv /\ upAtCount \subseteq Servers
    BY <1>t DEF IInv, TypeOK
  <2>2. \A t \in Servers : spc'[t] = spc[t] \/ (t = s /\ spc'[t] \in {"reply", "served", "killed"})
    BY <1>9
  <2> QED  BY <2>1, <2>2 DEF CountInv, Ahead, Servers
<1>15. NoRecordMissed'
  <2> SUFFICES ASSUME NEW t \in Servers, Left(t)'
               PROVE  ~Has(stream'[t], "R")
    BY DEF NoRecordMissed, Has
  <2>1. Left(t)
    BY DEF Left
  <2>2. ~Has(stream[t], "R")
    BY <2>1, NoRecord DEF IInv
  <2>3. CASE t # s
    BY <2>2, <2>3, <1>9
  <2>4. CASE t = s
    BY <2>1, <2>2, <2>4, <1>7, <1>8, <1>9
  <2> QED  BY <2>3, <2>4
<1>16. KilledByNegative'
  BY <1>5, <1>9 DEF IInv, KilledByNegative
<1> QED  BY <1>10, <1>11, <1>12, <1>13, <1>14, <1>15, <1>16 DEF IInv
\* A server that is not writing changes its place, or its process stops.
LEMMA PlaceInv ==
  ASSUME IInv, NEW s \in Servers, NEW p \in {"published", "up", "reply", "reject", "stopped"},
         spc' = [spc EXCEPT ![s] = p],
         ended' \in [Servers -> {"no", "eof", "error"}],
         \A t \in Servers \ {s} : ended'[t] = ended[t],
         ended'[s] = "no" <=> p # "stopped" /\ ended[s] = "no",
         \/ p = "published" /\ spc[s] = "off" /\ s = lines + 1 /\ lines' = s
         \/ /\ lines' = lines
            /\ \/ p = "up" /\ spc[s] = "published"
               \/ p \in {"reply", "reject"} /\ spc[s] = "asked"
               \/ p = "stopped" /\ spc[s] \notin {"off", "stopped", "killed"},
         UNCHANGED <<requestVars, clientVars, replyVars, stream, reset>>
  PROVE  IInv'
<1> USE DEF requestVars, clientVars, replyVars
<1>t. TypeOK  BY DEF IInv
<1>1. /\ spc' \in [Servers -> {"off", "published", "up", "accepted", "asked", "reply",
                               "reject", "served", "stopped", "killed"}]
      /\ \A t \in Servers \ {s} : spc'[t] = spc[t]
      /\ spc'[s] = p
      /\ lines' \in 0 .. NumServers /\ lines' >= lines
  BY <1>t DEF TypeOK, Servers
<1>2. TypeOK'
  BY <1>t, <1>1, SessionAssumption DEF TypeOK, Servers
<1>3. StreamInv'
  <2> SUFFICES ASSUME NEW t \in Servers
               PROVE  /\ Has(stream[t], "X") => spc'[t] \in {"served", "stopped"}
                      /\ stream[t] # <<>> => spc'[t] \in {"reply", "served", "stopped", "killed"}
                      /\ ended'[t] # "no" => spc'[t] = "stopped"
    BY DEF IInv, StreamInv
  <2>1. CASE t # s
    BY <2>1, <1>1 DEF IInv, StreamInv
  <2>2. CASE t = s
    BY <2>2, <1>1, EmptyStream DEF IInv, StreamInv
  <2> QED  BY <2>1, <2>2
<1>4. ServerInv'
  BY <1>1 DEF IInv, ServerInv, Ahead, Behind
<1>5. FrameInv'
  BY <1>1, <1>t DEF IInv, FrameInv, Exhausted, Has, TypeOK, StreamInv
<1>6. CountInv'
  <2>1. CountInv /\ upAtCount \subseteq Servers
    BY <1>t DEF IInv, TypeOK
  <2>2. ASSUME NEW t \in Servers
        PROVE  spc'[t] = "off" <=> t > lines'
    <3>1. CASE t # s
      BY <2>1, <3>1, <1>1, <1>t DEF CountInv, TypeOK, Servers
    <3>2. CASE t = s
      BY <2>1, <3>2, <1>1, <1>t DEF CountInv, TypeOK, Servers
    <3> QED  BY <3>1, <3>2
  <2>3. ASSUME NEW t \in upAtCount
        PROVE  spc'[t] \notin {"off", "published"} /\ (spc'[t] = "up" => spc[t] = "up")
    <3>1. t \in Servers /\ spc[t] \notin {"off", "published"}
      BY <2>1 DEF CountInv
    <3>2. CASE t # s
      BY <3>1, <3>2, <1>1
    <3>3. CASE t = s
      BY <3>1, <3>3, <1>1
    <3> QED  BY <3>2, <3>3
  <2> QED  BY <2>1, <2>2, <2>3 DEF CountInv, Ahead
<1>7. NoRecordMissed'
  BY DEF IInv, NoRecordMissed, Left
<1>8. KilledByNegative'
  BY <1>1 DEF IInv, KilledByNegative
<1> QED  BY <1>2, <1>3, <1>4, <1>5, <1>6, <1>7, <1>8 DEF IInv

\* One step of a server.
LEMMA ServerStep ==
  ASSUME IInv, NEW s \in Servers,
         Publish(s) \/ Listen(s) \/ Worker(s) \/ Stop(s) \/ StopUnaccepted(s)
  PROVE  IInv'
<1> USE DEF requestVars, clientVars, replyVars
<1>t. TypeOK  BY DEF IInv
<1>1. CASE Publish(s)
  <2>1. ended[s] = "no"
    BY <1>1 DEF Publish, IInv, StreamInv, TypeOK
  <2> QED  BY <1>1, <1>t, <2>1, PlaceInv DEF Publish, ServerTo, TypeOK
<1>2. CASE Listen(s)
  BY <1>2, <1>t, PlaceInv DEF Listen, ServerTo, TypeOK
<1>3. CASE ReadRequest(s)
  BY <1>3, <1>t, PlaceInv DEF ReadRequest, ServerTo, TypeOK
<1>4. CASE Stop(s)
  <2> PICK e \in {"eof", "error"} : ended' = [ended EXCEPT ![s] = e]
    BY <1>4 DEF Stop
  <2> QED  BY <1>4, <1>t, PlaceInv DEF Stop, ServerTo, ServerGone, TypeOK
<1>5. CASE StopUnaccepted(s)
  BY <1>5, <1>t, PlaceInv DEF StopUnaccepted, ServerTo, TypeOK
<1>6. CASE SendRecord(s)
  <2>1. records' \in [Servers -> 0 .. MaxRecords]
    BY <1>6, <1>t, SessionAssumption DEF SendRecord, MayRecord, TypeOK
  <2> QED  BY <1>6, <1>t, <2>1, WriteToInv, RecordMessage DEF SendRecord, MayRecord, TypeOK, Kinds
<1>7. CASE SendNegative(s)
  <2>1. negatives' \in [Servers -> 0 .. 2] /\ negatives'[s] > 0
    <3>1. negatives[s] \in {0, 1}
      BY <1>7, <1>t DEF SendNegative, TypeOK
    <3> QED  BY <3>1, <1>7, <1>t DEF SendNegative, TypeOK
  <2>2. \A t \in Servers : negatives[t] > 0 => negatives'[t] > 0
    BY <1>7, <1>t, <2>1 DEF SendNegative, TypeOK
  <2> QED  BY <1>7, <1>t, <2>1, <2>2, WriteToInv, NegativeMessage DEF SendNegative, TypeOK, Kinds
<1>8. CASE SendEnd(s)
  BY <1>8, <1>t, WriteToInv, EndOfReply DEF SendEnd, TypeOK, Kinds
<1>9. CASE Reject(s)
  BY <1>9, <1>t, WriteToInv, RecordMessage DEF Reject, TypeOK, Kinds
<1> QED  BY <1>1, <1>2, <1>3, <1>4, <1>5, <1>6, <1>7, <1>8, <1>9 DEF Worker
\* The client goes on with its next server, and leaves this one in order.
LEMMA LeaveInv ==
  ASSUME IInv, cpc \in {"connect", "leave"}, Leave,
         cpc = "connect" => Refuses(at),
         received' \in (Kinds \cup {"none"}) \X {"zero", "some"},
         UNCHANGED <<requestVars, lines, spc, replyVars, stream, ended, reset>>
  PROVE  IInv'
<1> USE DEF requestVars, replyVars
<1>t. TypeOK  BY DEF IInv
<1>1. at \in 1 .. count /\ count \in 0 .. lines /\ lines \in 0 .. NumServers /\ at \in Servers
  BY <1>t DEF IInv, CountInv, TypeOK, Servers
<1>2. \/ at = count /\ cpc' = "done" /\ at' = at
      \/ at < count /\ cpc' = "connect" /\ at' = at + 1
  BY <1>1 DEF Leave, LastServer
<1>3. TypeOK'
  BY <1>t, <1>1, <1>2, SessionAssumption DEF TypeOK, Servers
<1>4. \A s \in Servers :
        /\ Ahead(s)' => Ahead(s) /\ s > at
        /\ Behind(s)' => Behind(s) \/ s = at
        /\ Left(s)' => Left(s) \/ s = at
        /\ Ahead(s) /\ s <= count => Ahead(s)' \/ s = at
  BY <1>1, <1>2 DEF Ahead, Behind, Left, Servers
<1>5. /\ spc[at] \in {"accepted", "asked", "reply", "reject"} => negatives[at] > 0
      /\ ~Has(stream[at], "R")
      /\ at \in upAtCount => spc[at] # "up"
  <2>1. CASE cpc = "connect"
    <3>1. Ahead(at) /\ stream[at] = <<>>
      BY <1>1, <2>1 DEF IInv, ServerInv, Ahead
    <3>2. spc[at] \in {"published", "stopped", "killed"}
      BY <2>1 DEF Refuses, ServerGone
    <3> QED  BY <3>1, <3>2, EmptyStream
  <2>2. CASE cpc = "leave"
    <3>1. Behind(at) /\ Left(at) /\ ~Ahead(at)
      BY <1>1, <2>2 DEF Behind, Left, Ahead, Servers
    <3>2. at \in upAtCount => spc[at] # "up"
      BY <2>2, <3>1 DEF IInv, CountInv
    <3> QED  BY <1>1, <3>1, <3>2, NoRecord DEF IInv, ServerInv
  <2> QED  BY <2>1, <2>2
<1>6. StreamInv'
  BY DEF IInv, StreamInv, WellFormed, Has
<1>7. ServerInv'
  BY <1>4, <1>5 DEF IInv, ServerInv
<1>8. FrameInv'
  BY <1>2 DEF FrameInv
<1>9. CountInv'
  <2>1. CountInv /\ upAtCount \subseteq Servers
    BY <1>t DEF IInv, TypeOK
  <2>2. \A s \in upAtCount : spc[s] = "up" => Ahead(s)'
    BY <2>1, <1>4, <1>5 DEF CountInv
  <2> QED  BY <2>1, <2>2, <1>1, <1>2 DEF CountInv
<1>10. NoRecordMissed'
  <2> SUFFICES ASSUME NEW s \in Servers, Left(s)'
               PROVE  ~Has(stream[s], "R")
    BY DEF NoRecordMissed, Has
  <2> QED  BY <1>4, <1>5, NoRecord DEF IInv
<1>11. KilledByNegative'
  BY DEF IInv, KilledByNegative
<1> QED  BY <1>3, <1>6, <1>7, <1>8, <1>9, <1>10, <1>11 DEF IInv
\* The client reads the first field of what is there, and goes on at p.
LEMMA ReadInv ==
  ASSUME IInv, cpc \in {"type", "length", "data"},
         NEW field \in Fields, Read(field),
         NEW p, cpc' = p,
         \/ p = "length" /\ cpc = "type" /\ field \in Kinds \ {"X"}
         \/ p = "leave" /\ cpc = "type" /\ field = "X"
         \/ p = "data" /\ cpc = "length" /\ field = received'[2]
         \/ p = "type" /\ cpc = "data" /\ field = "data",
         received' \in (Kinds \cup {"none"}) \X {"zero", "some"},
         UNCHANGED <<requestVars, lines, at, spc, replyVars, ended, reset>>
  PROVE  IInv'
<1> USE DEF requestVars, replyVars
<1>t. TypeOK /\ at \in Servers  BY DEF IInv, TypeOK
<1>1. /\ stream[at] \in Seq(Fields) /\ stream[at] # <<>> /\ WellFormed(stream[at])
      /\ stream' = [stream EXCEPT ![at] = Tail(stream[at])]
      /\ field = stream[at][1]
  BY <1>t DEF Read, IInv, StreamInv, TypeOK, Fields
<1> DEFINE r == Tail(stream[at])
<1>2. /\ r \in Seq(Fields) /\ WellFormed(r)
      /\ \A f : Has(r, f) => Has(stream[at], f)
      /\ Has(stream[at], field)
      /\ field \in Kinds \ {"X"} => r # <<>> /\ r[1] \in {"zero", "some"}
      /\ field = "some" => r # <<>> /\ r[1] = "data"
      /\ field \in {"zero", "data"} /\ r # <<>> => r[1] \in Kinds
      /\ field = "zero" => ~Has(r, "R")
  BY <1>1, TailWellFormed
<1>3. field = "X" => ~Has(stream[at], "R")
  <2> SUFFICES ASSUME field = "X" PROVE ~Has(stream[at], "R")
    OBVIOUS
  <2>1. DOMAIN stream[at] = 1 .. Len(stream[at]) /\ Len(stream[at]) \in Nat \ {0}
    BY <1>1, LenProperties, EmptySeq
  <2>2. Len(stream[at]) = 1
    <3>1. 1 \in DOMAIN stream[at]
      BY <2>1
    <3> QED  BY <1>1, <3>1 DEF WellFormed
  <2> QED  BY <1>1, <2>1, <2>2 DEF Has
<1>4. /\ stream'[at] = r
      /\ \A s \in Servers \ {at} : stream'[s] = stream[s]
      /\ stream' \in [Servers -> Seq(Fields)]
  BY <1>1, <1>2, <1>t DEF TypeOK, Fields
<1> HIDE DEF r
<1>5. TypeOK'
  BY <1>t, <1>4 DEF TypeOK, Fields
<1>6. StreamInv'
  <2> SUFFICES ASSUME NEW s \in Servers
               PROVE  /\ WellFormed(stream'[s])
                      /\ Has(stream'[s], "zero") => negatives[s] > 0
                      /\ Has(stream'[s], "X") => spc[s] \in {"served", "stopped"}
                      /\ stream'[s] # <<>> => spc[s] \in {"reply", "served", "stopped", "killed"}
                      /\ ended[s] # "no" => spc[s] = "stopped"
    BY DEF StreamInv, WellFormed, Has
  <2>1. CASE s = at
    BY <2>1, <1>1, <1>2, <1>4 DEF IInv, StreamInv
  <2>2. CASE s # at
    BY <2>2, <1>4 DEF IInv, StreamInv
  <2> QED  BY <2>1, <2>2
<1>7. \A s \in Servers :
        /\ ~Ahead(at) /\ (Ahead(s)' <=> Ahead(s))
        /\ Behind(s)' <=> (Behind(s) \/ (s = at /\ p = "leave"))
        /\ Left(s)' <=> (Left(s) \/ (s = at /\ p = "leave"))
  BY <1>t DEF Ahead, Behind, Left, Servers
<1>8. p = "leave" => spc[at] \in {"served", "stopped"} /\ ~Has(r, "R")
  BY <1>2, <1>3, <1>t DEF IInv, StreamInv
<1>9. ServerInv'
  <2> SUFFICES ASSUME NEW s \in Servers
               PROVE  /\ Ahead(s) => stream'[s] = <<>> /\ spc[s] \in {"off", "published", "up", "stopped"}
                      /\ Behind(s)' /\ spc[s] \in {"accepted", "asked", "reply", "reject"}
                           => negatives[s] > 0
    BY <1>7 DEF ServerInv
  <2> QED  BY <1>4, <1>7, <1>8 DEF IInv, ServerInv
<1>10. field = "zero" => negatives[at] > 0
  BY <1>2, <1>t DEF IInv, StreamInv
<1>11. FrameInv'
  <2>1. CASE p = "length"
    BY <2>1, <1>2, <1>4, <1>t DEF FrameInv, Kinds
  <2>2. CASE p = "leave"
    BY <2>2 DEF FrameInv
  <2>3. CASE p = "data"
    <3>1. \/ received'[2] = "some" /\ stream'[at] # <<>> /\ stream'[at][1] = "data"
          \/ received'[2] = "zero" /\ negatives[at] > 0 /\ ~Has(stream'[at], "R")
      BY <2>3, <1>2, <1>4, <1>10, <1>t DEF Kinds
    <3> QED  BY <2>3, <3>1 DEF FrameInv, Has
  <2>4. CASE p = "type"
    BY <2>4, <1>2, <1>4, <1>t DEF FrameInv
  <2> QED  BY <2>1, <2>2, <2>3, <2>4
<1>12. CountInv'
  BY <1>7, <1>t DEF IInv, CountInv, TypeOK
<1>13. NoRecordMissed'
  <2> SUFFICES ASSUME NEW s \in Servers, Left(s)'
               PROVE  ~Has(stream'[s], "R")
    BY DEF NoRecordMissed, Has
  <2>1. CASE s = at
    <3>1. p = "leave"
      BY <2>1, <1>7, <1>t DEF Left, Servers
    <3> QED  BY <2>1, <3>1, <1>4, <1>8
  <2>2. CASE s # at
    BY <2>2, <1>4, <1>7, NoRecord DEF IInv
  <2> QED  BY <2>1, <2>2
<1>14. KilledByNegative'
  BY DEF IInv, KilledByNegative
<1> QED  BY <1>5, <1>6, <1>9, <1>11, <1>12, <1>13, <1>14 DEF IInv
\* The client goes on at the same server and reads nothing.
LEMMA MoveInv ==
  ASSUME IInv,
         \/ cpc = "list" /\ cpc' \in {"connect", "killed"}
         \/ /\ cpc \in {"write", "type", "length", "data"}
            /\ cpc' \in {"type", "length", "data", "leave", "failed", "killed"},
         cpc' \in {"leave", "failed", "killed"}
           /\ spc[at] \in {"accepted", "asked", "reply", "reject"} => negatives[at] > 0,
         cpc' = "leave" => ~Has(stream[at], "R"),
         FrameInv',
         ended' \in [Servers -> {"no", "eof", "error"}],
         \A s \in Servers : ended'[s] = "no" <=> ended[s] = "no",
         UNCHANGED <<requestVars, lines, at, received, spc, replyVars, stream, reset>>
  PROVE  IInv'
<1> USE DEF requestVars, replyVars
<1>t. TypeOK /\ at \in Servers  BY DEF IInv, TypeOK
<1>1. TypeOK'
  BY <1>t DEF TypeOK
<1>2. \A s \in Servers :
        /\ Ahead(s)' => Ahead(s)
        /\ Ahead(s) => Ahead(s)' \/ cpc' = "killed"
        /\ Behind(s)' => Behind(s) \/ (s = at /\ cpc' \in {"leave", "failed", "killed"})
        /\ Left(s)' => Left(s) \/ (s = at /\ cpc' = "leave")
  BY <1>t DEF Ahead, Behind, Left, Servers
<1>3. StreamInv'
  BY DEF IInv, StreamInv, WellFormed, Has
<1>4. ServerInv'
  BY <1>2 DEF IInv, ServerInv
<1>5. CountInv'
  BY <1>2, <1>t DEF IInv, CountInv, TypeOK
<1>6. NoRecordMissed'
  <2> SUFFICES ASSUME NEW s \in Servers, Left(s)'
               PROVE  ~Has(stream[s], "R")
    BY DEF NoRecordMissed, Has
  <2> QED  BY <1>2, NoRecord DEF IInv
<1>7. KilledByNegative'
  BY DEF IInv, KilledByNegative
<1> QED  BY <1>1, <1>3, <1>4, <1>5, <1>6, <1>7 DEF IInv

\* The client counts the lines of the file.
LEMMA CountStep == IInv /\ Count => IInv'
<1> SUFFICES ASSUME IInv, Count PROVE IInv'  OBVIOUS
<1> USE DEF Count, replyVars
<1>t. TypeOK /\ at = 1 /\ 1 \in Servers  BY SessionAssumption DEF IInv, CountInv, TypeOK, Servers
<1>1. TypeOK'
  BY <1>t DEF TypeOK
<1>2. \A s \in Servers :
        /\ Ahead(s) /\ stream[s] = <<>> /\ spc[s] \in {"off", "published", "up", "stopped"}
        /\ cpc' = "list" => Ahead(s)'
        /\ Behind(s)' => s = 1
  BY <1>t DEF IInv, ServerInv, Ahead, Behind, Servers
<1>3. StreamInv'
  BY DEF IInv, StreamInv, WellFormed, Has
<1>4. ServerInv'
  BY <1>2 DEF IInv, ServerInv
<1>5. FrameInv'
  BY DEF FrameInv
<1>6. CountInv'
  <2>1. \A s \in Servers : spc[s] = "off" <=> s > lines
    BY DEF IInv, CountInv
  <2>2. \A s \in upAtCount' : s \in Servers /\ s <= lines /\ spc[s] = "up"
    BY <2>1, <1>t DEF TypeOK, Servers
  <2>3. lines = 0 => upAtCount' = {}
    BY <2>2, <1>t DEF TypeOK, Servers
  <2> QED  BY <2>1, <2>2, <2>3, <1>2, <1>t DEF CountInv, TypeOK
<1>7. NoRecordMissed'
  <2> SUFFICES ASSUME NEW s \in Servers
               PROVE  ~Has(stream[s], "R")
    BY DEF NoRecordMissed, Has
  <2> QED  BY <1>2, EmptyStream
<1>8. KilledByNegative'
  BY DEF IInv, KilledByNegative
<1> QED  BY <1>1, <1>3, <1>4, <1>5, <1>6, <1>7, <1>8 DEF IInv

\* The client connects to a server that listens.
LEMMA ConnectStep == IInv /\ Connect => IInv'
<1> SUFFICES ASSUME IInv, Connect PROVE IInv'  OBVIOUS
<1> USE DEF requestVars, replyVars
<1>t. TypeOK /\ at \in Servers  BY DEF IInv, TypeOK
<1>1. CASE Refuses(at)
  BY <1>1, <1>t, LeaveInv DEF Connect, SkipServer
<1>2. CASE ~Refuses(at)
  <2> USE <1>2 DEF Connect
  <2>1. Ahead(at) /\ spc[at] = "up" /\ stream[at] = <<>> /\ ended[at] = "no"
    <3>1. Ahead(at)
      BY <1>t DEF Ahead
    <3>2. spc[at] # "off"
      BY <1>t DEF IInv, CountInv, TypeOK, Servers
    <3> QED  BY <3>1, <3>2, <1>t DEF IInv, ServerInv, StreamInv, Refuses, ServerGone
  <2>2. /\ spc'[at] = "accepted"
        /\ \A s \in Servers \ {at} : spc'[s] = spc[s]
        /\ spc' \in [Servers -> {"off", "published", "up", "accepted", "asked", "reply",
                                 "reject", "served", "stopped", "killed"}]
    BY <1>t DEF TypeOK
  <2>3. TypeOK'
    BY <1>t, <2>2 DEF TypeOK
  <2>4. \A s \in Servers :
          /\ Ahead(s)' <=> (Ahead(s) /\ s # at)
          /\ Behind(s)' => Behind(s) /\ s # at
          /\ Left(s)' => Left(s)
    BY <1>t DEF Ahead, Behind, Left, Servers
  <2>5. StreamInv'
    <3> SUFFICES ASSUME NEW s \in Servers
                 PROVE  /\ Has(stream[s], "X") => spc'[s] \in {"served", "stopped"}
                        /\ stream[s] # <<>> => spc'[s] \in {"reply", "served", "stopped", "killed"}
                        /\ ended[s] # "no" => spc'[s] = "stopped"
      BY DEF IInv, StreamInv
    <3>1. CASE s = at
      BY <3>1, <2>1, EmptyStream
    <3>2. CASE s # at
      BY <3>2, <2>2 DEF IInv, StreamInv
    <3> QED  BY <3>1, <3>2
  <2>6. ServerInv'
    BY <2>2, <2>4 DEF IInv, ServerInv
  <2>7. FrameInv'
    BY <2>1, <2>2 DEF FrameInv
  <2>8. CountInv'
    <3>1. CountInv /\ upAtCount \subseteq Servers
      BY <1>t DEF IInv, TypeOK
    <3> QED  BY <3>1, <2>1, <2>2, <2>4 DEF CountInv
  <2>9. NoRecordMissed'
    BY <2>4 DEF IInv, NoRecordMissed
  <2>10. KilledByNegative'
    BY <2>2 DEF IInv, KilledByNegative
  <2> QED  BY <2>3, <2>5, <2>6, <2>7, <2>8, <2>9, <2>10 DEF IInv
<1> QED  BY <1>1, <1>2

\* The client's request reaches a server that is there.
LEMMA AskInv ==
  ASSUME IInv, Write, ended[at] = "no"
  PROVE  IInv'
<1> USE DEF Write, requestVars, replyVars
<1>t. TypeOK /\ at \in Servers  BY DEF IInv, TypeOK
<1>1. stream[at] = <<>> /\ spc[at] = "accepted" /\ cpc' = "type" /\ ended' = ended
  BY DEF IInv, FrameInv
<1>2. /\ spc'[at] = "asked"
      /\ \A s \in Servers \ {at} : spc'[s] = spc[s]
      /\ spc' \in [Servers -> {"off", "published", "up", "accepted", "asked", "reply",
                               "reject", "served", "stopped", "killed"}]
  BY <1>t DEF TypeOK
<1>3. TypeOK'
  BY <1>t, <1>1, <1>2 DEF TypeOK
<1>4. \A s \in Servers :
        /\ Ahead(s)' <=> Ahead(s)
        /\ ~Ahead(at)
        /\ Behind(s)' => Behind(s) /\ s # at
        /\ Left(s)' => Left(s)
  BY <1>1, <1>t DEF Ahead, Behind, Left, Servers
<1>5. StreamInv'
  <2> SUFFICES ASSUME NEW s \in Servers
               PROVE  /\ Has(stream[s], "X") => spc'[s] \in {"served", "stopped"}
                      /\ stream[s] # <<>> => spc'[s] \in {"reply", "served", "stopped", "killed"}
                      /\ ended[s] # "no" => spc'[s] = "stopped"
    BY <1>1 DEF IInv, StreamInv
  <2>1. CASE s = at
    BY <2>1, <1>1, EmptyStream
  <2>2. CASE s # at
    BY <2>2, <1>2 DEF IInv, StreamInv
  <2> QED  BY <2>1, <2>2
<1>6. ServerInv'
  BY <1>2, <1>4 DEF IInv, ServerInv
<1>7. FrameInv'
  BY <1>1 DEF FrameInv
<1>8. CountInv'
  <2>1. CountInv /\ upAtCount \subseteq Servers
    BY <1>t DEF IInv, TypeOK
  <2> QED  BY <2>1, <1>1, <1>2, <1>4 DEF CountInv
<1>9. NoRecordMissed'
  BY <1>4 DEF IInv, NoRecordMissed
<1>10. KilledByNegative'
  BY <1>2 DEF IInv, KilledByNegative
<1> QED  BY <1>3, <1>5, <1>6, <1>7, <1>8, <1>9, <1>10 DEF IInv

\* One step of the client.
LEMMA ClientStep == IInv /\ Client => IInv'
<1> SUFFICES ASSUME IInv, Client PROVE IInv'  OBVIOUS
<1> USE DEF requestVars, replyVars
<1>t. TypeOK /\ at \in Servers  BY DEF IInv, TypeOK
<1>e. \A s \in Servers : ended[s] # "no" => spc[s] = "stopped"
  BY DEF IInv, StreamInv
<1>r. received \in (Kinds \cup {"none"}) \X {"zero", "some"} /\ "X" \in Kinds
  BY <1>t DEF TypeOK, Kinds
<1>1. CASE Count
  BY <1>1, CountStep
<1>2. CASE ReadLines
  <2>1. spc[at] \in {"off", "published", "up", "stopped"}
    BY <1>2, <1>t DEF ReadLines, IInv, ServerInv, Ahead
  <2>2. FrameInv'
    BY <1>2 DEF ReadLines, FrameInv
  <2> QED  BY <1>2, <2>1, <2>2, <1>t, MoveInv DEF ReadLines, TypeOK
<1>3. CASE Connect
  BY <1>3, ConnectStep
<1>4. CASE Write
  <2>1. stream[at] = <<>> /\ (ended[at] = "no" => spc[at] = "accepted")
    BY <1>4 DEF Write, IInv, FrameInv
  <2>2. CASE ended[at] = "no"
    BY <1>4, <2>1, <2>2, AskInv
  <2>3. CASE ended[at] # "no"
    <3>1. spc[at] = "stopped"
      BY <2>3, <1>e, <1>t
    <3>2. FrameInv'
      BY <1>4, <2>1, <2>3 DEF Write, FrameInv
    <3>3. /\ ended' \in [Servers -> {"no", "eof", "error"}]
          /\ \A s \in Servers : ended'[s] = "no" <=> ended[s] = "no"
      BY <1>4, <2>3, <1>t DEF Write, TypeOK
    <3> QED  BY <1>4, <2>1, <2>3, <3>1, <3>2, <3>3, <1>t, MoveInv DEF Write
  <2> QED  BY <2>2, <2>3
<1>5. CASE ReadType
  <2> SUFFICES ASSUME NEW kind \in Kinds, ReadType, Read(kind),
                      received' = <<kind, received[2]>>, cpc' = AfterType(kind)
               PROVE  IInv'
    BY <1>5 DEF ReadType
  <2>1. AfterType(kind) = IF kind = "X" THEN "leave" ELSE "length"
    BY DEF AfterType, Kinds
  <2>2. received' \in (Kinds \cup {"none"}) \X {"zero", "some"}
    BY <1>r
  <2> QED  BY <2>1, <2>2, ReadInv DEF ReadType, Fields
<1>6. CASE ReadEof
  <2>1. Exhausted /\ spc[at] = "stopped"
    BY <1>6, <1>e, <1>t DEF ReadEof, Exhausted
  <2>2. FrameInv'
    BY <1>6 DEF ReadEof, FrameInv
  <2>3. ~Has(stream[at], "R")
    BY <2>1, EmptyStream DEF Exhausted
  <2> QED  BY <1>6, <2>1, <2>2, <2>3, <1>t, MoveInv DEF ReadEof, TypeOK
<1>7. CASE ReadError
  <2>1. Exhausted /\ spc[at] = "stopped"
    BY <1>7, <1>e, <1>t DEF ReadError, Exhausted
  <2>2. cpc' \in {"leave", "failed", "length"}
    BY <1>7 DEF ReadError, AfterType
  <2>3. /\ ended' \in [Servers -> {"no", "eof", "error"}]
        /\ \A s \in Servers : ended'[s] = "no" <=> ended[s] = "no"
        /\ ended'[at] = "eof"
    BY <1>7, <1>t DEF ReadError, TypeOK
  <2>4. FrameInv'
    BY <1>7, <2>1, <2>2, <2>3 DEF ReadError, FrameInv, Exhausted
  <2>5. ~Has(stream[at], "R")
    BY <2>1, EmptyStream DEF Exhausted
  <2> QED  BY <1>7, <2>1, <2>2, <2>3, <2>4, <2>5, <1>t, MoveInv DEF ReadError
<1>8. CASE ReadLength
  <2>1. ASSUME NEW length \in {"zero", "some"}, Read(length), received' = <<received[1], length>>
        PROVE  IInv'
    <3>1. received' \in (Kinds \cup {"none"}) \X {"zero", "some"} /\ received'[2] = length
      BY <2>1, <1>r
    <3>2. length \in Fields
      BY DEF Fields
    <3> QED  BY <1>8, <2>1, <3>1, <3>2, ReadInv DEF ReadLength, AfterLength
  <2>2. ASSUME Exhausted, UNCHANGED <<received, stream>>
        PROVE  IInv'
    <3>1. FrameInv'
      BY <1>8, <2>2 DEF ReadLength, AfterLength, FrameInv, Exhausted
    <3> QED  BY <1>8, <2>2, <3>1, <1>t, MoveInv DEF ReadLength, AfterLength, TypeOK
  <2> QED  BY <1>8, <2>1, <2>2 DEF ReadLength
<1>9. CASE ReadData
  <2>1. ASSUME Read("data"), AfterData
        PROVE  IInv'
    BY <1>9, <2>1, <1>r, ReadInv DEF ReadData, AfterData, Fields
  <2>2. ASSUME received[2] = "zero" \/ Exhausted, cpc' = "leave", UNCHANGED stream
        PROVE  IInv'
    <3>1. /\ spc[at] \in {"accepted", "asked", "reply", "reject"} => negatives[at] > 0
          /\ ~Has(stream[at], "R")
      <4>1. CASE Exhausted
        BY <4>1, <1>e, <1>t, EmptyStream DEF Exhausted
      <4>2. CASE ~Exhausted
        BY <1>9, <2>2, <4>2 DEF ReadData, IInv, FrameInv
      <4> QED  BY <4>1, <4>2
    <3>2. FrameInv'
      BY <2>2 DEF FrameInv
    <3> QED  BY <1>9, <2>2, <3>1, <3>2, <1>t, MoveInv DEF ReadData, TypeOK
  <2> QED  BY <1>9, <2>1, <2>2 DEF ReadData
<1>10. CASE NextServer
  BY <1>10, <1>r, LeaveInv DEF NextServer
<1> QED  BY <1>1, <1>2, <1>3, <1>4, <1>5, <1>6, <1>7, <1>8, <1>9, <1>10 DEF Client

-----------------------------------------------------------------------------
(* Theorems. *)

\* The invariant holds in every reachable state.
THEOREM Inductive == Spec => []IInv
<1>1. IInv /\ [Next]_vars => IInv'
  <2> SUFFICES ASSUME IInv, [Next]_vars PROVE IInv'  OBVIOUS
  <2>1. CASE UNCHANGED vars
    BY <2>1 DEF vars, requestVars, clientVars, replyVars, IInv, TypeOK, StreamInv, ServerInv,
      FrameInv, CountInv, NoRecordMissed, KilledByNegative, WellFormed, Has, Ahead, Behind,
      Left, Exhausted
  <2>2. CASE Client
    BY <2>2, ClientStep
  <2>3. ASSUME NEW s \in Servers,
               Publish(s) \/ Listen(s) \/ Worker(s) \/ Stop(s) \/ StopUnaccepted(s)
        PROVE  IInv'
    BY <2>3, ServerStep
  <2> QED  BY <2>1, <2>2, <2>3 DEF Next, Rest
<1> QED  BY <1>1, InitInv, PTL DEF Spec

\* The variables keep their types.
THEOREM TypeCorrect == Spec => []TypeOK
<1>1. IInv => TypeOK
  BY DEF IInv
<1> QED  BY <1>1, Inductive, PTL

\* The client reads each field where the server wrote it.
THEOREM InFrameHolds == Spec => []InFrame
<1>1. IInv => InFrame
  <2> SUFFICES ASSUME IInv, stream[at] # <<>>
               PROVE  /\ cpc = "type" => Head(stream[at]) \in Kinds
                      /\ cpc = "length" => Head(stream[at]) \in {"zero", "some"}
                      /\ cpc = "data" /\ received[2] = "some" => Head(stream[at]) = "data"
    BY DEF InFrame
  <2>1. stream[at] \in Seq(Fields)
    BY DEF IInv, TypeOK, Fields
  <2>2. Head(stream[at]) = stream[at][1]
    BY <2>1
  <2> QED  BY <2>2 DEF IInv, FrameInv, Exhausted
<1> QED  BY <1>1, Inductive, PTL

\* The client leaves no record unread at a server it is done with.
THEOREM NoRecordMissedHolds == Spec => []NoRecordMissed
<1>1. IInv => NoRecordMissed
  BY DEF IInv
<1> QED  BY <1>1, Inductive, PTL

\* Only a server that sent a negative answer is killed by the client leaving.
THEOREM KilledByNegativeHolds == Spec => []KilledByNegative
<1>1. IInv => KilledByNegative
  BY DEF IInv
<1> QED  BY <1>1, Inductive, PTL

\* Whoever listened when the client counted the lines, and did not stop, is
\* asked before the client ends.
THEOREM ServersUpAreAskedHolds == Spec => []ServersUpAreAsked
<1>1. IInv => ServersUpAreAsked
  <2> SUFFICES ASSUME IInv, cpc = "done", NEW s \in upAtCount
               PROVE  spc[s] # "up"
    BY DEF ServersUpAreAsked
  <2>1. s \in Servers /\ s <= count /\ at = count /\ (spc[s] = "up" => Ahead(s))
    BY DEF IInv, CountInv, TypeOK
  <2> QED  BY <2>1 DEF IInv, TypeOK, Ahead, Servers
<1> QED  BY <1>1, Inductive, PTL
=============================================================================
