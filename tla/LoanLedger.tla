------------------------------ MODULE LoanLedger ------------------------------
(***************************************************************************)
(* What the library promises about its loans, whoever asks and however the *)
(* worker threads interleave: a book changes hands only when nobody has    *)
(* it, that is when it is AVAILABLE or its due date is past, and a book    *)
(* that was lent once has a due date for ever after.                       *)
(***************************************************************************)
EXTENDS Naturals

CONSTANTS
  Books,         \* the books of the list
  AVAILABLE,     \* the loan field of a book that was never lent
  InitialDates   \* the due dates a record file may hold, in days

VARIABLES
  prestito,      \* the loan field of each book
  now            \* the current day

vars == <<prestito, now>>

Lendable(b) == prestito[b] # AVAILABLE => prestito[b] <= now

Init ==
  /\ prestito \in [Books -> InitialDates \cup {AVAILABLE}]
  /\ now = 0

Lend(b) ==
  /\ Lendable(b)
  /\ prestito'[b] \in Nat
  /\ prestito' = [prestito EXCEPT ![b] = prestito'[b]]
  /\ UNCHANGED now

Tick ==
  /\ now' = now + 1
  /\ UNCHANGED prestito

Next == Tick \/ \E b \in Books : Lend(b)

Spec == Init /\ [][Next]_vars
=============================================================================
