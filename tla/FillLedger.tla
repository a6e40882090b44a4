----------------------------- MODULE FillLedger -----------------------------
(***************************************************************************)
(* What the execution store promises of the sells it tracks: the exchange  *)
(* executes orders one at a time, whatever it executes is booked exactly   *)
(* once, in any number of parts, the lots held fall by exactly what is     *)
(* booked, and an order is closed only when all of its execution is        *)
(* booked, after which it executes nothing more.                           *)
(***************************************************************************)
EXTENDS Integers

CONSTANT Orders

VARIABLES
  executed,   \* lots of each order the exchange has executed
  booked,     \* lots of each order applied to the books
  closed,     \* orders the books are done with
  held        \* lots the books say are held

vars == <<executed, booked, closed, held>>

Init ==
  /\ executed = [o \in Orders |-> 0]
  /\ booked = [o \in Orders |-> 0]
  /\ closed = {}
  /\ held \in Nat

Execute(o) ==
  /\ o \notin closed
  /\ \A q \in Orders \ closed : q # o => executed[q] = 0
  /\ executed'[o] > executed[o]
  /\ executed' = [executed EXCEPT ![o] = executed'[o]]
  /\ UNCHANGED <<booked, closed, held>>

Book(o) ==
  /\ o \notin closed
  /\ \E n \in 0..(executed[o] - booked[o]) :
       /\ booked' = [booked EXCEPT ![o] = @ + n]
       /\ held' = held - n
       /\ closed' \in {closed, IF n = executed[o] - booked[o] THEN closed \cup {o} ELSE closed}
  /\ UNCHANGED executed

Next == \E o \in Orders : Execute(o) \/ Book(o)

Spec == Init /\ [][Next]_vars
=============================================================================
