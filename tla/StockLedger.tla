------------------------------ MODULE StockLedger ------------------------------
(***************************************************************************)
(* What the warehouse promises: units stand at locations, and one movement *)
(* at a time brings the accepted units of an inbound line to one location, *)
(* takes units of a location for an outbound line, carries units between   *)
(* two locations or corrects the count at one.  No movement makes, loses   *)
(* or counts a unit twice, no stock is negative, a line is shelved once    *)
(* and an outbound line is never given more than it asks for               *)
(* (docs/features/wms-core/BA_SPEC.md: US-A04, US-B02, US-C02, BR-01/02).  *)
(***************************************************************************)
EXTENDS Integers

CONSTANTS Locations, Lines, OutLines, NoRow

VARIABLES stock,     \* units at each location
          accepted,  \* units of an inbound line that passed QC
          shelf,     \* the location an inbound line went to, or NoRow
          asked,     \* units an outbound line requests, 0 before it exists
          picked,    \* units taken for it
          corrected  \* net corrections of the count at each location

vars == <<stock, accepted, shelf, asked, picked, corrected>>

Init ==
  /\ stock = [l \in Locations |-> 0]
  /\ accepted = [l \in Lines |-> 0]
  /\ shelf = [l \in Lines |-> NoRow]
  /\ asked = [l \in OutLines |-> 0]
  /\ picked = [l \in OutLines |-> 0]
  /\ corrected = [l \in Locations |-> 0]

\* Lines that ask for nothing yet ask for their units.
Ask ==
  /\ asked' \in [OutLines -> Nat]
  /\ \A l \in OutLines : asked[l] # 0 => asked'[l] = asked[l]
  /\ UNCHANGED <<stock, accepted, shelf, picked, corrected>>

Inspect(line) ==
  /\ accepted'[line] \in Nat
  /\ accepted' = [accepted EXCEPT ![line] = accepted'[line]]
  /\ UNCHANGED <<stock, shelf, asked, picked, corrected>>

Shelve(line, loc) ==
  /\ shelf[line] = NoRow
  /\ accepted[line] > 0
  /\ shelf' = [shelf EXCEPT ![line] = loc]
  /\ stock' = [stock EXCEPT ![loc] = @ + accepted[line]]
  /\ UNCHANGED <<accepted, asked, picked, corrected>>

Take(line, loc, qty) ==
  /\ qty <= stock[loc]
  /\ picked[line] + qty <= asked[line]
  /\ picked' = [picked EXCEPT ![line] = @ + qty]
  /\ stock' = [stock EXCEPT ![loc] = @ - qty]
  /\ UNCHANGED <<accepted, shelf, asked, corrected>>

Carry(from, to, qty) ==
  /\ qty <= stock[from]
  /\ stock' = [[stock EXCEPT ![from] = @ - qty] EXCEPT ![to] = @ + qty]
  /\ UNCHANGED <<accepted, shelf, asked, picked, corrected>>

Correct(loc, qty) ==
  /\ qty \in Int /\ stock[loc] + qty >= 0
  /\ stock' = [stock EXCEPT ![loc] = @ + qty]
  /\ corrected' = [corrected EXCEPT ![loc] = @ + qty]
  /\ UNCHANGED <<accepted, shelf, asked, picked>>

Next ==
  \/ Ask
  \/ \E line \in Lines : Inspect(line)
  \/ \E line \in Lines, loc \in Locations : Shelve(line, loc)
  \/ \E line \in OutLines, loc \in Locations :
       \E qty \in 1..stock[loc] : Take(line, loc, qty)
  \/ \E from, to \in Locations : \E qty \in 1..stock[from] : Carry(from, to, qty)
  \/ \E loc \in Locations : Correct(loc, corrected'[loc] - corrected[loc])

Spec == Init /\ [][Next]_vars

-----------------------------------------------------------------------------
TypeOK ==
  /\ stock \in [Locations -> Nat]
  /\ accepted \in [Lines -> Nat]
  /\ shelf \in [Lines -> Locations \cup {NoRow}]
  /\ asked \in [OutLines -> Nat]
  /\ picked \in [OutLines -> Nat]
  /\ corrected \in [Locations -> Int]

\* Stock is never negative and no outbound line is given more than it asks for
\* (BR-02 of docs/features/wms-core/BA_SPEC.md; US-B02).
NothingOverdrawn ==
  /\ \A loc \in Locations : stock[loc] >= 0
  /\ \A line \in OutLines : picked[line] <= asked[line]

\* A line that stands on a shelf stays on that shelf (US-A04).
ShelvedForGood ==
  [][\A line \in Lines : shelf[line] # NoRow => shelf'[line] = shelf[line]]_vars
=============================================================================
