----------------------------- MODULE RetriedQuery -----------------------------
(***************************************************************************)
(* What a query with retries promises to the loop that makes it, without   *)
(* requests, batches, waits or keys to retry: so many answers and no more, *)
(* of which each leaves alone what is settled, and an end at the first of  *)
(* them that leaves nothing to settle.                                     *)
(***************************************************************************)
EXTENDS Naturals

CONSTANTS
  Item,     \* what is asked for
  Blank,    \* no result for an item
  Tries,    \* how many answers there may be, failures among them
  Unsettled(_)  \* a result that another answer may change

VARIABLES
  open,     \* a call is under way
  known,    \* the result for each item
  left,     \* how many answers there may still be
  outcome   \* the error of the call: "none", "transport" or "cancelled"

queryVars == <<open, known, left, outcome>>

NothingKnown == [p \in Item |-> Blank]

Opened == open = TRUE /\ known = NothingKnown /\ left = Tries /\ outcome = "none"

QueryInit == Opened

Open == ~open /\ Opened'

MayImprove(p) == known[p] = Blank \/ Unsettled(known[p])

\* An answer, or a failure that counts as one that says nothing: the call goes
\* on if and only if there is something to ask again and a try left to do it.
Answer ==
  /\ open /\ left > 0
  /\ left' = left - 1
  /\ \A p \in Item : known'[p] = known[p] \/ (MayImprove(p) /\ known'[p] # Blank)
  /\ open' = (left' > 0 /\ \E p \in Item : Unsettled(known'[p]))
  /\ UNCHANGED outcome

\* There is nothing but an error if the first try fails.
FirstFails ==
  /\ open /\ left = Tries
  /\ open' = FALSE /\ left' = left - 1
  /\ outcome' \in {"transport", "cancelled"}
  /\ UNCHANGED known

\* What is known is handed over when a later try, or the wait for it, is given up.
GiveUp ==
  /\ open /\ left < Tries
  /\ open' = FALSE /\ left' \in {left, left - 1}
  /\ outcome' = "cancelled"
  /\ UNCHANGED known

QueryNext == Open \/ Answer \/ FirstFails \/ GiveUp

QuerySpec == QueryInit /\ [][QueryNext]_queryVars

===============================================================================
