------------------------- MODULE CountingSemaphore --------------------------
(***************************************************************************)
(* A counting semaphore as its users see it: a thread asks for an          *)
(* increment or a decrement by n, which takes effect in one step at some   *)
(* moment between the call and the return; a decrement takes effect only   *)
(* when the count is large enough.                                         *)
(***************************************************************************)
EXTENDS Naturals

CONSTANTS Threads, Amounts   \* callers, and the amounts they may ask for

VARIABLES count,    \* the value of the semaphore
          asked     \* per thread: its pending request, or None

None == [op |-> "none", n |-> 0]

csVars == <<count, asked>>

CSInit == count \in Nat /\ asked = [t \in Threads |-> None]

Ask(t) == /\ asked[t] = None
          /\ \E op \in {"increment", "decrement"}, n \in Amounts :
                asked' = [asked EXCEPT ![t] = [op |-> op, n |-> n]]
          /\ UNCHANGED count

Increment(t) == /\ asked[t].op = "increment"
                /\ count' = count + asked[t].n
                /\ asked' = [asked EXCEPT ![t] = None]

Decrement(t) == /\ asked[t].op = "decrement"
                /\ count >= asked[t].n
                /\ count' = count - asked[t].n
                /\ asked' = [asked EXCEPT ![t] = None]

CSNext == \E t \in Threads : Ask(t) \/ Increment(t) \/ Decrement(t)

CSSpec == CSInit /\ [][CSNext]_csVars

(* An increment takes effect, and so does a decrement for which the count  *)
(* stays large enough; nothing is promised to one whose count others take. *)
CSFair == CSSpec /\ \A t \in Threads : /\ WF_csVars(Increment(t))
                                       /\ WF_csVars(Decrement(t))
=============================================================================
