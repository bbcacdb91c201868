--------------------------- MODULE CommandDelivery ---------------------------
(***************************************************************************)
(* What the browser bridge promises: commands are numbered in the order in *)
(* which they are queued for a browser, a browser executes each at most    *)
(* once and in that order, and a command may be lost on the way.  What an  *)
(* execution does to the page, and when the page is done, is not said.     *)
(***************************************************************************)
EXTENDS Naturals, Sequences

CONSTANTS Clients   \* the connected browsers

VARIABLES
  submitted,   \* how many commands were queued for each browser
  executed     \* the commands each browser executed, oldest first

vars == <<submitted, executed>>

Init ==
  /\ submitted = [e \in Clients |-> 0]
  /\ executed = [e \in Clients |-> << >>]

Submit(e) ==
  /\ submitted' = [submitted EXCEPT ![e] = @ + 1]
  /\ UNCHANGED executed

\* Command i of browser e, which comes after all that e executed so far.
Execute(e, i) ==
  /\ i <= submitted[e]
  /\ \A j \in DOMAIN executed[e] : executed[e][j] < i
  /\ executed' = [executed EXCEPT ![e] = Append(@, i)]
  /\ UNCHANGED submitted

Next == \E e \in Clients : Submit(e) \/ \E i \in 1 .. submitted[e] : Execute(e, i)

Spec == Init /\ [][Next]_vars
=============================================================================
