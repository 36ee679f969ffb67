---------------------------- MODULE LawfulRemoval ----------------------------
(***************************************************************************)
(* What the deletion of objects promises those who hold them and those who *)
(* audit it: an object is removed only by a removal that is open, a        *)
(* removal is opened on an attested record while no hold stands and is     *)
(* closed, with a receipt, once its object is gone; holds wait for open    *)
(* removals, and nobody writes an object whose removal is open or closed.  *)
(***************************************************************************)
CONSTANTS
  Objects,   \* objects of the store
  Removals,  \* removals of an object that may be recorded
  ObjectOf   \* ObjectOf[d]: the object removal d is of

VARIABLES
  hold,    \* what the legal hold reads as: only "inactive" excludes one
  stored,  \* objects the store holds
  locked,  \* objects the store refuses to remove
  asked,   \* removals on an attested record
  open,    \* removals begun, whose outcome is not known
  done     \* removals with a receipt

removalVars == <<hold, stored, locked, asked, open, done>>

RemovalInit ==
  /\ hold = "inactive" /\ stored = {} /\ locked \subseteq Objects
  /\ asked = {} /\ open = {} /\ done = {}

Write(k) ==
  /\ \A d \in open \union done : ObjectOf[d] # k
  /\ stored' = stored \union {k}
  /\ UNCHANGED <<hold, locked, asked, open, done>>

Hold ==
  /\ open = {} /\ hold' # "inactive"
  /\ UNCHANGED <<stored, locked, asked, open, done>>

Release ==
  /\ hold' = "inactive"
  /\ UNCHANGED <<stored, locked, asked, open, done>>

Unlock(k) ==
  /\ locked' = locked \ {k}
  /\ UNCHANGED <<hold, stored, asked, open, done>>

Ask ==
  /\ hold = "inactive"
  /\ asked \subseteq asked'
  /\ UNCHANGED <<hold, stored, locked, open, done>>

Open(d) ==
  /\ hold = "inactive"
  /\ d \in asked \ done
  /\ open' = open \union {d}
  /\ UNCHANGED <<hold, stored, locked, asked, done>>

Remove(d) ==
  /\ hold = "inactive"
  /\ d \in open /\ ObjectOf[d] \notin locked
  /\ stored' = stored \ {ObjectOf[d]}
  /\ UNCHANGED <<hold, locked, asked, open, done>>

(* The store refused for good: there is no removal under way any more.       *)
Withdraw(d) ==
  /\ d \in open /\ ObjectOf[d] \in locked
  /\ open' = open \ {d}
  /\ UNCHANGED <<hold, stored, locked, asked, done>>

Close(d) ==
  /\ hold = "inactive"
  /\ d \in open /\ ObjectOf[d] \notin stored
  /\ open' = open \ {d} /\ done' = done \union {d}
  /\ UNCHANGED <<hold, stored, locked, asked>>

RemovalNext ==
  \/ Hold \/ Release \/ Ask
  \/ \E k \in Objects : Write(k) \/ Unlock(k)
  \/ \E d \in Removals : Open(d) \/ Remove(d) \/ Withdraw(d) \/ Close(d)

RemovalSpec == RemovalInit /\ [][RemovalNext]_removalVars
=============================================================================
