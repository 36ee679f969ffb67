---------------------------- MODULE LatestRevision ----------------------------
(***************************************************************************)
(* What the bindings of a workspace promise whoever reads them: every      *)
(* source has one latest revision, the most advanced one bound, which only *)
(* moves forward and stands still once the source is tombstoned.  A source *)
(* whose old bindings tie has none until the tie is decided.               *)
(***************************************************************************)
EXTENDS Integers

CONSTANTS
  Sources,     \* logical sources
  MaxRevision  \* bound: revisions of a source

VARIABLES
  latest,     \* latest[s]: the latest revision of s, Undecided while there is none
  bound,      \* bound[s]: the revisions ever bound
  tombstoned  \* sources that were deleted

latestVars == <<latest, bound, tombstoned>>

Undecided == 0

IsMostAdvanced(r, R) == \A q \in R : q <= r

LatestInit ==
  /\ bound \in [Sources -> SUBSET (1 .. MaxRevision)]
  /\ latest \in [Sources -> {Undecided} \union 1 .. MaxRevision]
  /\ \A s \in Sources : latest[s] # Undecided =>
       latest[s] \in bound[s] /\ IsMostAdvanced(latest[s], bound[s])
  /\ tombstoned = {}

Advance(s, r) ==
  /\ s \notin tombstoned
  /\ r \notin bound[s] /\ IsMostAdvanced(r, bound[s])
  /\ latest' = [latest EXCEPT ![s] = r]
  /\ bound' = [bound EXCEPT ![s] = @ \union {r}]
  /\ UNCHANGED tombstoned

Decide(s, r) ==
  /\ s \notin tombstoned
  /\ latest[s] = Undecided
  /\ r \in bound[s] /\ IsMostAdvanced(r, bound[s])
  /\ latest' = [latest EXCEPT ![s] = r]
  /\ UNCHANGED <<bound, tombstoned>>

Forget(s) ==
  /\ tombstoned' = tombstoned \union {s}
  /\ UNCHANGED <<latest, bound>>

LatestNext ==
  \E s \in Sources :
    \/ \E r \in 1 .. MaxRevision : Advance(s, r) \/ Decide(s, r)
    \/ Forget(s)

LatestSpec == LatestInit /\ [][LatestNext]_latestVars
=============================================================================
