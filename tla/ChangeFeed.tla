------------------------------ MODULE ChangeFeed ------------------------------
(***************************************************************************)
(* What a connector sync promises of one provider change feed, however its *)
(* workers crash, stall or overlap: entries may be settled at any time and *)
(* any number of times, but the checkpoint from which the next sync reads  *)
(* only ever moves forward, and only over entries that need no more work.  *)
(***************************************************************************)
EXTENDS Integers

CONSTANTS
  Files,    \* files of the connected source
  MaxFeed,  \* bound: length of the provider's change feed
  Feed      \* Feed[i]: the i-th change, of which file and of what kind

Positions == 1 .. MaxFeed
Kinds == {"file", "removal", "unsupported"}

VARIABLES
  published,  \* how much of the feed the provider has published
  settled,    \* changes whose effect is durable: documents admitted, removals recorded
  covered     \* the checkpoint: the next sync reads the changes after it

feedVars == <<published, settled, covered>>

(* The provider names a later change of the same file: the entry is no longer *)
(* listed, and an import of it is refused for good.                           *)
Superseded(i) == \E k \in i + 1 .. published : Feed[k].file = Feed[i].file

(* The database remembers the removal of a file forever. *)
Tombstoned(f) ==
  \E k \in settled : Feed[k].file = f /\ Feed[k].kind = "removal"

NeedsNoWork(i) ==
  i \in settled \/ Feed[i].kind = "unsupported" \/ Superseded(i)

FeedInit ==
  /\ published \in 0 .. MaxFeed
  /\ settled = {}
  /\ covered = 0

Publish ==
  /\ published < MaxFeed
  /\ published' = published + 1
  /\ UNCHANGED <<settled, covered>>

Settle(i) ==
  /\ Feed[i].kind # "unsupported"
  /\ Feed[i].kind = "file" => ~Tombstoned(Feed[i].file)
  /\ settled' = settled \union {i}
  /\ UNCHANGED <<published, covered>>

Cover(c) ==
  /\ covered <= c
  /\ \A i \in 1 .. c : NeedsNoWork(i)
  /\ covered' = c
  /\ UNCHANGED <<published, settled>>

FeedNext ==
  \/ Publish
  \/ \E i \in 1 .. published : Settle(i)
  \/ \E c \in 1 .. published : Cover(c)

FeedSpec == FeedInit /\ [][FeedNext]_feedVars
=============================================================================
