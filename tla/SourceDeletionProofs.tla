------------------------ MODULE SourceDeletionProofs ------------------------
(***************************************************************************)
(* What the deletion of a source promises, for any number of sources,      *)
(* overlapping sweepers, holds and faults.                                 *)
(*                                                                         *)
(* An object is written once and by one producer, so it is enough to know  *)
(* when the producer of a recorded object has ended (MadeOnce), and that   *)
(* what an inventory was started for stays quiet (InventoryIsQuiet,        *)
(* AttestedIsQuiet).  Removals are answered for by the record of their     *)
(* object (RunsAreSound, LateIsAnsweredFor): the record of a start outlives *)
(* every request to the store that may still remove something.             *)
(*                                                                         *)
(* Last, every step is a step of LawfulRemoval or none of its business.    *)
(***************************************************************************)
EXTENDS SourceDeletion, TLAPS

(* The producer of k has written it and writes no more. *)
Made(k) ==
  /\ \A s \in Sources : k = Clean(s) => producer[s] = "ended"
  /\ k = World => compile = "done"

MadeOnce ==
  /\ \A k \in stored : Made(k)
  /\ \A d \in Deletions : row[d].state # "none" => Made(d[2])
  /\ inventory.phase = "sealing" => \A k \in inventory.found : Made(k)

(* Nothing of s is being written, but what the inventory cannot see.         *)
Quiet(s) ==
  /\ request[s] = "eligible"
  /\ producer[s] # "importing"
  /\ s \in Compiled => compile # "running"
  /\ s \notin lapsed => producer[s] # "processing"

UploadsAreOver ==
  \A s \in Sources \ connected : request[s] = "eligible" => producer[s] # "importing"

AttestedIsQuiet == \A s \in attested : Quiet(s)

InventoryIsQuiet ==
  inventory # Resting =>
    /\ Quiet(inventory.source)
    /\ inventory.worlds \subseteq Affected(inventory.source)
    /\ inventory.phase = "sealing" /\ inventory.source \notin lapsed =>
         Listed(inventory.source, inventory.worlds) \subseteq inventory.found

RecordsAreSound ==
  \A d \in Deletions :
    /\ row[d].state # "none" => request[d[1]] # "none"
    /\ row[d].state = "purged" \/ row[d].started => d[1] \in attested

(* A removal of k that may still land is of a locked object or on record.    *)
AnsweredFor(k) == k \in locked \/ \E d \in Deletions : d[2] = k /\ row[d].started

RunsAreSound ==
  \A w \in Sweepers : run[w] # Resting =>
    /\ run[w].of[1] \in attested
    /\ row[run[w].of].state # "none"
    /\ run[w].phase = "finalizing" => Key(w) \notin stored
    /\ run[w].phase = "refused" => Key(w) \in locked
    /\ run[w].phase = "waiting" => AnsweredFor(Key(w))

LateIsAnsweredFor == \A k \in late : AnsweredFor(k)

HoldsFindNoRemoval == hold # "inactive" => ~RemovalIsOpen

QuietInv == UploadsAreOver /\ AttestedIsQuiet /\ InventoryIsQuiet
SweepInv ==
  RunsAreSound /\ LateIsAnsweredFor /\ HoldsFindNoRemoval /\ RecordsAreSound /\ PurgedIsGone
DeletionInv == DeletionTypeOK /\ QuietInv /\ MadeOnce /\ SweepInv /\ AttestedIsComplete

-----------------------------------------------------------------------------
(* Keys of different kinds, or of different sources, differ.                 *)
LEMMA KeysDiffer ==
  ASSUME NEW s, NEW q
  PROVE  /\ Raw(s) # Clean(q) /\ Raw(s) # World /\ Clean(s) # World
         /\ Raw(s) = Raw(q) => s = q
         /\ Clean(s) = Clean(q) => s = q
<1>1. Raw(s)[1] = "raw" /\ Clean(q)[1] = "clean" /\ Clean(s)[1] = "clean" /\ World[1] = "world"
  BY DEF Raw, Clean, World
<1>2. Raw(s)[2] = s /\ Raw(q)[2] = q /\ Clean(s)[2] = s /\ Clean(q)[2] = q
  BY DEF Raw, Clean
<1> QED BY <1>1, <1>2

(* The objects a deletion removes. *)
LEMMA DeletionShape ==
  ASSUME NEW d \in Deletions
  PROVE  /\ d = <<d[1], d[2]>>
         /\ d[1] \in Sources
         /\ d[2] \in Keys
         /\ d[2] \in Own(d[1]) \/ (d[2] = World /\ d[1] \in Compiled)
<1>1. PICK s \in Sources : d \in {s} \X (Own(s) \union IF s \in Compiled THEN {World} ELSE {})
  BY DEF Deletions
<1>2. PICK k \in Own(s) \union IF s \in Compiled THEN {World} ELSE {} : d = <<s, k>>
  <2>1. d = <<d[1], d[2]>> /\ d[1] = s
        /\ d[2] \in Own(s) \union IF s \in Compiled THEN {World} ELSE {}
    BY <1>1
  <2> QED BY <2>1
<1>3. d[1] = s /\ d[2] = k
  BY <1>2
<1>4. k \in Own(s) \/ (k = World /\ s \in Compiled)
  BY <1>2
<1>5. k \in Keys
  <2>1. Own(s) \subseteq UNION {Own(q) : q \in Sources}
    OBVIOUS
  <2> QED BY <1>4, <2>1 DEF Keys
<1> QED BY <1>2, <1>3, <1>4, <1>5

LEMMA DeletionOf ==
  ASSUME NEW s \in Sources, NEW k, k \in Own(s) \/ (k = World /\ s \in Compiled)
  PROVE  <<s, k>> \in Deletions
BY DEF Deletions

-----------------------------------------------------------------------------
LEMMA RowsKeepTheirType ==
  ASSUME DeletionTypeOK, NEW d \in Deletions
  PROVE  /\ row[d].state \in {"none", "pending", "purged"}
         /\ row[d].state = "none" => row[d] = NoRow
         /\ row[d].state = "purged" => row[d] = Purged
         /\ row[d].live \/ ~row[d].due => row[d].state = "pending"
         /\ row[d].started => row[d].state \in {"pending", "purged"}
         /\ row[d].state = "pending" =>
              row[d] \in [state : {"pending"}, live : BOOLEAN, started : BOOLEAN, due : BOOLEAN]
<1>1. row[d] = NoRow \/ row[d] = Purged \/
      row[d] \in [state : {"pending"}, live : BOOLEAN, started : BOOLEAN, due : BOOLEAN]
  BY DEF DeletionTypeOK
<1>2. NoRow.state = "none" /\ ~NoRow.live /\ ~NoRow.started /\ NoRow.due
  BY DEF NoRow
<1>3. Purged.state = "purged" /\ ~Purged.live /\ Purged.started /\ Purged.due
  BY DEF NoRow, Purged
<1> QED BY <1>1, <1>2, <1>3

(* What is known of a sweeper at work. *)
LEMMA RunKnown ==
  ASSUME DeletionTypeOK, NEW w \in Sweepers, run[w].phase # "rest"
  PROVE  /\ run[w] # Resting
         /\ run[w] \in [phase : {"inspecting", "beginning", "waiting", "verifying",
                                 "finalizing", "refused"},
                        of : Deletions, exists : BOOLEAN, claims : BOOLEAN]
         /\ run[w].of \in Deletions
         /\ Key(w) \in Keys
BY DeletionShape DEF DeletionTypeOK, Resting, Key

LEMMA InventoryKnown ==
  ASSUME DeletionTypeOK, inventory.phase # "rest"
  PROVE  /\ inventory # Resting
         /\ inventory \in [phase : {"listing", "sealing"}, source : Sources,
                           worlds : SUBSET {World}, found : SUBSET Keys]
BY DEF DeletionTypeOK, Resting

-----------------------------------------------------------------------------
(* Type correctness.                                                         *)
LEMMA RowMoves ==
  ASSUME DeletionTypeOK, NEW d \in Deletions,
         NEW r \in {NoRow, Purged} \union
           [state : {"pending"}, live : BOOLEAN, started : BOOLEAN, due : BOOLEAN],
         row' = [row EXCEPT ![d] = r]
  PROVE  row' \in [Deletions -> {NoRow, Purged} \union
           [state : {"pending"}, live : BOOLEAN, started : BOOLEAN, due : BOOLEAN]]
BY DEF DeletionTypeOK

LEMMA TypesInit == Init => DeletionTypeOK
<1> SUFFICES ASSUME Init PROVE DeletionTypeOK
  OBVIOUS
<1>1. row \in [Deletions -> {NoRow, Purged} \union
        [state : {"pending"}, live : BOOLEAN, started : BOOLEAN, due : BOOLEAN]]
  BY DEF Init
<1>2. locked \subseteq Keys
  BY DEF Init, Keys, Own
<1>3. inventory \in {Resting} /\ run \in [Sweepers -> {Resting}]
  BY DEF Init
<1>4. holds \in 0 .. MaxHolds /\ faults \in 0 .. MaxFaults
  BY BoundsAssumption DEF Init
<1> QED BY <1>1, <1>2, <1>3, <1>4 DEF Init, DeletionTypeOK

LEMMA ProduceKeepsTypes ==
  ASSUME DeletionTypeOK, Produce
  PROVE  DeletionTypeOK'
<1>1. ASSUME NEW s \in Sources,
             Import(s) \/ StoreSource(s) \/ AbandonImport(s) \/ Disarm(s) \/ Lapse(s)
      PROVE  DeletionTypeOK'
  <2>1. Raw(s) \in Keys /\ Clean(s) \in Keys
    BY DEF Keys, Own
  <2> QED BY <1>1, <2>1 DEF DeletionTypeOK, Import, StoreSource, AbandonImport, Disarm, Lapse,
           deletionVars, storeVars
<1>2. CASE StartCompile
  BY <1>2 DEF StartCompile, DeletionTypeOK, deletionVars, storeVars
<1>3. CASE EndCompile
  <2>1. World \in Keys
    BY DEF Keys
  <2> QED BY <1>3, <2>1 DEF EndCompile, DeletionTypeOK, deletionVars
<1> QED BY <1>1, <1>2, <1>3 DEF Produce

LEMMA HoldsKeepTypes ==
  ASSUME DeletionTypeOK, PlaceHold \/ ReleaseHold \/ LoseSight \/ WritePolicy
  PROVE  DeletionTypeOK'
BY BoundsAssumption DEF DeletionTypeOK, PlaceHold, ReleaseHold, LoseSight, WritePolicy, deletionVars,
       producerVars, storeVars

LEMMA RequestsKeepTypes ==
  ASSUME DeletionTypeOK, NEW s \in Sources, Request(s) \/ BecomeEligible(s)
  PROVE  DeletionTypeOK'
<1>1. CASE Request(s)
  <2>1. <<s, Raw(s)>> \in Deletions
    BY DeletionOf DEF Own
  <2>2. Pending \in [state : {"pending"}, live : BOOLEAN, started : BOOLEAN, due : BOOLEAN]
    BY DEF Pending, NoRow
  <2>3. row' \in [Deletions -> {NoRow, Purged} \union
          [state : {"pending"}, live : BOOLEAN, started : BOOLEAN, due : BOOLEAN]]
    BY <1>1, <2>1, <2>2, RowMoves DEF Request, DeletionTypeOK
  <2>4. request' \in [Sources -> {"none", "recorded", "eligible"}]
    BY <1>1 DEF Request, DeletionTypeOK
  <2> QED BY <1>1, <2>3, <2>4 DEF Request, DeletionTypeOK, producerVars, storeVars
<1>2. CASE BecomeEligible(s)
  BY <1>2 DEF BecomeEligible, DeletionTypeOK, producerVars, storeVars
<1> QED BY <1>1, <1>2

LEMMA InventoryKeepsTypes ==
  ASSUME DeletionTypeOK, TakeInventory
  PROVE  DeletionTypeOK'
<1>1. ASSUME NEW s \in Sources, TakeCandidate(s) PROVE DeletionTypeOK'
  <2>1. inventory' \in [phase : {"listing", "sealing"}, source : Sources,
                        worlds : SUBSET {World}, found : SUBSET Keys]
    BY <1>1 DEF TakeCandidate, Affected
  <2> QED BY <1>1, <2>1 DEF TakeCandidate, DeletionTypeOK, deletionVars, producerVars, storeVars
<1>2. CASE List
  <2>1. inventory \in [phase : {"listing", "sealing"}, source : Sources,
                       worlds : SUBSET {World}, found : SUBSET Keys]
    BY <1>2, InventoryKnown DEF List
  <2>2. Listed(inventory.source, inventory.worlds) \subseteq Keys
    BY DEF Listed, DeletionTypeOK
  <2>3. inventory' \in {Resting} \union
          [phase : {"listing", "sealing"}, source : Sources,
           worlds : SUBSET {World}, found : SUBSET Keys]
    BY <1>2, <2>1, <2>2 DEF List
  <2> QED BY <1>2, <2>3 DEF List, DeletionTypeOK, deletionVars, producerVars, storeVars
<1>3. CASE Attest
  <2>1. inventory.source \in Sources
    BY <1>3, InventoryKnown DEF Attest
  <2>2. Pending \in [state : {"pending"}, live : BOOLEAN, started : BOOLEAN, due : BOOLEAN]
    BY DEF Pending, NoRow
  <2>3. attested' \subseteq Sources
    BY <1>3, <2>1 DEF Attest, DeletionTypeOK
  <2>4. row' \in [Deletions -> {NoRow, Purged} \union
          [state : {"pending"}, live : BOOLEAN, started : BOOLEAN, due : BOOLEAN]]
    BY <1>3, <2>2 DEF Attest, DeletionTypeOK
  <2>5. inventory' = Resting
    BY <1>3 DEF Attest
  <2> QED BY <1>3, <2>3, <2>4, <2>5 DEF Attest, DeletionTypeOK, producerVars, storeVars
<1> QED BY <1>1, <1>2, <1>3 DEF TakeInventory

LEMMA ClaimsKeepTypes ==
  ASSUME DeletionTypeOK, NEW d \in Deletions,
         (\E w \in Sweepers : Claim(w, d)) \/ Expire(d) \/ FallDue(d)
  PROVE  DeletionTypeOK'
<1> DEFINE Rows == [state : {"pending"}, live : BOOLEAN, started : BOOLEAN, due : BOOLEAN]
<1>1. row[d] \in Rows
  <2>1. row[d].state = "pending"
    BY RowsKeepTheirType DEF Claim, Claimable, Expire, FallDue
  <2> QED BY <2>1, RowsKeepTheirType
<1>2. row' \in [Deletions -> {NoRow, Purged} \union Rows]
  <2>1. [row[d] EXCEPT !.live = TRUE] \in Rows /\ [row[d] EXCEPT !.live = FALSE] \in Rows
        /\ [row[d] EXCEPT !.due = TRUE] \in Rows
    BY <1>1
  <2>2. \/ row' = [row EXCEPT ![d] = [row[d] EXCEPT !.live = TRUE]]
        \/ row' = [row EXCEPT ![d] = [row[d] EXCEPT !.live = FALSE]]
        \/ row' = [row EXCEPT ![d] = [row[d] EXCEPT !.due = TRUE]]
    BY DEF Claim, Expire, FallDue
  <2> QED BY <2>1, <2>2, RowMoves
<1>3. CASE \E w \in Sweepers : Claim(w, d)
  <2>1. PICK w \in Sweepers : Claim(w, d)
    BY <1>3
  <2> DEFINE Runs == [phase : {"inspecting", "beginning", "waiting", "verifying",
                               "finalizing", "refused"},
                      of : Deletions, exists : BOOLEAN, claims : BOOLEAN]
  <2>2. [phase |-> "inspecting", of |-> d, exists |-> FALSE, claims |-> TRUE] \in Runs
    OBVIOUS
  <2>3. \A v \in Sweepers : run[v] # Resting => [run[v] EXCEPT !.claims = FALSE] \in Runs
    BY DEF DeletionTypeOK
  <2>4. \A v \in Sweepers : run[v] \in {Resting} \union Runs
    BY DEF DeletionTypeOK
  <2>5. run' \in [Sweepers -> {Resting} \union Runs]
    BY <2>1, <2>2, <2>3, <2>4 DEF Claim
  <2> QED BY <2>1, <2>5, <1>2 DEF Claim, DeletionTypeOK, producerVars, storeVars
<1>4. CASE Expire(d) \/ FallDue(d)
  BY <1>2, <1>4 DEF Expire, FallDue, DeletionTypeOK, producerVars, storeVars
<1> QED BY <1>3, <1>4

LEMMA WorkKeepsTypes ==
  ASSUME DeletionTypeOK, NEW w \in Sweepers, Work(w)
  PROVE  DeletionTypeOK'
<1> DEFINE Runs == [phase : {"inspecting", "beginning", "waiting", "verifying",
                             "finalizing", "refused"},
                    of : Deletions, exists : BOOLEAN, claims : BOOLEAN]
           Rows == {NoRow, Purged} \union
             [state : {"pending"}, live : BOOLEAN, started : BOOLEAN, due : BOOLEAN]
<1>1. run[w] \in Runs /\ run[w].of \in Deletions /\ Key(w) \in Keys
  <2>1. run[w] # Resting
    BY DEF Work, Inspect, Begin, Answer, Verify, Finalize, RecordRefusal, Stop, Working, Resting
  <2>2. run[w].phase # "rest"
    BY <2>1 DEF DeletionTypeOK
  <2> QED BY <2>2, RunKnown
<1>2. run' \in [Sweepers -> {Resting} \union Runs]
  <2>1. \A p \in {"inspecting", "beginning", "waiting", "verifying", "finalizing", "refused"} :
          GoOn(w, p) => run' \in [Sweepers -> {Resting} \union Runs]
    BY <1>1 DEF GoOn, DeletionTypeOK
  <2>2. Rest(w) => run' \in [Sweepers -> {Resting} \union Runs]
    BY DEF Rest, DeletionTypeOK
  <2>3. Inspect(w) => run' \in [Sweepers -> {Resting} \union Runs]
    <3> SUFFICES ASSUME Inspect(w) PROVE run' \in [Sweepers -> {Resting} \union Runs]
      OBVIOUS
    <3>1. PICK e \in BOOLEAN : run' = [run EXCEPT ![w] = [run[w] EXCEPT !.phase = "beginning", !.exists = e]]
      <4>1. (Key(w) \in stored) \in BOOLEAN
        OBVIOUS
      <4>2. run' = [run EXCEPT ![w] = [run[w] EXCEPT !.phase = "beginning",
                                                      !.exists = Key(w) \in stored]]
        BY DEF Inspect
      <4> QED BY <4>1, <4>2, Zenon
    <3>2. [run[w] EXCEPT !.phase = "beginning", !.exists = e] \in Runs
      BY <1>1
    <3> QED BY <3>1, <3>2 DEF DeletionTypeOK
  <2> QED BY <2>1, <2>2, <2>3 DEF Work, Begin, Answer, Verify, Finalize, RecordRefusal, Stop
<1>3. row' \in [Deletions -> Rows]
  <2> DEFINE d == run[w].of
  <2>1. row[d].state = "pending" => [row[d] EXCEPT !.started = TRUE] \in Rows
    BY <1>1, RowsKeepTheirType
  <2>2. [Pending EXCEPT !.due = FALSE] \in Rows
    BY DEF Pending, NoRow
  <2>3. \/ row' = row
        \/ row[d].state = "pending" /\ row' = [row EXCEPT ![d] = [row[d] EXCEPT !.started = TRUE]]
        \/ row' = [row EXCEPT ![d] = Purged]
        \/ row' = [row EXCEPT ![d] = [Pending EXCEPT !.due = FALSE]]
    BY DEF Work, Inspect, Begin, Answer, Verify, Finalize, RecordRefusal, Stop, deletionVars
  <2> HIDE DEF d
  <2>4. d \in Deletions
    BY <1>1 DEF d
  <2>5. row \in [Deletions -> Rows]
    BY DEF DeletionTypeOK
  <2> QED BY <2>1, <2>2, <2>3, <2>4, <2>5, RowMoves
<1>4. stored' \subseteq Keys /\ late' \subseteq Keys /\ locked' = locked
      /\ faults' \in 0 .. MaxFaults
  <2>1. faults' \in {faults, faults - 1} /\ (faults' = faults \/ faults > 0)
    BY DEF Work, Inspect, Begin, Answer, Verify, Finalize, RecordRefusal, Stop
  <2>2. faults' \in 0 .. MaxFaults
    BY <2>1, BoundsAssumption DEF DeletionTypeOK
  <2>3. stored' \in {stored, stored \ {Key(w)}} /\ late' \in {late, late \union {Key(w)}}
        /\ locked' = locked
    BY DEF Work, Inspect, Begin, Answer, Verify, Finalize, RecordRefusal, Stop, storeVars
  <2> QED BY <1>1, <2>2, <2>3 DEF DeletionTypeOK
<1>5. UNCHANGED <<connected, hold, request, attested, producerVars, inventory, holds>>
  BY DEF Work, Inspect, Begin, Answer, Verify, Finalize, RecordRefusal, Stop, deletionVars
<1> QED BY <1>2, <1>3, <1>4, <1>5 DEF DeletionTypeOK, producerVars

LEMMA StoreKeepsTypes ==
  ASSUME DeletionTypeOK, NEW k \in Keys, LandLate(k) \/ LockLapses(k)
  PROVE  DeletionTypeOK'
BY DEF DeletionTypeOK, LandLate, LockLapses, deletionVars, producerVars

-----------------------------------------------------------------------------
(* What was begun for a source ends before its inventory starts, and nothing *)
(* begins after.                                                             *)
LEMMA QuietInit == Init => QuietInv
BY DEF Init, QuietInv, UploadsAreOver, AttestedIsQuiet, InventoryIsQuiet

LEMMA QuietFrame ==
  ASSUME QuietInv, stored' \subseteq stored,
         UNCHANGED <<connected, request, producer, lapsed, compile, attested, inventory>>
  PROVE  QuietInv'
<1>1. UploadsAreOver' /\ AttestedIsQuiet'
  BY DEF QuietInv, UploadsAreOver, AttestedIsQuiet, Quiet
<1>2. InventoryIsQuiet'
  BY DEF QuietInv, InventoryIsQuiet, Quiet, Listed, Affected
<1> QED BY <1>1, <1>2 DEF QuietInv

(* Nothing a quiet source is listed with appears, nor a World of it.         *)
LEMMA QuietKeepsListing ==
  ASSUME DeletionTypeOK, NEW s \in Sources, Quiet(s), s \notin lapsed', Produce,
         NEW worlds, worlds \subseteq Affected(s)
  PROVE  /\ Affected(s)' = Affected(s)
         /\ stored' \intersect (Own(s) \union worlds) \subseteq
              stored \intersect (Own(s) \union worlds)
<1>1. ASSUME NEW q \in Sources,
             Import(q) \/ StoreSource(q) \/ AbandonImport(q) \/ Disarm(q) \/ Lapse(q)
      PROVE  /\ Affected(s)' = Affected(s)
             /\ stored' \intersect (Own(s) \union worlds) \subseteq
                  stored \intersect (Own(s) \union worlds)
  <2>1. /\ compile' = compile /\ lapsed \subseteq lapsed'
        /\ stored' \subseteq stored \union {Raw(q), Clean(q)}
    BY <1>1 DEF Import, StoreSource, AbandonImport, Disarm, Lapse, storeVars
  <2>2. CASE q = s
    <3>1. producer[s] \notin {"importing", "processing"}
      BY <2>1 DEF Quiet
    <3>2. UNCHANGED stored
      BY <1>1, <2>2, <3>1 DEF Import, StoreSource, AbandonImport, Disarm, Lapse, storeVars
    <3> QED BY <2>1, <3>2 DEF Affected
  <2>3. CASE q # s
    <3>1. Raw(q) \notin Own(s) \union worlds /\ Clean(q) \notin Own(s) \union worlds
      BY <2>3, KeysDiffer DEF Own, Affected
    <3> QED BY <2>1, <3>1 DEF Affected
  <2> QED BY <2>2, <2>3
<1>2. ASSUME StartCompile \/ EndCompile
      PROVE  /\ Affected(s)' = Affected(s)
             /\ stored' \intersect (Own(s) \union worlds) \subseteq
                  stored \intersect (Own(s) \union worlds)
  <2>1. CASE s \in Compiled
    <3>1. StartCompile => request[s] = "none"
      BY <2>1 DEF StartCompile
    <3>2. EndCompile => compile = "running"
      BY DEF EndCompile
    <3> QED BY <1>2, <2>1, <3>1, <3>2 DEF Quiet
  <2>2. CASE s \notin Compiled
    <3>1. World \notin Own(s) \union worlds
      BY <2>2, KeysDiffer DEF Own, Affected
    <3>2. stored' \subseteq stored \union {World}
      BY <1>2 DEF StartCompile, EndCompile, storeVars
    <3> QED BY <2>2, <3>1, <3>2 DEF Affected
  <2> QED BY <2>1, <2>2
<1> QED BY <1>1, <1>2 DEF Produce

(* A producer at work is not of a quiet source. *)
LEMMA QuietProduce ==
  ASSUME DeletionTypeOK, QuietInv, Produce
  PROVE  QuietInv'
<1>0. UNCHANGED <<connected, request, attested, inventory>>
  BY DEF Produce, Import, StoreSource, AbandonImport, Disarm, Lapse, StartCompile, EndCompile,
     deletionVars
<1>1. ASSUME NEW s \in Sources,
             Import(s) \/ StoreSource(s) \/ AbandonImport(s) \/ Disarm(s) \/ Lapse(s)
      PROVE  QuietInv'
  <2>1. /\ producer \in [Sources -> {"idle", "importing", "processing", "ended"}]
        /\ attested \subseteq Sources
        /\ inventory # Resting => inventory.source \in Sources
    BY DEF DeletionTypeOK
  <2>2. /\ \A q \in Sources : q # s => producer'[q] = producer[q]
        /\ compile' = compile /\ lapsed \subseteq lapsed'
    BY <1>1, <2>1 DEF Import, StoreSource, AbandonImport, Disarm, Lapse
  <2>3. \/ producer'[s] = producer[s]
        \/ producer[s] = "idle" /\ request[s] = "none"
        \/ producer[s] = "importing" /\ producer'[s] \in {"processing", "ended"}
        \/ producer[s] = "processing" /\ producer'[s] = "ended"
    BY <1>1, <2>1 DEF Import, StoreSource, AbandonImport, Disarm, Lapse
  <2>4. \A q \in Sources : Quiet(q) => Quiet(q)'
    BY <1>0, <2>2, <2>3 DEF Quiet
  <2>5. UploadsAreOver'
    BY <1>0, <2>2, <2>3 DEF QuietInv, UploadsAreOver
  <2>6. AttestedIsQuiet'
    BY <1>0, <2>1, <2>4 DEF QuietInv, AttestedIsQuiet
  <2>8. InventoryIsQuiet'
    <3> SUFFICES ASSUME inventory # Resting
                 PROVE  /\ Quiet(inventory.source)'
                        /\ inventory.worlds \subseteq Affected(inventory.source)'
                        /\ inventory.phase = "sealing" /\ inventory.source \notin lapsed' =>
                             Listed(inventory.source, inventory.worlds)' \subseteq inventory.found
      BY <1>0 DEF InventoryIsQuiet
    <3>1. Quiet(inventory.source)'
      BY <1>0, <2>1, <2>4 DEF QuietInv, InventoryIsQuiet, Quiet
    <3>2. inventory.worlds \subseteq Affected(inventory.source)'
      BY <1>0, <2>2 DEF QuietInv, InventoryIsQuiet, Affected
    <3> QED BY <1>0, <2>1, <2>2, <3>1, <3>2, QuietKeepsListing DEF QuietInv, InventoryIsQuiet, Listed
  <2> QED BY <2>5, <2>6, <2>8 DEF QuietInv
<1>2. CASE StartCompile \/ EndCompile
  <2>1. UNCHANGED <<producer, lapsed>> /\ stored' \subseteq stored \union {World}
    BY <1>2 DEF StartCompile, EndCompile, storeVars
  <2>2. \A q \in Sources : Quiet(q) => Quiet(q)'
    <3>1. CASE StartCompile
      BY <1>0, <2>1, <3>1 DEF StartCompile, Quiet
    <3>2. CASE EndCompile
      BY <1>0, <2>1, <3>2 DEF EndCompile, Quiet
    <3> QED BY <1>2, <3>1, <3>2
  <2>3. inventory # Resting => inventory.source \in Sources /\ Quiet(inventory.source)
          /\ inventory.worlds \subseteq Affected(inventory.source)
    BY DEF DeletionTypeOK, QuietInv, InventoryIsQuiet
  <2>4. UploadsAreOver' /\ AttestedIsQuiet'
    BY <1>0, <2>1, <2>2 DEF QuietInv, UploadsAreOver, AttestedIsQuiet, DeletionTypeOK
  <2>5. InventoryIsQuiet'
    <3> SUFFICES ASSUME inventory # Resting
                 PROVE  /\ Quiet(inventory.source)'
                        /\ inventory.worlds \subseteq Affected(inventory.source)'
                        /\ inventory.phase = "sealing" /\ inventory.source \notin lapsed' =>
                             Listed(inventory.source, inventory.worlds)' \subseteq inventory.found
      BY <1>0 DEF InventoryIsQuiet
    <3>1. Quiet(inventory.source)'
      BY <1>0, <2>2, <2>3 DEF Quiet
    <3>2. inventory.worlds \subseteq Affected(inventory.source)'
      BY <1>0, <1>2, <2>3 DEF Affected, StartCompile, EndCompile
    <3> QED BY <1>0, <2>1, <2>3, <3>1, <3>2, QuietKeepsListing DEF QuietInv, InventoryIsQuiet, Listed
  <2> QED BY <2>4, <2>5 DEF QuietInv
<1> QED BY <1>1, <1>2 DEF Produce

LEMMA QuietRequests ==
  ASSUME DeletionTypeOK, QuietInv, NEW s \in Sources, Request(s) \/ BecomeEligible(s)
  PROVE  QuietInv'
<1>1. UNCHANGED <<connected, producer, lapsed, compile, stored, attested, inventory>>
  BY DEF Request, BecomeEligible, producerVars, storeVars
<1>2. /\ \A q \in Sources : request[q] = "eligible" => request'[q] = "eligible"
      /\ \A q \in Sources : request'[q] = "eligible" =>
           request[q] = "eligible" \/ q \in connected \/ producer[q] # "importing"
  BY DEF Request, BecomeEligible, DeletionTypeOK
<1>3. \A q \in Sources : Quiet(q) => Quiet(q)'
  BY <1>1, <1>2 DEF Quiet
<1>4. UploadsAreOver' /\ AttestedIsQuiet'
  BY <1>1, <1>2, <1>3 DEF QuietInv, UploadsAreOver, AttestedIsQuiet, DeletionTypeOK
<1>5. InventoryIsQuiet'
  <2>1. inventory # Resting => inventory.source \in Sources
    BY DEF DeletionTypeOK
  <2>2. inventory # Resting => Quiet(inventory.source)'
    BY <1>1, <1>3, <2>1 DEF QuietInv, InventoryIsQuiet, Quiet
  <2> QED BY <1>1, <2>2 DEF QuietInv, InventoryIsQuiet, Listed, Affected
<1> QED BY <1>4, <1>5 DEF QuietInv

LEMMA QuietInventory ==
  ASSUME DeletionTypeOK, QuietInv, TakeInventory
  PROVE  QuietInv'
<1>1. UNCHANGED <<connected, request, producer, lapsed, compile, stored>>
  BY DEF TakeInventory, TakeCandidate, List, Attest, deletionVars, producerVars, storeVars
<1>2. UploadsAreOver'
  BY <1>1 DEF QuietInv, UploadsAreOver
<1>3. ASSUME NEW s \in Sources, TakeCandidate(s) PROVE QuietInv'
  <2>1. Quiet(s)
    BY <1>3 DEF TakeCandidate, Quiet, Quiescent, NoImport, QuietInv, UploadsAreOver
  <2>2. /\ inventory' = [phase |-> "listing", source |-> s, worlds |-> Affected(s), found |-> {}]
        /\ attested' = attested
    BY <1>3 DEF TakeCandidate, deletionVars
  <2>3. AttestedIsQuiet'
    BY <1>1, <2>2 DEF QuietInv, AttestedIsQuiet, Quiet
  <2>4. InventoryIsQuiet'
    BY <1>1, <2>1, <2>2 DEF InventoryIsQuiet, Quiet, Affected
  <2> QED BY <1>2, <2>3, <2>4 DEF QuietInv
<1>4. CASE List
  <2>1. attested' = attested
    BY <1>4 DEF List, deletionVars
  <2>2. AttestedIsQuiet'
    BY <1>1, <2>1 DEF QuietInv, AttestedIsQuiet, Quiet
  <2>3. inventory # Resting
        /\ inventory \in [phase : {"listing", "sealing"}, source : Sources,
                          worlds : SUBSET {World}, found : SUBSET Keys]
    BY <1>4, InventoryKnown DEF List
  <2>4. \/ inventory' = Resting
        \/ /\ inventory'.source = inventory.source /\ inventory'.worlds = inventory.worlds
           /\ inventory'.found = Listed(inventory.source, inventory.worlds)
    BY <1>4, <2>3 DEF List
  <2>5. InventoryIsQuiet'
    BY <1>1, <2>3, <2>4 DEF QuietInv, InventoryIsQuiet, Quiet, Affected, Listed
  <2> QED BY <1>2, <2>2, <2>5 DEF QuietInv
<1>5. CASE Attest
  <2>1. Quiet(inventory.source)
    BY <1>5, InventoryKnown DEF Attest, QuietInv, InventoryIsQuiet
  <2>2. attested' \subseteq attested \union {inventory.source} /\ inventory' = Resting
    BY <1>5 DEF Attest
  <2>3. AttestedIsQuiet'
    BY <1>1, <2>1, <2>2 DEF QuietInv, AttestedIsQuiet, Quiet
  <2>4. InventoryIsQuiet'
    BY <2>2 DEF InventoryIsQuiet
  <2> QED BY <1>2, <2>3, <2>4 DEF QuietInv
<1> QED BY <1>3, <1>4, <1>5 DEF TakeInventory

-----------------------------------------------------------------------------
(* What is stored, found or recorded was made, and is not made again.        *)
LEMMA MadeInit == Init => MadeOnce
<1> SUFFICES ASSUME Init PROVE MadeOnce
  OBVIOUS
<1>1. \A d \in Deletions : row[d].state = "none"
  BY DEF Init, NoRow
<1> QED BY <1>1 DEF Init, MadeOnce, Resting

LEMMA MadeStays ==
  ASSUME DeletionTypeOK, UNCHANGED <<producer, compile>> \/ Produce, NEW k, Made(k)
  PROVE  Made(k)'
<1>1. \A s \in Sources : producer[s] = "ended" => producer'[s] = "ended"
  BY DEF DeletionTypeOK, Produce, Import, StoreSource, AbandonImport, Disarm, Lapse,
     StartCompile, EndCompile
<1>2. compile = "done" => compile' = "done"
  BY DEF Produce, Import, StoreSource, AbandonImport, Disarm, Lapse, StartCompile, EndCompile
<1> QED BY <1>1, <1>2 DEF Made

LEMMA NewIsMade ==
  ASSUME DeletionTypeOK, Produce, NEW k \in stored' \ stored
  PROVE  /\ Made(k)'
         /\ ~Made(k) \/ \E s \in Sources : k = Raw(s) /\ producer[s] = "importing"
<1>1. ASSUME NEW s \in Sources, StoreSource(s)
      PROVE  k = Raw(s) /\ producer[s] = "importing" /\ Made(k)'
  <2>1. k = Raw(s) /\ producer[s] = "importing"
    BY <1>1 DEF StoreSource
  <2> QED BY <2>1, KeysDiffer DEF Made
<1>2. ASSUME NEW s \in Sources, Disarm(s) PROVE ~Made(k) /\ Made(k)'
  <2>1. k = Clean(s) /\ producer[s] = "processing" /\ producer'[s] = "ended"
    BY <1>2 DEF Disarm, DeletionTypeOK
  <2> QED BY <2>1, KeysDiffer DEF Made
<1>3. ASSUME EndCompile PROVE ~Made(k) /\ Made(k)'
  <2>1. k = World /\ compile = "running" /\ compile' = "done"
    BY <1>3 DEF EndCompile
  <2> QED BY <2>1, KeysDiffer DEF Made
<1>4. \/ \E s \in Sources : StoreSource(s) \/ Disarm(s)
      \/ EndCompile
  BY DEF Produce, Import, StoreSource, AbandonImport, Disarm, Lapse, StartCompile, EndCompile,
     storeVars
<1> QED BY <1>1, <1>2, <1>3, <1>4

LEMMA MadeProduce ==
  ASSUME DeletionTypeOK, MadeOnce, Produce
  PROVE  MadeOnce'
<1>1. UNCHANGED <<row, inventory>>
  BY DEF Produce, Import, StoreSource, AbandonImport, Disarm, Lapse, StartCompile, EndCompile,
     deletionVars
<1>2. \A k : Made(k) => Made(k)'
  BY MadeStays
<1>3. \A k \in stored' : Made(k)'
  BY <1>2, NewIsMade DEF MadeOnce
<1> QED BY <1>1, <1>2, <1>3 DEF MadeOnce

LEMMA MadeFrame ==
  ASSUME DeletionTypeOK, MadeOnce, stored' \subseteq stored,
         UNCHANGED <<producer, compile, inventory>>,
         \A d \in Deletions : row'[d].state # "none" => row[d].state # "none" \/ Made(d[2])
  PROVE  MadeOnce'
BY DEF MadeOnce, Made

LEMMA MadeRequests ==
  ASSUME DeletionTypeOK, MadeOnce, NEW s \in Sources, Request(s) \/ BecomeEligible(s)
  PROVE  MadeOnce'
<1>1. Made(Raw(s))
  BY KeysDiffer DEF Made
<1>2. \A d \in Deletions : row'[d].state # "none" => row[d].state # "none" \/ Made(d[2])
  <2> SUFFICES ASSUME NEW d \in Deletions, row'[d] # row[d] PROVE Made(d[2])
    OBVIOUS
  <2>1. d = <<s, Raw(s)>>
    BY DEF Request, BecomeEligible, DeletionTypeOK
  <2> QED BY <1>1, <2>1
<1> QED BY <1>2, MadeFrame DEF Request, BecomeEligible, producerVars, storeVars

LEMMA MadeInventory ==
  ASSUME DeletionTypeOK, MadeOnce, TakeInventory
  PROVE  MadeOnce'
<1>1. UNCHANGED <<producer, compile, stored>>
  BY DEF TakeInventory, TakeCandidate, List, Attest, producerVars, storeVars
<1>2. CASE (\E s \in Sources : TakeCandidate(s)) \/ List
  <2>1. UNCHANGED row
    BY <1>2 DEF TakeCandidate, List, deletionVars
  <2>2. inventory'.phase = "sealing" => inventory'.found \subseteq stored
    <3>1. ASSUME NEW s \in Sources, TakeCandidate(s) PROVE inventory'.phase # "sealing"
      BY <3>1 DEF TakeCandidate
    <3>2. ASSUME List PROVE inventory' = Resting \/ inventory'.found \subseteq stored
      <4>1. inventory \in [phase : {"listing", "sealing"}, source : Sources,
                           worlds : SUBSET {World}, found : SUBSET Keys]
        BY <3>2, InventoryKnown DEF List
      <4> QED BY <3>2, <4>1 DEF List, Listed
    <3> QED BY <1>2, <3>1, <3>2 DEF Resting
  <2> QED BY <1>1, <2>1, <2>2 DEF MadeOnce, Made
<1>3. CASE Attest
  <2>1. inventory' = Resting
    BY <1>3 DEF Attest
  <2>2. \A d \in Deletions : row'[d].state # "none" => row[d].state # "none" \/ Made(d[2])
    BY <1>3 DEF Attest, MadeOnce
  <2> QED BY <1>1, <2>1, <2>2 DEF MadeOnce, Made, Resting
<1> QED BY <1>2, <1>3 DEF TakeInventory

-----------------------------------------------------------------------------
(* Removals: who may still remove something, and on whose account.           *)
LEMMA SweepInit == Init => SweepInv
<1> SUFFICES ASSUME Init PROVE SweepInv
  OBVIOUS
<1>1. \A d \in Deletions : row[d].state = "none" /\ ~row[d].started
  BY DEF Init, NoRow
<1>2. (\A w \in Sweepers : run[w] = Resting) /\ late = {} /\ hold = "inactive"
  BY DEF Init
<1> QED BY <1>1, <1>2 DEF SweepInv, RunsAreSound, LateIsAnsweredFor, HoldsFindNoRemoval,
       RecordsAreSound, PurgedIsGone

LEMMA AnswersStay ==
  ASSUME NEW k, AnsweredFor(k), k \in locked => k \in locked',
         \A d \in Deletions : row[d].started => row'[d].started \/ d[2] \in locked'
  PROVE  AnsweredFor(k)'
BY DEF AnsweredFor

(* Steps that leave the sweepers alone. *)
LEMMA SweepFrame ==
  ASSUME DeletionTypeOK, SweepInv, UNCHANGED <<run, locked>>, late' \subseteq late,
         attested \subseteq attested',
         \A s \in Sources : request[s] # "none" => request'[s] # "none",
         \A d \in Deletions :
           /\ \/ row'[d] = row[d]
              \/ row[d].state = "none" /\ row'[d] = Pending /\ request'[d[1]] # "none"
           /\ d[1] \in attested /\ row[d].state # "none" /\ d[2] \notin stored => d[2] \notin stored',
         hold' # "inactive" => hold # "inactive" \/ ~RemovalIsOpen
  PROVE  SweepInv'
<1>1. \A d \in Deletions : /\ row[d].started => row'[d].started
                           /\ row[d].state # "none" => row'[d].state # "none"
                           /\ row'[d].state = "purged" => row[d].state = "purged"
                           /\ row'[d].started => row[d].started
  BY RowsKeepTheirType DEF Pending, NoRow
<1>2. \A k : AnsweredFor(k) => AnsweredFor(k)'
  BY <1>1, AnswersStay
<1>3. RunsAreSound'
  <2> SUFFICES ASSUME NEW w \in Sweepers, run[w] # Resting
               PROVE  /\ run[w].of[1] \in attested'
                      /\ row'[run[w].of].state # "none"
                      /\ run[w].phase = "finalizing" => Key(w) \notin stored'
                      /\ run[w].phase = "refused" => Key(w) \in locked
                      /\ run[w].phase = "waiting" => AnsweredFor(Key(w))'
    BY DEF RunsAreSound, Key
  <2>1. run[w].of \in Deletions
    BY DEF DeletionTypeOK
  <2> QED BY <1>1, <1>2, <2>1 DEF SweepInv, RunsAreSound, Key
<1>4. LateIsAnsweredFor'
  BY <1>2 DEF SweepInv, LateIsAnsweredFor
<1>5. HoldsFindNoRemoval'
  <2>1. RemovalIsOpen' => RemovalIsOpen
    BY DEF RemovalIsOpen, Pending, NoRow
  <2> QED BY <2>1 DEF SweepInv, HoldsFindNoRemoval
<1>6. RecordsAreSound'
  BY <1>1, DeletionShape DEF SweepInv, RecordsAreSound
<1>7. PurgedIsGone'
  BY <1>1 DEF SweepInv, PurgedIsGone, RecordsAreSound
<1> QED BY <1>3, <1>4, <1>5, <1>6, <1>7 DEF SweepInv

(* A recorded object of an attested source, once gone, is not written again. *)
LEMMA RecordedStaysGone ==
  ASSUME DeletionTypeOK, QuietInv, MadeOnce, Produce, NEW d \in Deletions,
         d[1] \in attested, row[d].state # "none", d[2] \notin stored
  PROVE  d[2] \notin stored'
<1> SUFFICES ASSUME d[2] \in stored' PROVE FALSE
  OBVIOUS
<1>1. PICK s \in Sources : d[2] = Raw(s) /\ producer[s] = "importing"
  BY NewIsMade DEF MadeOnce
<1>2. d[1] = s
  BY <1>1, DeletionShape, KeysDiffer DEF Own
<1> QED BY <1>1, <1>2 DEF QuietInv, AttestedIsQuiet, Quiet

LEMMA SweepProduce ==
  ASSUME DeletionTypeOK, QuietInv, MadeOnce, SweepInv, Produce
  PROVE  SweepInv'
<1>1. UNCHANGED <<run, locked, late, attested, request, row, hold>>
  BY DEF Produce, Import, StoreSource, AbandonImport, Disarm, Lapse, StartCompile, EndCompile,
     deletionVars, storeVars
<1>2. /\ UNCHANGED <<run, locked>> /\ late' \subseteq late /\ attested \subseteq attested'
      /\ hold' # "inactive" => hold # "inactive" \/ ~RemovalIsOpen
      /\ \A q \in Sources : request[q] # "none" => request'[q] # "none"
  BY <1>1
<1>3. \A d \in Deletions :
         /\ \/ row'[d] = row[d]
            \/ row[d].state = "none" /\ row'[d] = Pending /\ request'[d[1]] # "none"
         /\ d[1] \in attested /\ row[d].state # "none" /\ d[2] \notin stored => d[2] \notin stored'
  BY <1>1, RecordedStaysGone
<1> QED BY <1>2, <1>3, SweepFrame

LEMMA SweepHolds ==
  ASSUME DeletionTypeOK, SweepInv, PlaceHold \/ ReleaseHold \/ LoseSight \/ WritePolicy
  PROVE  SweepInv'
<1>1. UNCHANGED <<run, locked, late, attested, request, row, stored>>
  BY DEF PlaceHold, ReleaseHold, LoseSight, WritePolicy, deletionVars, storeVars
<1>2. hold' # "inactive" => ~RemovalIsOpen
  BY DEF PlaceHold, ReleaseHold, LoseSight, WritePolicy
<1>3. /\ UNCHANGED <<run, locked>> /\ late' \subseteq late /\ attested \subseteq attested'
      /\ hold' # "inactive" => hold # "inactive" \/ ~RemovalIsOpen
      /\ \A q \in Sources : request[q] # "none" => request'[q] # "none"
  BY <1>1, <1>2
<1>4. \A d \in Deletions :
         /\ \/ row'[d] = row[d]
            \/ row[d].state = "none" /\ row'[d] = Pending /\ request'[d[1]] # "none"
         /\ d[1] \in attested /\ row[d].state # "none" /\ d[2] \notin stored => d[2] \notin stored'
  BY <1>1
<1> QED BY <1>3, <1>4, SweepFrame

LEMMA SweepRequests ==
  ASSUME DeletionTypeOK, SweepInv, NEW s \in Sources, Request(s) \/ BecomeEligible(s)
  PROVE  SweepInv'
<1>1. UNCHANGED <<run, locked, late, attested, hold, stored>>
  BY DEF Request, BecomeEligible, storeVars
<1>2. /\ \A q \in Sources : request[q] # "none" => request'[q] # "none"
      /\ request'[s] # "none"
  BY DEF Request, BecomeEligible, DeletionTypeOK
<1>3. <<s, Raw(s)>>[1] = s /\ <<s, Raw(s)>> \in Deletions
  BY DeletionOf DEF Own
<1>4. ASSUME NEW d \in Deletions, row'[d] # row[d]
      PROVE  row[d].state = "none" /\ row'[d] = Pending /\ d[1] = s
  <2>1. Request(s) /\ d = <<s, Raw(s)>> /\ row'[d] = Pending
    BY <1>4 DEF Request, BecomeEligible, DeletionTypeOK
  <2>2. request[s] = "none"
    BY <2>1 DEF Request
  <2> QED BY <1>3, <2>1, <2>2 DEF SweepInv, RecordsAreSound
<1>5. /\ UNCHANGED <<run, locked>> /\ late' \subseteq late /\ attested \subseteq attested'
      /\ hold' # "inactive" => hold # "inactive" \/ ~RemovalIsOpen
      /\ \A q \in Sources : request[q] # "none" => request'[q] # "none"
  BY <1>1, <1>2
<1>6. \A d \in Deletions :
         /\ \/ row'[d] = row[d]
            \/ row[d].state = "none" /\ row'[d] = Pending /\ request'[d[1]] # "none"
         /\ d[1] \in attested /\ row[d].state # "none" /\ d[2] \notin stored => d[2] \notin stored'
  BY <1>1, <1>2, <1>4
<1> QED BY <1>5, <1>6, SweepFrame

LEMMA SweepInventory ==
  ASSUME DeletionTypeOK, QuietInv, SweepInv, TakeInventory
  PROVE  SweepInv'
<1>1. UNCHANGED <<run, locked, late, request, hold, stored>>
  BY DEF TakeInventory, TakeCandidate, List, Attest, deletionVars, producerVars, storeVars
<1>2. attested \subseteq attested'
  BY DEF TakeInventory, TakeCandidate, List, Attest, deletionVars
<1>3. ASSUME NEW d \in Deletions, row'[d] # row[d]
      PROVE  row[d].state = "none" /\ row'[d] = Pending /\ request[d[1]] # "none"
  <2>1. Attest
    BY <1>3 DEF TakeInventory, TakeCandidate, List, deletionVars
  <2>2. Quiet(inventory.source)
    BY <2>1, InventoryKnown DEF Attest, QuietInv, InventoryIsQuiet
  <2> QED BY <1>3, <2>1, <2>2 DEF Attest, Quiet
<1>4. /\ UNCHANGED <<run, locked>> /\ late' \subseteq late /\ attested \subseteq attested'
      /\ hold' # "inactive" => hold # "inactive" \/ ~RemovalIsOpen
      /\ \A q \in Sources : request[q] # "none" => request'[q] # "none"
  BY <1>1, <1>2
<1>5. \A d \in Deletions :
         /\ \/ row'[d] = row[d]
            \/ row[d].state = "none" /\ row'[d] = Pending /\ request'[d[1]] # "none"
         /\ d[1] \in attested /\ row[d].state # "none" /\ d[2] \notin stored => d[2] \notin stored'
  BY <1>1, <1>3
<1> QED BY <1>4, <1>5, SweepFrame

LEMMA SweepClaim ==
  ASSUME DeletionTypeOK, SweepInv, NEW w \in Sweepers, NEW d \in Deletions, Claim(w, d)
  PROVE  SweepInv'
<1>1. /\ UNCHANGED <<hold, request, attested, stored, locked, late>>
      /\ row' = [row EXCEPT ![d].live = TRUE]
      /\ d[1] \in attested /\ row[d].state = "pending" /\ hold = "inactive"
  BY DEF Claim, Claimable, storeVars
<1>2. row[d] \in [state : {"pending"}, live : BOOLEAN, started : BOOLEAN, due : BOOLEAN]
  BY <1>1, RowsKeepTheirType
<1>3. \A e \in Deletions : row'[e].state = row[e].state /\ row'[e].started = row[e].started
  BY <1>1, <1>2 DEF DeletionTypeOK
<1>4. \A k : AnsweredFor(k) => AnsweredFor(k)'
  BY <1>1, <1>3, AnswersStay
<1>5. RunsAreSound'
  <2> SUFFICES ASSUME NEW v \in Sweepers, run'[v] # Resting
               PROVE  /\ run'[v].of[1] \in attested
                      /\ row'[run'[v].of].state # "none"
                      /\ run'[v].phase = "finalizing" => run'[v].of[2] \notin stored
                      /\ run'[v].phase = "refused" => run'[v].of[2] \in locked
                      /\ run'[v].phase = "waiting" => \A k : k = run'[v].of[2] => AnsweredFor(k)'
    BY <1>1 DEF RunsAreSound, Key, AnsweredFor
  <2>1. CASE v = w
    <3>1. run'[v] = [phase |-> "inspecting", of |-> d, exists |-> FALSE, claims |-> TRUE]
      BY <2>1 DEF Claim, DeletionTypeOK
    <3> QED BY <1>1, <1>3, <3>1
  <2>2. CASE v # w
    <3>1. run[v] # Resting
      BY <2>2 DEF Claim, DeletionTypeOK
    <3>2. run[v] \in [phase : {"inspecting", "beginning", "waiting", "verifying", "finalizing",
                               "refused"},
                      of : Deletions, exists : BOOLEAN, claims : BOOLEAN]
      BY <3>1 DEF DeletionTypeOK
    <3>3. run'[v] \in {run[v], [run[v] EXCEPT !.claims = FALSE]}
      BY <2>2 DEF Claim, DeletionTypeOK
    <3>4. run'[v].of = run[v].of /\ run'[v].phase = run[v].phase
      BY <3>2, <3>3
    <3> QED BY <1>3, <1>4, <3>1, <3>2, <3>4 DEF SweepInv, RunsAreSound, Key
  <2> QED BY <2>1, <2>2
<1>6. LateIsAnsweredFor'
  BY <1>1, <1>4 DEF SweepInv, LateIsAnsweredFor
<1>7. HoldsFindNoRemoval'
  BY <1>1 DEF HoldsFindNoRemoval
<1>8. RecordsAreSound' /\ PurgedIsGone'
  BY <1>1, <1>3 DEF SweepInv, RecordsAreSound, PurgedIsGone
<1> QED BY <1>5, <1>6, <1>7, <1>8 DEF SweepInv

LEMMA SweepExpiry ==
  ASSUME DeletionTypeOK, SweepInv, NEW d \in Deletions, Expire(d) \/ FallDue(d)
  PROVE  SweepInv'
<1>1. /\ UNCHANGED <<hold, request, attested, stored, locked, late, run>>
      /\ \/ row' = [row EXCEPT ![d].live = FALSE]
         \/ row' = [row EXCEPT ![d].due = TRUE]
      /\ row[d].live \/ ~row[d].due
  BY DEF Expire, FallDue, storeVars
<1>2. row[d] \in [state : {"pending"}, live : BOOLEAN, started : BOOLEAN, due : BOOLEAN]
  BY <1>1, RowsKeepTheirType
<1>3. \A e \in Deletions : /\ row'[e].state = row[e].state /\ row'[e].started = row[e].started
                           /\ row'[e].live => row[e].live
  BY <1>1, <1>2 DEF DeletionTypeOK
<1>4. \A k : AnsweredFor(k) => AnsweredFor(k)'
  BY <1>1, <1>3, AnswersStay
<1>5. RunsAreSound'
  <2> SUFFICES ASSUME NEW v \in Sweepers, run[v] # Resting
               PROVE  /\ run[v].of[1] \in attested
                      /\ row'[run[v].of].state # "none"
                      /\ run[v].phase = "finalizing" => Key(v) \notin stored
                      /\ run[v].phase = "refused" => Key(v) \in locked
                      /\ run[v].phase = "waiting" => \A k : k = run[v].of[2] => AnsweredFor(k)'
    BY <1>1 DEF RunsAreSound, Key, AnsweredFor
  <2>1. run[v].of \in Deletions
    BY DEF DeletionTypeOK
  <2> QED BY <1>3, <1>4, <2>1 DEF SweepInv, RunsAreSound, Key
<1>6. LateIsAnsweredFor'
  BY <1>1, <1>4 DEF SweepInv, LateIsAnsweredFor
<1>7. HoldsFindNoRemoval'
  BY <1>1, <1>3 DEF SweepInv, HoldsFindNoRemoval, RemovalIsOpen
<1>8. RecordsAreSound' /\ PurgedIsGone'
  BY <1>1, <1>3 DEF SweepInv, RecordsAreSound, PurgedIsGone
<1> QED BY <1>5, <1>6, <1>7, <1>8 DEF SweepInv

(* One sweeper moves, and with it the record of its object at most.          *)
LEMMA SweepMoves ==
  ASSUME DeletionTypeOK, SweepInv, NEW w \in Sweepers, run[w] # Resting,
         NEW next, run' = [run EXCEPT ![w] = next],
         next = Resting \/ next.of = run[w].of,
         next # Resting => /\ next.phase = "finalizing" => Key(w) \notin stored'
                           /\ next.phase = "refused" => Key(w) \in locked
                           /\ next.phase = "waiting" => \A k : k = run[w].of[2] => AnsweredFor(k)',
         UNCHANGED <<request, attested, locked>>, stored' \subseteq stored,
         hold' # "inactive" => ~RemovalIsOpen',
         \A k \in late' \ late : AnsweredFor(k),
         \A d \in Deletions :
           \/ row'[d] = row[d]
           \/ /\ d = run[w].of
              /\ row[d].state # "none" => row'[d].state # "none"
              /\ row'[d].started \/ d[2] \in locked
              /\ row'[d].state = "purged" => row[d].state = "purged" \/ Key(w) \notin stored
  PROVE  SweepInv'
<1>1. run[w].of \in Deletions /\ run[w].of[1] \in attested /\ row[run[w].of].state # "none"
  BY DEF DeletionTypeOK, SweepInv, RunsAreSound
<1>2. \A d \in Deletions : row[d].state # "none" => row'[d].state # "none"
  OBVIOUS
<1>3. \A k : AnsweredFor(k) => AnsweredFor(k)'
  BY AnswersStay
<1>4. RunsAreSound'
  <2> SUFFICES ASSUME NEW v \in Sweepers, run'[v] # Resting
               PROVE  /\ run'[v].of[1] \in attested
                      /\ row'[run'[v].of].state # "none"
                      /\ run'[v].phase = "finalizing" => run'[v].of[2] \notin stored'
                      /\ run'[v].phase = "refused" => run'[v].of[2] \in locked
                      /\ run'[v].phase = "waiting" => \A k : k = run'[v].of[2] => AnsweredFor(k)'
    BY DEF RunsAreSound, Key, AnsweredFor
  <2>1. CASE v = w
    <3>1. run'[v] = next
      BY <2>1 DEF DeletionTypeOK
    <3> QED BY <1>1, <1>2, <3>1 DEF Key
  <2>2. CASE v # w
    <3>1. run'[v] = run[v] /\ run[v] # Resting
      BY <2>2 DEF DeletionTypeOK
    <3>2. run[v].of \in Deletions
      BY <3>1 DEF DeletionTypeOK
    <3> QED BY <1>2, <1>3, <3>1, <3>2 DEF SweepInv, RunsAreSound, Key
  <2> QED BY <2>1, <2>2
<1>5. LateIsAnsweredFor'
  BY <1>3 DEF SweepInv, LateIsAnsweredFor
<1>6. HoldsFindNoRemoval'
  BY DEF HoldsFindNoRemoval
<1>7. RecordsAreSound'
  BY <1>1 DEF SweepInv, RecordsAreSound
<1>8. PurgedIsGone'
  BY DEF SweepInv, PurgedIsGone, Key
<1> QED BY <1>4, <1>5, <1>6, <1>7, <1>8 DEF SweepInv

LEMMA SweepWork ==
  ASSUME DeletionTypeOK, SweepInv, NEW w \in Sweepers, Work(w)
  PROVE  SweepInv'
<1> DEFINE d == run[w].of
<1>1. UNCHANGED <<request, attested, locked, hold>>
  BY DEF Work, Inspect, Begin, Answer, Verify, Finalize, RecordRefusal, Stop, deletionVars,
     storeVars
<1>2. /\ run[w] # Resting
      /\ run[w] \in [phase : {"inspecting", "beginning", "waiting", "verifying", "finalizing",
                              "refused"},
                     of : Deletions, exists : BOOLEAN, claims : BOOLEAN]
      /\ d \in Deletions /\ Key(w) = d[2]
  <2>1. run[w] # Resting
    BY DEF Work, Inspect, Begin, Answer, Verify, Finalize, RecordRefusal, Stop, Working, Resting
  <2> QED BY <2>1 DEF DeletionTypeOK, Key
<1>3. /\ hold # "inactive" => ~RemovalIsOpen
      /\ row[d].state # "none"
      /\ run[w].phase = "finalizing" => Key(w) \notin stored
      /\ run[w].phase = "refused" => Key(w) \in locked
      /\ run[w].phase = "waiting" => AnsweredFor(Key(w))
  BY <1>2 DEF SweepInv, RunsAreSound, HoldsFindNoRemoval
<1>4. CASE Inspect(w) \/ Verify(w)
  <2>1. PICK next : /\ run' = [run EXCEPT ![w] = next]
                    /\ next = Resting \/ next.of = run[w].of
                    /\ next # Resting => /\ next.phase = "finalizing" => Key(w) \notin stored
                                         /\ next.phase \notin {"refused", "waiting"}
    <3>1. CASE Inspect(w)
      <4> DEFINE next == [run[w] EXCEPT !.phase = "beginning", !.exists = Key(w) \in stored]
      <4>1. run' = [run EXCEPT ![w] = next]
        BY <3>1 DEF Inspect
      <4>2. next.of = run[w].of /\ next.phase = "beginning"
        BY <1>2
      <4> HIDE DEF next
      <4> QED BY <4>1, <4>2
    <3>2. CASE Verify(w)
      BY <1>2, <3>2 DEF Verify, GoOn, Rest
    <3> QED BY <1>4, <3>1, <3>2
  <2>2. UNCHANGED <<row, stored, late, hold>>
    BY <1>4 DEF Inspect, Verify, deletionVars, storeVars
  <2>3. RemovalIsOpen' => RemovalIsOpen
    BY <2>2 DEF RemovalIsOpen
  <2> QED BY <1>1, <1>2, <1>3, <2>1, <2>2, <2>3, SweepMoves
<1>5. CASE Begin(w)
  <2>1. UNCHANGED <<stored, late>>
    BY <1>5 DEF Begin, storeVars
  <2>2. CASE row[d].state = "pending" /\ hold = "inactive"
             /\ row' = [row EXCEPT ![d].started = TRUE]
    <3>1. row'[d].started /\ row'[d].state = "pending" /\ \A e \in Deletions : e # d => row'[e] = row[e]
      BY <1>2, <2>2, RowsKeepTheirType DEF DeletionTypeOK
    <3>2. \A k : k = d[2] => AnsweredFor(k)'
      BY <1>2, <3>1 DEF AnsweredFor
    <3>3. PICK next : /\ run' = [run EXCEPT ![w] = next]
                      /\ next = Resting \/ next.of = run[w].of
                      /\ next # Resting => next.phase \in {"waiting", "verifying"}
      BY <1>2, <1>5 DEF Begin, GoOn, Rest
    <3> QED BY <1>1, <1>2, <2>1, <2>2, <3>1, <3>2, <3>3, SweepMoves
  <2>3. CASE row' = row /\ (row[d].state = "purged" \/ Rest(w))
    <3>1. PICK next : /\ run' = [run EXCEPT ![w] = next]
                      /\ next = Resting \/ next.of = run[w].of
                      /\ next # Resting => /\ next.phase \in {"waiting", "verifying"}
                                           /\ row[d].state = "purged"
      BY <1>2, <1>5, <2>3 DEF Begin, GoOn, Rest
    <3>2. row[d].state = "purged" => \A k : k = d[2] => AnsweredFor(k)'
      BY <1>2, <2>3, RowsKeepTheirType DEF AnsweredFor, Purged, NoRow
    <3>3. RemovalIsOpen' => RemovalIsOpen
      BY <2>3 DEF RemovalIsOpen
    <3> QED BY <1>1, <1>2, <1>3, <2>1, <2>3, <3>1, <3>2, <3>3, SweepMoves
  <2> QED BY <1>5, <2>2, <2>3 DEF Begin
<1>6. CASE Answer(w)
  <2>1. UNCHANGED <<row, late>> /\ stored' \subseteq stored
    BY <1>6 DEF Answer, deletionVars
  <2>2. PICK next : /\ run' = [run EXCEPT ![w] = next]
                    /\ next = Resting \/ next.of = run[w].of
                    /\ next # Resting => /\ next.phase \in {"refused", "verifying"}
                                         /\ next.phase = "refused" => Key(w) \in locked
    BY <1>2, <1>6 DEF Answer, GoOn
  <2>3. RemovalIsOpen' => RemovalIsOpen
    BY <2>1 DEF RemovalIsOpen
  <2> QED BY <1>1, <1>2, <1>3, <2>1, <2>2, <2>3, SweepMoves
<1>7. CASE Finalize(w) \/ RecordRefusal(w)
  <2>1. UNCHANGED <<stored, late>> /\ run' = [run EXCEPT ![w] = Resting]
    BY <1>7 DEF Finalize, RecordRefusal, storeVars, Rest
  <2>2. \/ row' = row
        \/ row' = [row EXCEPT ![d] = Purged] /\ Key(w) \notin stored
        \/ row' = [row EXCEPT ![d] = [Pending EXCEPT !.due = FALSE]] /\ Key(w) \in locked
    BY <1>3, <1>7 DEF Finalize, RecordRefusal
  <2>3. /\ Purged.started /\ Purged.state = "purged"
        /\ [Pending EXCEPT !.due = FALSE].state = "pending"
        /\ ~[Pending EXCEPT !.due = FALSE].started /\ ~[Pending EXCEPT !.due = FALSE].live
    BY DEF Pending, Purged, NoRow
  <2>4. \A e \in Deletions :
           \/ row'[e] = row[e]
           \/ /\ e = run[w].of
              /\ row[e].state # "none" => row'[e].state # "none"
              /\ row'[e].started \/ e[2] \in locked
              /\ row'[e].state = "purged" => row[e].state = "purged" \/ Key(w) \notin stored
    <3> SUFFICES ASSUME NEW e \in Deletions, row'[e] # row[e]
                 PROVE  /\ e = run[w].of
                        /\ row[e].state # "none" => row'[e].state # "none"
                        /\ row'[e].started \/ e[2] \in locked
                        /\ row'[e].state = "purged" => row[e].state = "purged" \/ Key(w) \notin stored
      BY Zenon
    <3>1. /\ e = d
          /\ \/ row'[e] = Purged /\ Key(w) \notin stored
             \/ row'[e] = [Pending EXCEPT !.due = FALSE] /\ Key(w) \in locked
      BY <1>2, <2>2 DEF DeletionTypeOK
    <3> QED BY <1>2, <2>3, <3>1
  <2>5. RemovalIsOpen' => RemovalIsOpen
    BY <1>2, <2>2, <2>3 DEF RemovalIsOpen, DeletionTypeOK
  <2> QED BY <1>1, <1>2, <1>3, <2>1, <2>4, <2>5, SweepMoves
<1>8. CASE Stop(w)
  <2>1. UNCHANGED <<row, stored>> /\ run' = [run EXCEPT ![w] = Resting]
    BY <1>8 DEF Stop, deletionVars, Rest
  <2>2. \A k \in late' \ late : AnsweredFor(k)
    BY <1>3, <1>8 DEF Stop
  <2>3. RemovalIsOpen' => RemovalIsOpen
    BY <2>1 DEF RemovalIsOpen
  <2> QED BY <1>1, <1>2, <1>3, <2>1, <2>2, <2>3, SweepMoves
<1> QED BY <1>4, <1>5, <1>6, <1>7, <1>8 DEF Work

LEMMA SweepStore ==
  ASSUME DeletionTypeOK, SweepInv, NEW k \in Keys, LandLate(k) \/ LockLapses(k)
  PROVE  SweepInv'
<1>1. /\ UNCHANGED <<hold, request, attested, row, run>>
      /\ stored' \subseteq stored /\ late' \subseteq late
  BY DEF LandLate, LockLapses, deletionVars
<1>2. \A x : AnsweredFor(x) /\ (x = k => ~LockLapses(k)) => AnsweredFor(x)'
  BY <1>1 DEF AnsweredFor, LandLate, LockLapses
<1>3. LockLapses(k) => k \notin late /\ \A w \in Sweepers : run[w] # Resting => Key(w) # k
  BY DEF LockLapses, Working
<1>4. RunsAreSound'
  <2> SUFFICES ASSUME NEW v \in Sweepers, run[v] # Resting
               PROVE  /\ run[v].of[1] \in attested
                      /\ row[run[v].of].state # "none"
                      /\ run[v].phase = "finalizing" => Key(v) \notin stored'
                      /\ run[v].phase = "refused" => Key(v) \in locked'
                      /\ run[v].phase = "waiting" => \A x : x = run[v].of[2] => AnsweredFor(x)'
    BY <1>1 DEF RunsAreSound, Key, AnsweredFor
  <2>1. Key(v) \in locked => Key(v) \in locked'
    BY <1>3 DEF LandLate, LockLapses
  <2> QED BY <1>1, <1>2, <1>3, <2>1 DEF SweepInv, RunsAreSound, Key
<1>5. LateIsAnsweredFor'
  BY <1>1, <1>2, <1>3 DEF SweepInv, LateIsAnsweredFor
<1>6. HoldsFindNoRemoval' /\ RecordsAreSound' /\ PurgedIsGone'
  BY <1>1 DEF SweepInv, HoldsFindNoRemoval, RemovalIsOpen, RecordsAreSound, PurgedIsGone
<1> QED BY <1>4, <1>5, <1>6 DEF SweepInv

-----------------------------------------------------------------------------
(* An inventory that was complete stays complete.                            *)
LEMMA RecordsStay ==
  ASSUME DeletionTypeOK, Next, NEW d \in Deletions, row[d].state # "none"
  PROVE  row'[d].state # "none"
<1>1. Pending.state = "pending" /\ Purged.state = "purged"
      /\ [Pending EXCEPT !.due = FALSE].state = "pending"
  BY DEF Pending, Purged, NoRow
<1>2. \A e \in Deletions : /\ [row[e] EXCEPT !.live = TRUE].state = row[e].state
                           /\ [row[e] EXCEPT !.live = FALSE].state = row[e].state
                           /\ [row[e] EXCEPT !.due = TRUE].state = row[e].state
                           /\ [row[e] EXCEPT !.started = TRUE].state = row[e].state
  <2> SUFFICES ASSUME NEW e \in Deletions
               PROVE  /\ [row[e] EXCEPT !.live = TRUE].state = row[e].state
                      /\ [row[e] EXCEPT !.live = FALSE].state = row[e].state
                      /\ [row[e] EXCEPT !.due = TRUE].state = row[e].state
                      /\ [row[e] EXCEPT !.started = TRUE].state = row[e].state
    OBVIOUS
  <2>1. \/ row[e] = NoRow \/ row[e] = Purged
        \/ row[e] \in [state : {"pending"}, live : BOOLEAN, started : BOOLEAN, due : BOOLEAN]
    BY DEF DeletionTypeOK
  <2> QED BY <2>1 DEF NoRow, Purged
<1>3. row \in [Deletions -> {NoRow, Purged} \union
        [state : {"pending"}, live : BOOLEAN, started : BOOLEAN, due : BOOLEAN]]
  BY DEF DeletionTypeOK
<1>4. ASSUME NEW s \in Sources, Request(s) \/ BecomeEligible(s) PROVE row'[d].state # "none"
  BY <1>1, <1>3, <1>4 DEF Request, BecomeEligible
<1>5. ASSUME TakeInventory PROVE row'[d].state # "none"
  BY <1>1, <1>3, <1>5 DEF TakeInventory, TakeCandidate, List, Attest, deletionVars
<1>6. ASSUME NEW e \in Deletions, (\E w \in Sweepers : Claim(w, e)) \/ Expire(e) \/ FallDue(e)
      PROVE  row'[d].state # "none"
  BY <1>2, <1>3, <1>6 DEF Claim, Expire, FallDue
<1>7. ASSUME NEW w \in Sweepers, Work(w) PROVE row'[d].state # "none"
  <2> DEFINE e == run[w].of
  <2>1. \/ row' = row
        \/ row' = [row EXCEPT ![e] = [row[e] EXCEPT !.started = TRUE]]
        \/ row' = [row EXCEPT ![e] = Purged]
        \/ row' = [row EXCEPT ![e] = [Pending EXCEPT !.due = FALSE]]
    BY <1>7 DEF Work, Inspect, Begin, Answer, Verify, Finalize, RecordRefusal, Stop, deletionVars
  <2> HIDE DEF e
  <2>2. CASE e = d
    BY <1>1, <1>2, <1>3, <2>1, <2>2
  <2>3. CASE e # d
    BY <1>3, <2>1, <2>3
  <2> QED BY <2>2, <2>3
<1>8. ASSUME \/ Produce \/ PlaceHold \/ ReleaseHold \/ LoseSight \/ WritePolicy
             \/ \E k \in Keys : LandLate(k) \/ LockLapses(k)
      PROVE  row' = row
  BY <1>8 DEF Produce, Import, StoreSource, AbandonImport, Disarm, Lapse, StartCompile,
     EndCompile, PlaceHold, ReleaseHold, LoseSight, WritePolicy, LandLate, LockLapses, deletionVars
<1> QED BY <1>4, <1>5, <1>6, <1>7, <1>8 DEF Next

LEMMA CompleteInit == Init => AttestedIsComplete
BY DEF Init, AttestedIsComplete

LEMMA CompleteStep ==
  ASSUME DeletionTypeOK, QuietInv, AttestedIsComplete, Next
  PROVE  AttestedIsComplete'
<1>1. CASE Produce
  <2>1. UNCHANGED <<attested, row>> /\ lapsed \subseteq lapsed'
    BY <1>1 DEF Produce, Import, StoreSource, AbandonImport, Disarm, Lapse, StartCompile,
       EndCompile, deletionVars
  <2>2. \A s \in attested \ lapsed' :
          /\ Affected(s)' = Affected(s)
          /\ stored' \intersect (Own(s) \union Affected(s)) \subseteq
               stored \intersect (Own(s) \union Affected(s))
    BY <1>1, QuietKeepsListing DEF QuietInv, AttestedIsQuiet, DeletionTypeOK
  <2> QED BY <2>1, <2>2 DEF AttestedIsComplete
<1>2. CASE Attest
  <2>1. UNCHANGED <<stored, compile, lapsed>>
    BY <1>2 DEF Attest, producerVars, storeVars
  <2> DEFINE s == inventory.source
  <2>2. /\ s \in Sources /\ inventory # Resting /\ inventory.phase = "sealing"
        /\ inventory.found \subseteq Keys
    BY <1>2, InventoryKnown DEF Attest
  <2>3. CASE ~Seals(s)
    BY <1>2, <2>1, <2>3 DEF Attest, AttestedIsComplete, Affected
  <2>4. CASE Seals(s)
    <3>1. /\ attested' = attested \union {s}
          /\ row' = [d \in Deletions |->
                       IF d[1] = s /\ d[2] \in inventory.found /\ row[d].state = "none"
                         THEN Pending ELSE row[d]]
      BY <1>2, <2>4 DEF Attest
    <3>2. s \notin lapsed => Listed(s, Affected(s)) \subseteq inventory.found
      BY <2>2, <2>4 DEF QuietInv, InventoryIsQuiet, Seals
    <3> SUFFICES ASSUME NEW q \in attested' \ lapsed,
                        NEW k \in stored \intersect (Own(q) \union Affected(q))
                 PROVE  row'[<<q, k>>].state # "none"
      BY <2>1 DEF AttestedIsComplete, Affected
    <3>3. q \in Sources /\ <<q, k>> \in Deletions
      BY <2>2, <3>1, DeletionOf DEF DeletionTypeOK, Affected
    <3>4. CASE q \in attested
      BY <1>2, <3>3, <3>4, RecordsStay DEF AttestedIsComplete
    <3>5. CASE q = s
      <4>1. k \in inventory.found
        BY <3>2, <3>5 DEF Listed
      <4>2. <<q, k>>[1] = s /\ <<q, k>>[2] = k
        BY <3>5
      <4>3. Pending.state = "pending"
        BY DEF Pending, NoRow
      <4> QED BY <3>1, <3>3, <4>1, <4>2, <4>3
    <3> QED BY <3>1, <3>4, <3>5
  <2> QED BY <2>3, <2>4
<1>3. CASE ~Produce /\ ~Attest
  <2>1. stored' \subseteq stored /\ UNCHANGED <<attested, compile, lapsed>>
    BY <1>3 DEF Next, PlaceHold, ReleaseHold, LoseSight, WritePolicy, Request, BecomeEligible,
       TakeInventory, TakeCandidate, List, Claim, Work, Inspect, Begin, Answer, Verify,
       Finalize, RecordRefusal, Stop, Expire, FallDue, LandLate, LockLapses,
       deletionVars, producerVars, storeVars
  <2>2. \A s \in attested : \A k \in Own(s) \union Affected(s) : <<s, k>> \in Deletions
    BY DeletionOf DEF DeletionTypeOK, Affected
  <2> QED BY <2>1, <2>2, RecordsStay DEF AttestedIsComplete, Affected
<1> QED BY <1>1, <1>2, <1>3

-----------------------------------------------------------------------------
LEMMA DeletionInit == Init => DeletionInv
BY TypesInit, QuietInit, MadeInit, SweepInit, CompleteInit DEF DeletionInv

LEMMA DeletionStep ==
  ASSUME DeletionInv, Next
  PROVE  DeletionInv'
<1> USE DEF DeletionInv
<1>0. AttestedIsComplete'
  BY CompleteStep
<1>1. CASE Produce
  BY <1>0, <1>1, ProduceKeepsTypes, QuietProduce, MadeProduce, SweepProduce
<1>2. CASE PlaceHold \/ ReleaseHold \/ LoseSight \/ WritePolicy
  <2>1. UNCHANGED <<connected, request, producer, lapsed, compile, attested, inventory, stored, row>>
    BY <1>2 DEF PlaceHold, ReleaseHold, LoseSight, WritePolicy, deletionVars, producerVars, storeVars
  <2> QED BY <1>0, <1>2, <2>1, HoldsKeepTypes, QuietFrame, MadeFrame, SweepHolds
<1>3. ASSUME NEW s \in Sources, Request(s) \/ BecomeEligible(s) PROVE DeletionInv'
  BY <1>0, <1>3, RequestsKeepTypes, QuietRequests, MadeRequests, SweepRequests
<1>4. CASE TakeInventory
  BY <1>0, <1>4, InventoryKeepsTypes, QuietInventory, MadeInventory, SweepInventory
<1>5. ASSUME NEW d \in Deletions, (\E w \in Sweepers : Claim(w, d)) \/ Expire(d) \/ FallDue(d)
      PROVE  DeletionInv'
  <2>1. UNCHANGED <<connected, request, producer, lapsed, compile, attested, inventory, stored>>
    BY <1>5 DEF Claim, Expire, FallDue, producerVars, storeVars
  <2>2. row[d].state # "none"
    BY <1>5, RowsKeepTheirType DEF Claim, Claimable, Expire, FallDue
  <2>3. \A e \in Deletions : row'[e].state # "none" => row[e].state # "none" \/ Made(e[2])
    <3>1. \A e \in Deletions : e # d => row'[e] = row[e]
      BY <1>5 DEF Claim, Expire, FallDue, DeletionTypeOK
    <3> QED BY <2>2, <3>1
  <2>4. QuietInv' /\ MadeOnce'
    BY <2>1, <2>3, QuietFrame, MadeFrame
  <2> QED BY <1>0, <1>5, <2>4, ClaimsKeepTypes, SweepClaim, SweepExpiry
<1>6. ASSUME NEW w \in Sweepers, Work(w) PROVE DeletionInv'
  <2>1. /\ UNCHANGED <<connected, request, producer, lapsed, compile, attested, inventory>>
        /\ stored' \subseteq stored
    BY <1>6 DEF Work, Inspect, Begin, Answer, Verify, Finalize, RecordRefusal, Stop,
       deletionVars, producerVars, storeVars
  <2>2. run[w].of \in Deletions /\ row[run[w].of].state # "none"
    <3>1. run[w] # Resting
      BY <1>6 DEF Work, Inspect, Begin, Answer, Verify, Finalize, RecordRefusal, Stop, Working,
         Resting
    <3> QED BY <3>1 DEF DeletionTypeOK, SweepInv, RunsAreSound
  <2>3. \A e \in Deletions : row'[e].state # "none" => row[e].state # "none" \/ Made(e[2])
    <3>1. \A e \in Deletions : e # run[w].of => row'[e] = row[e]
      BY <1>6 DEF Work, Inspect, Begin, Answer, Verify, Finalize, RecordRefusal, Stop,
         deletionVars, DeletionTypeOK
    <3> QED BY <2>2, <3>1
  <2>4. QuietInv' /\ MadeOnce'
    BY <2>1, <2>3, QuietFrame, MadeFrame
  <2> QED BY <1>0, <1>6, <2>4, WorkKeepsTypes, SweepWork
<1>7. ASSUME NEW k \in Keys, LandLate(k) \/ LockLapses(k) PROVE DeletionInv'
  <2>1. /\ UNCHANGED <<connected, request, producer, lapsed, compile, attested, inventory, row>>
        /\ stored' \subseteq stored
    BY <1>7 DEF LandLate, LockLapses, deletionVars, producerVars
  <2>2. QuietInv' /\ MadeOnce'
    BY <2>1, QuietFrame, MadeFrame
  <2> QED BY <1>0, <1>7, <2>2, StoreKeepsTypes, SweepStore
<1> QED BY <1>1, <1>2, <1>3, <1>4, <1>5, <1>6, <1>7 DEF Next

LEMMA DeletionStutter ==
  ASSUME DeletionInv, UNCHANGED vars
  PROVE  DeletionInv'
<1>1. UNCHANGED <<connected, hold, request, row, attested, producer, lapsed, compile, stored,
                  locked, late, inventory, run, holds, faults>>
  BY DEF vars, deletionVars, producerVars, storeVars
<1>2. DeletionTypeOK'
  BY <1>1 DEF DeletionInv, DeletionTypeOK
<1>3. QuietInv' /\ MadeOnce'
  BY <1>1, QuietFrame, MadeFrame DEF DeletionInv
<1>4. SweepInv'
  <2>1. \A k : AnsweredFor(k) => AnsweredFor(k)'
    BY <1>1 DEF AnsweredFor
  <2> QED BY <1>1, <2>1 DEF DeletionInv, SweepInv, RunsAreSound, LateIsAnsweredFor, AnsweredFor,
       HoldsFindNoRemoval, RemovalIsOpen, RecordsAreSound, PurgedIsGone, Key
<1>5. AttestedIsComplete'
  BY <1>1 DEF DeletionInv, AttestedIsComplete, Affected
<1> QED BY <1>2, <1>3, <1>4, <1>5 DEF DeletionInv

(* The inductive invariant, for any number of sources, sweepers, holds and   *)
(* faults.                                                                   *)
THEOREM DeletionInvariance == Spec => []DeletionInv
<1>1. DeletionInv /\ [Next]_vars => DeletionInv'
  BY DeletionStep, DeletionStutter
<1> QED BY DeletionInit, <1>1, PTL DEF Spec

(* The variables keep their types.                                           *)
THEOREM DeletionTypes == Spec => []DeletionTypeOK
<1>1. DeletionInv => DeletionTypeOK
  BY DEF DeletionInv
<1> QED BY DeletionInvariance, <1>1, PTL

(* A receipt of removal is true for ever, whoever produced the object and    *)
(* however the store answered.                                               *)
THEOREM PurgedStaysGone == Spec => []PurgedIsGone
<1>1. DeletionInv => PurgedIsGone
  BY DEF DeletionInv, SweepInv
<1> QED BY DeletionInvariance, <1>1, PTL

(* An attested inventory misses nothing that was made from the source.       *)
THEOREM AttestedMissesNothing == Spec => []AttestedIsComplete
<1>1. DeletionInv => AttestedIsComplete
  BY DEF DeletionInv
<1> QED BY DeletionInvariance, <1>1, PTL

(* While a hold is placed, or cannot be read, no removal lands: neither of a *)
(* sweeper that claimed its object before, nor one nobody waits for.         *)
THEOREM HeldObjectsAlwaysStay == Spec => HeldObjectsStay
<1>1. ASSUME DeletionInv, [Next]_vars, hold # "inactive"
      PROVE  stored \subseteq stored'
  <2>1. \A k : AnsweredFor(k) => k \in locked \/ k \notin stored
    <3> SUFFICES ASSUME NEW k, NEW d \in Deletions, d[2] = k, row[d].started
                 PROVE  k \notin stored
      BY DEF AnsweredFor
    <3>1. row[d].state \in {"pending", "purged"}
      BY <1>1, RowsKeepTheirType DEF DeletionInv
    <3>2. row[d].state # "pending"
      BY <1>1 DEF DeletionInv, SweepInv, HoldsFindNoRemoval, RemovalIsOpen
    <3> QED BY <1>1, <3>1, <3>2 DEF DeletionInv, SweepInv, PurgedIsGone
  <2>2. ASSUME NEW w \in Sweepers, Answer(w) PROVE stored \subseteq stored'
    <3>1. AnsweredFor(Key(w))
      BY <1>1, <2>2, RunKnown DEF Answer, DeletionInv, SweepInv, RunsAreSound
    <3> QED BY <2>1, <2>2, <3>1 DEF Answer
  <2>3. ASSUME NEW k \in Keys, LandLate(k) PROVE stored \subseteq stored'
    <3>1. AnsweredFor(k)
      BY <1>1, <2>3 DEF LandLate, DeletionInv, SweepInv, LateIsAnsweredFor
    <3> QED BY <2>1, <2>3, <3>1 DEF LandLate
  <2>4. \/ stored \subseteq stored'
        \/ \E w \in Sweepers : Answer(w)
        \/ \E k \in Keys : LandLate(k)
    <3>1. Produce => stored \subseteq stored'
      BY DEF Produce, Import, StoreSource, AbandonImport, Disarm, Lapse, StartCompile,
         EndCompile, storeVars
    <3> QED BY <1>1, <3>1 DEF vars, Next, PlaceHold, ReleaseHold, LoseSight, WritePolicy, Request,
         BecomeEligible, TakeInventory, TakeCandidate, List, Attest, Claim, Work, Inspect, Begin,
         Verify, Finalize, RecordRefusal, Stop, Expire, FallDue, LockLapses, storeVars
  <2> QED BY <2>2, <2>3, <2>4
<1>2. DeletionInv /\ [Next]_vars => (hold # "inactive" => stored \subseteq stored')
  BY <1>1
<1> QED BY DeletionInvariance, <1>2, PTL DEF Spec, HeldObjectsStay

-----------------------------------------------------------------------------
(* The deletion makes lawful removals only.                                  *)
LEMMA RemovalsStart ==
  ASSUME Init
  PROVE  Lawful!RemovalInit
<1>1. \A d \in Deletions : row[d].state = "none"
  BY DEF Init, NoRow
<1>2. locked \subseteq Keys
  BY TypesInit DEF DeletionTypeOK
<1> QED BY <1>1, <1>2 DEF Init, Lawful!RemovalInit, Asked, Open, Done

(* Nothing an auditor sees depends on claims and days.                       *)
LEMMA RecordsStand ==
  ASSUME attested' = attested,
         \A d \in Deletions : row'[d].state = row[d].state /\ row'[d].started = row[d].started
  PROVE  Asked' = Asked /\ Open' = Open /\ Done' = Done
BY DEF Asked, Open, Done

(* A new record is not asked for before its inventory is attested.           *)
LEMMA NewRecords ==
  ASSUME DeletionTypeOK, attested \subseteq attested',
         \A d \in Deletions :
           row'[d] = row[d] \/ (row[d].state = "none" /\ row'[d] = Pending)
  PROVE  /\ Asked \subseteq Asked' /\ Open' = Open /\ Done' = Done
         /\ attested' = attested
            /\ (\A d \in Deletions : row'[d] = row[d] \/ d[1] \notin attested) => Asked' = Asked
<1>1. Pending.state = "pending" /\ ~Pending.started
  BY DEF Pending, NoRow
<1>2. \A d \in Deletions : /\ row'[d].state = "purged" <=> row[d].state = "purged"
                           /\ row[d].state # "none" => row'[d] = row[d]
                           /\ row[d].state = "none" => ~row[d].started
                           /\ row'[d].state = "pending" /\ row'[d].started <=>
                              row[d].state = "pending" /\ row[d].started
  BY <1>1, RowsKeepTheirType
<1> QED BY <1>2 DEF Asked, Open, Done

LEMMA ProducersAreLawful ==
  ASSUME DeletionInv, Produce
  PROVE  Lawful!RemovalNext \/ UNCHANGED Lawful!removalVars
<1>1. UNCHANGED <<hold, locked, attested, row>>
  BY DEF Produce, Import, StoreSource, AbandonImport, Disarm, Lapse, StartCompile, EndCompile,
     deletionVars, storeVars
<1>2. Asked' = Asked /\ Open' = Open /\ Done' = Done
  BY <1>1, RecordsStand
<1>3. CASE stored' = stored
  BY <1>1, <1>2, <1>3 DEF Lawful!removalVars
<1>4. CASE stored' # stored
  <2>1. PICK k \in Keys : k \notin stored /\ stored' = stored \union {k}
    <3>1. \E k : stored' = stored \union {k}
      BY <1>4 DEF Produce, Import, StoreSource, AbandonImport, Disarm, Lapse, StartCompile,
         EndCompile, storeVars
    <3>2. stored' \subseteq Keys
      BY ProduceKeepsTypes DEF DeletionInv, DeletionTypeOK
    <3> QED BY <1>4, <3>1, <3>2
  <2>2. ASSUME NEW d \in Open \union Done PROVE d[2] # k
    <3>1. d \in Deletions /\ row[d].state # "none" /\ d[1] \in attested
      BY <2>2 DEF Open, Done, DeletionInv, SweepInv, RecordsAreSound
    <3>2. ~Made(k) \/ \E s \in Sources : k = Raw(s) /\ producer[s] = "importing"
      BY <2>1, NewIsMade DEF DeletionInv
    <3>3. Made(d[2])
      BY <3>1 DEF DeletionInv, MadeOnce
    <3>4. \A s \in Sources : d[2] = Raw(s) => d[1] = s
      BY <3>1, DeletionShape, KeysDiffer DEF Own
    <3>5. producer[d[1]] # "importing"
      BY <3>1 DEF DeletionInv, QuietInv, AttestedIsQuiet, Quiet
    <3> QED BY <3>2, <3>3, <3>4, <3>5
  <2>3. Lawful!Write(k)
    BY <1>1, <1>2, <2>1, <2>2 DEF Lawful!Write, Open, Done
  <2> QED BY <2>1, <2>3 DEF Lawful!RemovalNext
<1> QED BY <1>3, <1>4

LEMMA HoldsAreLawful ==
  ASSUME PlaceHold \/ ReleaseHold \/ LoseSight \/ WritePolicy
  PROVE  Lawful!RemovalNext
<1>1. UNCHANGED <<stored, locked, attested, row>>
  BY DEF PlaceHold, ReleaseHold, LoseSight, WritePolicy, deletionVars, storeVars
<1>2. Asked' = Asked /\ Open' = Open /\ Done' = Done
  BY <1>1, RecordsStand
<1>3. CASE PlaceHold \/ LoseSight
  <2>1. Open = {}
    BY <1>3 DEF PlaceHold, LoseSight, RemovalIsOpen, Open
  <2>2. hold' # "inactive"
    BY <1>3 DEF PlaceHold, LoseSight
  <2> QED BY <1>1, <1>2, <2>1, <2>2 DEF Lawful!RemovalNext, Lawful!Hold
<1>4. CASE ReleaseHold \/ WritePolicy
  <2>1. hold' = "inactive"
    BY <1>4 DEF ReleaseHold, WritePolicy
  <2> QED BY <1>1, <1>2, <2>1 DEF Lawful!RemovalNext, Lawful!Release
<1> QED BY <1>3, <1>4

LEMMA RequestsAskNothing ==
  ASSUME DeletionInv, NEW s \in Sources, Request(s) \/ BecomeEligible(s)
  PROVE  UNCHANGED Lawful!removalVars
<1>1. UNCHANGED <<hold, stored, locked, attested>>
  BY DEF Request, BecomeEligible, storeVars
<1>2. ASSUME NEW d \in Deletions, row'[d] # row[d]
      PROVE  row[d].state = "none" /\ row'[d] = Pending /\ d[1] \notin attested
  <2>1. request[s] = "none" /\ d = <<s, Raw(s)>> /\ row'[d] = Pending
    BY <1>2 DEF Request, BecomeEligible, DeletionInv, DeletionTypeOK
  <2>2. d[1] = s
    BY <2>1
  <2> QED BY <2>1, <2>2 DEF DeletionInv, SweepInv, RecordsAreSound, QuietInv, AttestedIsQuiet, Quiet
<1>3. Asked' = Asked /\ Open' = Open /\ Done' = Done
  BY <1>1, <1>2, NewRecords DEF DeletionInv
<1> QED BY <1>1, <1>3 DEF Lawful!removalVars

LEMMA InventoriesAsk ==
  ASSUME DeletionInv, TakeInventory
  PROVE  Lawful!RemovalNext \/ UNCHANGED Lawful!removalVars
<1>1. UNCHANGED <<hold, stored, locked>>
  BY DEF TakeInventory, TakeCandidate, List, Attest, storeVars
<1>2. CASE UNCHANGED <<attested, row>>
  BY <1>1, <1>2, RecordsStand DEF Lawful!removalVars
<1>3. CASE ~UNCHANGED <<attested, row>>
  <2>1. Attest /\ Seals(inventory.source)
    BY <1>3 DEF TakeInventory, TakeCandidate, List, Attest, deletionVars
  <2>2. /\ hold = "inactive" /\ attested \subseteq attested'
        /\ \A d \in Deletions : row'[d] = row[d] \/ (row[d].state = "none" /\ row'[d] = Pending)
    BY <2>1 DEF Attest, Seals
  <2>3. Asked \subseteq Asked' /\ Open' = Open /\ Done' = Done
    BY <2>2, NewRecords DEF DeletionInv
  <2> QED BY <1>1, <2>2, <2>3 DEF Lawful!RemovalNext, Lawful!Ask
<1> QED BY <1>2, <1>3

LEMMA ClaimsAreUnseen ==
  ASSUME DeletionInv, NEW d \in Deletions,
         (\E w \in Sweepers : Claim(w, d)) \/ Expire(d) \/ FallDue(d)
  PROVE  UNCHANGED Lawful!removalVars
<1>1. UNCHANGED <<hold, attested, stored, locked>>
  BY DEF Claim, Expire, FallDue, storeVars
<1>2. row[d] \in [state : {"pending"}, live : BOOLEAN, started : BOOLEAN, due : BOOLEAN]
  BY RowsKeepTheirType DEF Claim, Claimable, Expire, FallDue, DeletionInv
<1>3. \/ row' = [row EXCEPT ![d] = [row[d] EXCEPT !.live = TRUE]]
      \/ row' = [row EXCEPT ![d] = [row[d] EXCEPT !.live = FALSE]]
      \/ row' = [row EXCEPT ![d] = [row[d] EXCEPT !.due = TRUE]]
  BY DEF Claim, Expire, FallDue
<1>4. \A e \in Deletions : row'[e].state = row[e].state /\ row'[e].started = row[e].started
  BY <1>2, <1>3 DEF DeletionInv, DeletionTypeOK
<1> QED BY <1>1, <1>4, RecordsStand DEF Lawful!removalVars

(* What removes an object is answered for by a removal that is open.         *)
LEMMA RemovalsAreOpen ==
  ASSUME DeletionInv, NEW k, AnsweredFor(k), k \in stored, k \notin locked,
         stored' = stored \ {k}, UNCHANGED <<hold, locked, attested, row>>
  PROVE  Lawful!RemovalNext
<1>1. PICK d \in Deletions : d[2] = k /\ row[d].started
  BY DEF AnsweredFor
<1>2. row[d].state = "pending"
  BY <1>1, RowsKeepTheirType DEF DeletionInv, SweepInv, PurgedIsGone
<1>3. hold = "inactive"
  BY <1>1, <1>2 DEF DeletionInv, SweepInv, HoldsFindNoRemoval, RemovalIsOpen
<1>4. Asked' = Asked /\ Open' = Open /\ Done' = Done
  BY RecordsStand
<1>5. d \in Open
  BY <1>1, <1>2 DEF Open
<1>6. Lawful!Remove(d)
  BY <1>1, <1>3, <1>4, <1>5 DEF Lawful!Remove
<1> QED BY <1>6 DEF Lawful!RemovalNext

LEMMA SweepersAreLawful ==
  ASSUME DeletionInv, NEW w \in Sweepers, Work(w)
  PROVE  Lawful!RemovalNext \/ UNCHANGED Lawful!removalVars
<1> DEFINE d == run[w].of
<1>1. UNCHANGED <<attested, locked, hold>>
  BY DEF Work, Inspect, Begin, Answer, Verify, Finalize, RecordRefusal, Stop, deletionVars,
     storeVars
<1>2. run[w] # Resting /\ d \in Deletions /\ Key(w) = d[2]
  <2>1. run[w] # Resting
    BY DEF Work, Inspect, Begin, Answer, Verify, Finalize, RecordRefusal, Stop, Working, Resting
  <2> QED BY <2>1 DEF DeletionInv, DeletionTypeOK, Key
<1>3. /\ d[1] \in attested /\ row[d].state # "none"
      /\ run[w].phase = "finalizing" => Key(w) \notin stored
      /\ run[w].phase = "refused" => Key(w) \in locked
      /\ run[w].phase = "waiting" => AnsweredFor(Key(w))
  BY <1>2 DEF DeletionInv, SweepInv, RunsAreSound
<1>4. row \in [Deletions -> {NoRow, Purged} \union
        [state : {"pending"}, live : BOOLEAN, started : BOOLEAN, due : BOOLEAN]]
  BY DEF DeletionInv, DeletionTypeOK
<1>5. CASE UNCHANGED <<stored, row>>
  BY <1>1, <1>5, RecordsStand DEF Lawful!removalVars
<1>6. CASE Answer(w) /\ stored' # stored
  <2>1. /\ UNCHANGED row /\ run[w].phase = "waiting"
        /\ Key(w) \in stored \ locked /\ stored' = stored \ {Key(w)}
    BY <1>6 DEF Answer, deletionVars
  <2> QED BY <1>1, <1>3, <2>1, RemovalsAreOpen
<1>7. CASE Begin(w) /\ row' # row
  <2>1. /\ row[d].state = "pending" /\ hold = "inactive" /\ UNCHANGED stored
        /\ row' = [row EXCEPT ![d] = [row[d] EXCEPT !.started = TRUE]]
    BY <1>7 DEF Begin, storeVars
  <2>2. row[d] \in [state : {"pending"}, live : BOOLEAN, started : BOOLEAN, due : BOOLEAN]
    BY <1>2, <2>1, RowsKeepTheirType DEF DeletionInv
  <2>3. /\ row'[d].state = "pending" /\ row'[d].started
        /\ \A e \in Deletions : e # d => row'[e] = row[e]
    BY <1>2, <1>4, <2>1, <2>2
  <2>4. /\ Asked' = Asked /\ Done' = Done /\ Open' = Open \union {d}
        /\ d \in Asked /\ d \notin Done
    BY <1>1, <1>2, <1>3, <2>1, <2>3 DEF Asked, Done, Open
  <2>5. Lawful!Open(d)
    BY <1>1, <2>1, <2>4 DEF Lawful!Open
  <2> QED BY <1>2, <2>5 DEF Lawful!RemovalNext
<1>8. CASE Finalize(w) /\ row' # row
  <2>1. /\ row[d].state = "pending" /\ row[d].started /\ hold = "inactive" /\ UNCHANGED stored
        /\ row' = [row EXCEPT ![d] = Purged] /\ d[2] \notin stored
    BY <1>2, <1>3, <1>8 DEF Finalize, Finalizes, storeVars
  <2>2. Purged.state = "purged"
    BY DEF Purged
  <2>3. row'[d].state = "purged" /\ \A e \in Deletions : e # d => row'[e] = row[e]
    BY <1>2, <1>4, <2>1, <2>2
  <2>4. /\ Asked' = Asked /\ Done' = Done \union {d} /\ Open' = Open \ {d} /\ d \in Open
    BY <1>1, <1>2, <2>1, <2>3 DEF Asked, Done, Open
  <2>5. Lawful!Close(d)
    BY <1>1, <1>2, <2>1, <2>4 DEF Lawful!Close
  <2> QED BY <1>2, <2>5 DEF Lawful!RemovalNext
<1>9. CASE RecordRefusal(w) /\ row' # row
  <2>1. /\ row[d].state = "pending" /\ UNCHANGED stored /\ d[2] \in locked
        /\ row' = [row EXCEPT ![d] = [Pending EXCEPT !.due = FALSE]]
    BY <1>2, <1>3, <1>9 DEF RecordRefusal, storeVars
  <2>2. [Pending EXCEPT !.due = FALSE].state = "pending" /\ ~[Pending EXCEPT !.due = FALSE].started
    BY DEF Pending, NoRow
  <2>3. /\ row'[d].state = "pending" /\ ~row'[d].started
        /\ \A e \in Deletions : e # d => row'[e] = row[e]
    BY <1>2, <1>4, <2>1, <2>2
  <2>4. Asked' = Asked /\ Done' = Done /\ Open' = Open \ {d}
    BY <1>1, <1>2, <2>1, <2>3 DEF Asked, Done, Open
  <2>5. CASE row[d].started
    <3>1. d \in Open
      BY <1>2, <2>1, <2>5 DEF Open
    <3>2. Lawful!Withdraw(d)
      BY <1>1, <1>2, <2>1, <2>4, <3>1 DEF Lawful!Withdraw
    <3> QED BY <1>2, <3>2 DEF Lawful!RemovalNext
  <2>6. CASE ~row[d].started
    <3>1. Open' = Open
      BY <2>4, <2>6 DEF Open
    <3> QED BY <1>1, <2>1, <2>4, <3>1 DEF Lawful!removalVars
  <2> QED BY <2>5, <2>6
<1>10. \/ UNCHANGED <<stored, row>>
       \/ Answer(w) /\ stored' # stored
       \/ (Begin(w) \/ Finalize(w) \/ RecordRefusal(w)) /\ row' # row
  BY DEF Work, Inspect, Begin, Answer, Verify, Finalize, RecordRefusal, Stop, deletionVars,
     storeVars
<1> QED BY <1>5, <1>6, <1>7, <1>8, <1>9, <1>10

LEMMA TheStoreIsLawful ==
  ASSUME DeletionInv, NEW k \in Keys, LandLate(k) \/ LockLapses(k)
  PROVE  Lawful!RemovalNext \/ UNCHANGED Lawful!removalVars
<1>1. UNCHANGED <<hold, attested, row>>
  BY DEF LandLate, LockLapses, deletionVars
<1>2. Asked' = Asked /\ Open' = Open /\ Done' = Done
  BY <1>1, RecordsStand
<1>3. CASE LandLate(k)
  <2>1. AnsweredFor(k) /\ locked' = locked
    BY <1>3 DEF LandLate, DeletionInv, SweepInv, LateIsAnsweredFor
  <2>2. \/ stored' = stored
        \/ stored' = stored \ {k} /\ k \in stored /\ k \notin locked
    BY <1>3 DEF LandLate
  <2> QED BY <1>1, <1>2, <2>1, <2>2, RemovalsAreOpen DEF Lawful!removalVars
<1>4. CASE LockLapses(k)
  <2>1. UNCHANGED stored /\ locked' = locked \ {k}
    BY <1>4 DEF LockLapses
  <2> QED BY <1>1, <1>2, <2>1 DEF Lawful!Unlock, Lawful!RemovalNext
<1> QED BY <1>3, <1>4

LEMMA RemovalSteps ==
  ASSUME DeletionInv, [Next]_vars
  PROVE  [Lawful!RemovalNext]_(Lawful!removalVars)
<1>1. CASE UNCHANGED vars
  <2>1. UNCHANGED <<hold, stored, locked, attested, row>>
    BY <1>1 DEF vars, deletionVars, storeVars
  <2> QED BY <2>1, RecordsStand DEF Lawful!removalVars
<1> QED BY <1>1, ProducersAreLawful, HoldsAreLawful, RequestsAskNothing, InventoriesAsk,
     ClaimsAreUnseen, SweepersAreLawful, TheStoreIsLawful DEF Next

(* Whoever produces, claims, fails, answers late or dies: seen from the      *)
(* objects and the receipts, only lawful removals happen.  None is under way *)
(* when a hold is placed, each is closed once, on an object that is gone and *)
(* that nobody writes again.                                                 *)
THEOREM DeletionImplementsRemoval == Spec => RemovalsAreLawful
<1>1. Init => Lawful!RemovalInit
  BY RemovalsStart
<1>2. DeletionInv /\ [Next]_vars => [Lawful!RemovalNext]_(Lawful!removalVars)
  BY RemovalSteps
<1> QED BY <1>1, <1>2, DeletionInvariance, PTL DEF Spec, RemovalsAreLawful, Lawful!RemovalSpec
=============================================================================
