---------------------------- MODULE SourceBinding ----------------------------
(***************************************************************************)
(* How an import binds one revision of a logical connector source, and     *)
(* which binding the database then calls the newest.                       *)
(*                                                                         *)
(* The provider moves a source through revisions; workers import listed    *)
(* items, possibly from a stale page, in steps that other workers and the  *)
(* provider interleave with.  A binding, once written, is never changed.   *)
(* Bindings carry the database's observation instant.  Bindings written    *)
(* before the guarded writer existed may share one instant (a legacy tie). *)
(*                                                                         *)
(* Revisions are numbered in the order in which the provider made them.    *)
(* The code never compares them: it tests them for equality only, and the  *)
(* numbering is what the properties compare.                               *)
(***************************************************************************)
EXTENDS Integers

CONSTANTS
  Sources,      \* logical sources of one workspace
  Importers,    \* workers running importSourceObject
  MaxRevision,  \* bound: revisions the provider makes of a source
  MaxInstant    \* bound: observation instants of the database clock

ASSUME MaxRevisionAssumption == MaxRevision \in Nat \ {0}
ASSUME MaxInstantAssumption == MaxInstant \in Nat \ {0}

VARIABLES
  current,          \* current[s]: the provider's current revision of s
  boundAt,          \* boundAt[s][r]: instant of r's binding, 0 while r is unbound
  resolutions,      \* resolutions[s]: immutable resolutions of ties of s
  tombstoned,       \* sources whose deletion the database remembers forever
  connectionActive, \* whether the OAuth connection of the sources is active
  import            \* import[w]: what worker w is importing

bindingVars ==
  <<current, boundAt, resolutions, tombstoned, connectionActive, import>>

Revisions == 1 .. MaxRevision
Instants == 1 .. MaxInstant
Resolution == [tied : SUBSET Revisions, current : Revisions]

(* An import is idle, has read its snapshot of the newest bindings, has seen *)
(* the provider name its revision before the download, or also after it.     *)
Idle == [phase |-> "idle"]
Import == [phase : {"snapshotted", "observed", "verified"}, source : Sources,
           revision : Revisions, snapshot : SUBSET Revisions]

Bound(s) == {r \in Revisions : boundAt[s][r] # 0}

(* Every binding at the newest observation instant. *)
TopBindings(s) ==
  {r \in Bound(s) : \A q \in Bound(s) : boundAt[s][q] <= boundAt[s][r]}

IsTie(S) == \E p, q \in S : p # q

(* One element is a unique latest, none an unbound source, several an       *)
(* unresolved tie.                                                          *)
NewestVersions(s) ==
  LET top == TopBindings(s)
      named == {v \in resolutions[s] : v.tied = top}
  IN  IF IsTie(top) /\ named # {} THEN {v.current : v \in named} ELSE top

BindingTypeOK ==
  /\ current \in [Sources -> Revisions]
  /\ boundAt \in [Sources -> [Revisions -> 0 .. MaxInstant]]
  /\ resolutions \in [Sources -> SUBSET Resolution]
  /\ tombstoned \subseteq Sources
  /\ connectionActive \in BOOLEAN
  /\ import \in [Importers -> {Idle} \union Import]

-----------------------------------------------------------------------------
(* Before the guarded writer: nothing bound, or bindings that share the      *)
(* first instant, all of revisions the provider had reached.                 *)
BindingInit ==
  /\ current \in [Sources -> Revisions]
  /\ boundAt \in [Sources -> [Revisions -> {0, 1}]]
  /\ \A s \in Sources, r \in Revisions :
       boundAt[s][r] # 0 => r <= current[s]
  /\ resolutions = [s \in Sources |-> {}]
  /\ tombstoned = {}
  /\ connectionActive = TRUE
  /\ import = [w \in Importers |-> Idle]

(* External: the provider makes a new revision. *)
ProviderRevises(s) ==
  /\ current[s] < MaxRevision
  /\ current' = [current EXCEPT ![s] = @ + 1]
  /\ UNCHANGED <<boundAt, resolutions, tombstoned, connectionActive, import>>

(* A listed item, possibly from a page older than the provider's current     *)
(* revision.  The newest set is read before the first provider read.         *)
BeginImport(w, s, r) ==
  /\ import[w] = Idle
  /\ r <= current[s]
  /\ import' = [import EXCEPT ![w] =
       [phase |-> "snapshotted", source |-> s, revision |-> r,
        snapshot |-> NewestVersions(s)]]
  /\ UNCHANGED <<current, boundAt, resolutions, tombstoned, connectionActive>>

(* Mutant: the provider's answer is not compared with the listed revision. *)
ObserveVersionAny(w, from, to) ==
  /\ import[w].phase = from
  /\ import' = [import EXCEPT ![w].phase = to]
  /\ UNCHANGED <<current, boundAt, resolutions, tombstoned, connectionActive>>

(* The provider must still name the listed revision current: read once       *)
(* before the download and once after it.                                    *)
ObserveVersion(w, from, to) ==
  /\ import[w].phase = from
  /\ current[import[w].source] = import[w].revision
  /\ import' = [import EXCEPT ![w].phase = to]
  /\ UNCHANGED <<current, boundAt, resolutions, tombstoned, connectionActive>>

ObserveBefore(w) == ObserveVersion(w, "snapshotted", "observed")
ObserveAfter(w) == ObserveVersion(w, "observed", "verified")

(* Mutant: only the connection is looked at, as if the tombstone trigger     *)
(* were gone.                                                                *)
WriteAdmittedByConnection(s) == connectionActive

(* What the triggers on the bindings table, and the resolution branch of the *)
(* writer, demand in the writer's own transaction.                           *)
WriteAdmitted(s) == s \notin tombstoned /\ connectionActive

EndImport(w) == import' = [import EXCEPT ![w] = Idle]

(* Mutant: the writer does not compare the newest set with the snapshot. *)
RecordNewUncompared(w, now) ==
  LET s == import[w].source
      r == import[w].revision
  IN  /\ import[w].phase = "verified"
      /\ r \notin Bound(s)
      /\ \A q \in Bound(s) : boundAt[s][q] < now
      /\ WriteAdmitted(s)
      /\ boundAt' = [boundAt EXCEPT ![s][r] = now]
      /\ EndImport(w)
      /\ UNCHANGED <<current, resolutions, tombstoned, connectionActive>>

(* Mutant: the instant of a binding may repeat an earlier one, which leaves  *)
(* the source with a tie that an import still under way did not see.         *)
RecordNewAtSameInstant(w, now) ==
  LET s == import[w].source
      r == import[w].revision
  IN  /\ import[w].phase = "verified"
      /\ r \notin Bound(s)
      /\ NewestVersions(s) = import[w].snapshot
      /\ \A q \in Bound(s) : boundAt[s][q] <= now
      /\ WriteAdmitted(s)
      /\ boundAt' = [boundAt EXCEPT ![s][r] = now]
      /\ EndImport(w)
      /\ UNCHANGED <<current, resolutions, tombstoned, connectionActive>>

(* The guarded writer's insert.  `now' is the database clock, which need not *)
(* have moved past the last binding's instant.                               *)
RecordNew(w, now) ==
  LET s == import[w].source
      r == import[w].revision
  IN  /\ import[w].phase = "verified"
      /\ r \notin Bound(s)
      /\ NewestVersions(s) = import[w].snapshot
      /\ \A q \in Bound(s) : boundAt[s][q] < now
      /\ WriteAdmitted(s)
      /\ boundAt' = [boundAt EXCEPT ![s][r] = now]
      /\ EndImport(w)
      /\ UNCHANGED <<current, resolutions, tombstoned, connectionActive>>

(* A replay of a bound revision that is one of an unresolved tie. *)
ResolvesTie(w) ==
  LET s == import[w].source
      newest == NewestVersions(s)
  IN  /\ IsTie(newest)
      /\ import[w].revision \in newest
      /\ newest = import[w].snapshot

RecordResolution(w) ==
  LET s == import[w].source
  IN  /\ import[w].phase = "verified"
      /\ import[w].revision \in Bound(s)
      /\ ResolvesTie(w)
      /\ WriteAdmitted(s)
      /\ resolutions' = [resolutions EXCEPT ![s] = @ \union
           {[tied |-> NewestVersions(s), current |-> import[w].revision]}]
      /\ EndImport(w)
      /\ UNCHANGED <<current, boundAt, tombstoned, connectionActive>>

(* Every other end of an import: a replay that moves nothing, a refusal      *)
(* (contested, superseded, tombstoned, connection lost), a failed download,  *)
(* or a worker that dies.                                                    *)
AbandonImport(w) ==
  /\ import[w] # Idle
  /\ EndImport(w)
  /\ UNCHANGED <<current, boundAt, resolutions, tombstoned, connectionActive>>

(* The deletion machinery remembers the logical source; the OAuth connection *)
(* is revoked, or authorized again.                                          *)
Tombstone(s) ==
  /\ tombstoned' = tombstoned \union {s}
  /\ UNCHANGED <<current, boundAt, resolutions, connectionActive, import>>

ToggleConnection ==
  /\ connectionActive' = ~connectionActive
  /\ UNCHANGED <<current, boundAt, resolutions, tombstoned, import>>

Record(w) == RecordResolution(w) \/ \E now \in Instants : RecordNew(w, now)

BindingNext ==
  \/ \E s \in Sources : ProviderRevises(s) \/ Tombstone(s)
  \/ ToggleConnection
  \/ \E w \in Importers :
       \/ \E s \in Sources, r \in Revisions : BeginImport(w, s, r)
       \/ ObserveBefore(w)
       \/ ObserveAfter(w)
       \/ Record(w)
       \/ AbandonImport(w)

BindingSpec == BindingInit /\ [][BindingNext]_bindingVars

-----------------------------------------------------------------------------
(* A unique newest binding is the most advanced revision ever bound: no      *)
(* import whose checks passed earlier overtakes a revision bound while it    *)
(* downloaded, however late its write arrives (record_connector_document_    *)
(* binding_after compares the whole snapshot taken before the first read).   *)
NewestIsMostAdvanced ==
  \A s \in Sources : \A newest \in NewestVersions(s) :
    ~IsTie(NewestVersions(s)) => \A r \in Bound(s) : r <= newest

(* Once the source's tombstone exists nothing moves its newest binding, not  *)
(* even a replay that would resolve a legacy tie.                            *)
TombstoneFreezesNewest ==
  [][\A s \in tombstoned : NewestVersions(s)' = NewestVersions(s)]_bindingVars

(* A tie, once the provider named one of its members current, is never       *)
(* resolved to another member: the tie has at most one resolution, the       *)
(* bindings it names stay bound, and the member it calls current is the most *)
(* advanced of them.                                                         *)
ResolutionsAgree ==
  \A s \in Sources : \A u, v \in resolutions[s] :
    /\ u.tied = v.tied => u.current = v.current
    /\ u.current \in u.tied
    /\ \A q \in u.tied : q \in Bound(s) /\ q <= u.current

(* Readers see a register: whatever importers, ties and tombstones do, each  *)
(* source has one latest revision that only moves forward.                   *)
TheOnly(S) == IF IsTie(S) \/ S = {} THEN 0 ELSE CHOOSE r \in S : TRUE

Register == INSTANCE LatestRevision WITH
              latest <- [s \in Sources |-> TheOnly(NewestVersions(s))],
              bound <- [s \in Sources |-> Bound(s)]

BindingsAreARegister == Register!LatestSpec
=============================================================================
