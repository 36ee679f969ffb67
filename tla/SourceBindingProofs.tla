------------------------- MODULE SourceBindingProofs -------------------------
(***************************************************************************)
(* The guarded binding writer is right for any number of sources, workers, *)
(* revisions and instants.                                                 *)
(*                                                                         *)
(* What makes the snapshot comparison work is not visible in one call: a   *)
(* worker that saw the provider name its revision current holds a snapshot *)
(* that is either outdated for ever or still bounds every binding of the   *)
(* source (SnapshotSettles).  That a resolved tie cannot bring an outdated *)
(* snapshot back rests on ties being older than every import               *)
(* (TiesPrecedeImports).                                                   *)
(***************************************************************************)
EXTENDS SourceBinding, TLAPS

(* The provider had made every bound or listed revision. *)
OnlyProvidersRevisions ==
  /\ \A s \in Sources : \A r \in Bound(s) : r <= current[s]
  /\ \A w \in Importers : import[w] # Idle =>
       /\ import[w].snapshot \subseteq Bound(import[w].source)
       /\ import[w].revision <= current[import[w].source]

TiesPrecedeImports ==
  \A w \in Importers :
    import[w] # Idle /\ IsTie(NewestVersions(import[w].source)) =>
      import[w].snapshot = NewestVersions(import[w].source)

SnapshotSettles ==
  \A w \in Importers :
    /\ import[w] # Idle
    /\ import[w].phase \in {"observed", "verified"}
    /\ import[w].snapshot = NewestVersions(import[w].source)
    => \A r \in Bound(import[w].source) : r <= import[w].revision

BindingInv ==
  /\ BindingTypeOK
  /\ OnlyProvidersRevisions
  /\ TiesPrecedeImports
  /\ SnapshotSettles
  /\ ResolutionsAgree
  /\ NewestIsMostAdvanced

-----------------------------------------------------------------------------
(* What is newest depends on a source's own rows only. *)
LEMMA NewestUnchanged ==
  ASSUME NEW s, boundAt'[s] = boundAt[s], resolutions'[s] = resolutions[s]
  PROVE  /\ Bound(s)' = Bound(s)
         /\ NewestVersions(s)' = NewestVersions(s)
BY DEF Bound, TopBindings, NewestVersions

(* A binding written after every other is alone at the top. *)
LEMMA NewOnTop ==
  ASSUME BindingTypeOK, NEW w \in Importers, NEW now \in Instants,
         RecordNew(w, now), NEW s \in Sources, NEW r \in Revisions,
         s = import[w].source, r = import[w].revision
  PROVE  /\ Bound(s)' = Bound(s) \union {r}
         /\ NewestVersions(s)' = {r}
         /\ \A t \in Sources : t # s => boundAt'[t] = boundAt[t]
<1>1. /\ boundAt' = [boundAt EXCEPT ![s][r] = now]
      /\ r \notin Bound(s)
      /\ \A q \in Bound(s) : boundAt[s][q] < now
  BY DEF RecordNew
<1>2. now \in Nat /\ now # 0
  BY MaxInstantAssumption DEF Instants
<1>3. /\ boundAt'[s][r] = now
      /\ \A q \in Revisions : q # r => boundAt'[s][q] = boundAt[s][q]
      /\ \A t \in Sources : t # s => boundAt'[t] = boundAt[t]
  BY <1>1 DEF BindingTypeOK
<1>4. Bound(s)' = Bound(s) \union {r}
  BY <1>2, <1>3 DEF Bound
<1>5. \A q \in Bound(s)' : q # r => boundAt'[s][q] < now
  BY <1>1, <1>3, <1>4 DEF Bound
<1>6. \A q \in Bound(s)' : boundAt'[s][q] \in Nat
  BY <1>2, <1>3, MaxInstantAssumption DEF Bound, BindingTypeOK
<1>7. TopBindings(s)' = {r}
  <2>1. r \in TopBindings(s)'
    BY <1>2, <1>3, <1>4, <1>5, <1>6 DEF TopBindings
  <2>2. \A q \in TopBindings(s)' : q = r
    BY <1>2, <1>3, <1>4, <1>5, <1>6 DEF TopBindings
  <2> QED BY <2>1, <2>2
<1>8. NewestVersions(s)' = {r}
  BY <1>7 DEF NewestVersions, IsTie
<1> QED BY <1>3, <1>4, <1>8

(* Only an unresolved tie leaves more than one newest binding. *)
LEMMA TieUnresolved ==
  ASSUME ResolutionsAgree, NEW s \in Sources, IsTie(NewestVersions(s))
  PROVE  /\ NewestVersions(s) = TopBindings(s)
         /\ \A v \in resolutions[s] : v.tied # TopBindings(s)
<1> DEFINE named == {v \in resolutions[s] : v.tied = TopBindings(s)}
<1>1. \A u, v \in named : u.current = v.current
  BY DEF ResolutionsAgree
<1>2. ~IsTie({v.current : v \in named})
  BY <1>1 DEF IsTie
<1>3. named = {}
  BY <1>2 DEF NewestVersions, IsTie
<1> QED BY <1>3 DEF NewestVersions

(* The resolution of a tie leaves its current member as the newest. *)
LEMMA ResolutionSettles ==
  ASSUME BindingTypeOK, ResolutionsAgree, NEW w \in Importers,
         RecordResolution(w), NEW s \in Sources, NEW r \in Revisions,
         s = import[w].source, r = import[w].revision
  PROVE  /\ IsTie(NewestVersions(s))
         /\ NewestVersions(s) = TopBindings(s)
         /\ NewestVersions(s)' = {r}
         /\ \A v \in resolutions[s] : v.tied # TopBindings(s)
         /\ resolutions'[s] = resolutions[s] \union
              {[tied |-> TopBindings(s), current |-> r]}
         /\ \A t \in Sources : t # s => resolutions'[t] = resolutions[t]
<1>1. IsTie(NewestVersions(s))
  BY DEF RecordResolution, ResolvesTie
<1>2. /\ NewestVersions(s) = TopBindings(s)
      /\ \A v \in resolutions[s] : v.tied # TopBindings(s)
  BY <1>1, TieUnresolved
<1>3. /\ resolutions' = [resolutions EXCEPT ![s] = @ \union
             {[tied |-> TopBindings(s), current |-> r]}]
      /\ boundAt' = boundAt
  BY <1>2 DEF RecordResolution
<1>4. /\ resolutions'[s] = resolutions[s] \union
             {[tied |-> TopBindings(s), current |-> r]}
      /\ \A t \in Sources : t # s => resolutions'[t] = resolutions[t]
  BY <1>3 DEF BindingTypeOK
<1>5. TopBindings(s)' = TopBindings(s)
  BY <1>3 DEF TopBindings, Bound
<1>6. {v \in resolutions'[s] : v.tied = TopBindings(s)} =
        {[tied |-> TopBindings(s), current |-> r]}
  BY <1>2, <1>4
<1>7. NewestVersions(s)' =
        {v.current : v \in {[tied |-> TopBindings(s), current |-> r]}}
  BY <1>1, <1>2, <1>5, <1>6 DEF NewestVersions
<1>8. NewestVersions(s)' = {r}
  BY <1>7
<1> QED BY <1>1, <1>2, <1>4, <1>8

(* Steps that write no binding leave the bindings' properties alone. *)
LEMMA BindingsStay ==
  ASSUME boundAt' = boundAt, resolutions' = resolutions
  PROVE  /\ \A s : Bound(s)' = Bound(s) /\ NewestVersions(s)' = NewestVersions(s)
         /\ ResolutionsAgree => ResolutionsAgree'
         /\ NewestIsMostAdvanced => NewestIsMostAdvanced'
<1>1. \A s : Bound(s)' = Bound(s) /\ NewestVersions(s)' = NewestVersions(s)
  BY NewestUnchanged
<1> QED BY <1>1 DEF ResolutionsAgree, NewestIsMostAdvanced

-----------------------------------------------------------------------------
LEMMA InitEstablishes == BindingInit => BindingInv
<1> SUFFICES ASSUME BindingInit PROVE BindingInv
  OBVIOUS
<1>1. BindingTypeOK
  BY MaxInstantAssumption DEF BindingInit, BindingTypeOK
<1>2. \A s \in Sources : \A r \in Bound(s) : boundAt[s][r] = 1 /\ r <= current[s]
  BY DEF BindingInit, Bound
<1>3. OnlyProvidersRevisions /\ TiesPrecedeImports /\ SnapshotSettles
  BY <1>2 DEF BindingInit, OnlyProvidersRevisions, TiesPrecedeImports, SnapshotSettles
<1>4. ResolutionsAgree
  BY DEF BindingInit, ResolutionsAgree
<1>5. \A s \in Sources : NewestVersions(s) = Bound(s)
  <2>1. ASSUME NEW s \in Sources
        PROVE  TopBindings(s) = Bound(s)
    <3>1. \A r, q \in Bound(s) : boundAt[s][q] = 1 /\ boundAt[s][r] = 1
      BY <1>2
    <3>2. \A r, q \in Bound(s) : boundAt[s][q] <= boundAt[s][r]
      BY <3>1
    <3> QED BY <3>2 DEF TopBindings
  <2>2. \A s \in Sources : resolutions[s] = {}
    BY DEF BindingInit
  <2> QED BY <2>1, <2>2 DEF NewestVersions
<1>6. NewestIsMostAdvanced
  BY <1>5 DEF NewestIsMostAdvanced, IsTie, Bound, Revisions
<1> QED BY <1>1, <1>3, <1>4, <1>6 DEF BindingInv

LEMMA ProviderPreserves ==
  ASSUME BindingInv, NEW s \in Sources, ProviderRevises(s)
  PROVE  BindingInv'
<1> USE DEF BindingInv
<1>1. BindingTypeOK'
  <2>1. current[s] + 1 \in Revisions
    BY MaxRevisionAssumption DEF ProviderRevises, BindingTypeOK, Revisions
  <2>2. current' \in [Sources -> Revisions]
    BY <2>1 DEF ProviderRevises, BindingTypeOK
  <2> QED BY <2>2 DEF ProviderRevises, BindingTypeOK
<1>2. UNCHANGED <<boundAt, resolutions, import>>
  BY DEF ProviderRevises
<1>3. \A t \in Sources : current[t] \in Int /\ current'[t] \in Int /\ current[t] <= current'[t]
  BY DEF ProviderRevises, BindingTypeOK, Revisions
<1>4. \A t : Bound(t)' = Bound(t) /\ NewestVersions(t)' = NewestVersions(t)
  BY <1>2, BindingsStay
<1>5. \A w \in Importers : import[w] # Idle => import[w].source \in Sources /\ import[w].revision \in Int
  BY DEF BindingTypeOK, Import, Revisions
<1>6. OnlyProvidersRevisions'
  BY <1>2, <1>3, <1>4, <1>5 DEF OnlyProvidersRevisions, Bound, Revisions
<1>7. TiesPrecedeImports' /\ SnapshotSettles'
  BY <1>2, <1>4 DEF TiesPrecedeImports, SnapshotSettles
<1> QED BY <1>1, <1>2, <1>6, <1>7, BindingsStay

LEMMA FlagsPreserve ==
  ASSUME BindingInv, BindingTypeOK', UNCHANGED <<current, boundAt, resolutions, import>>
  PROVE  BindingInv'
<1>1. \A t : Bound(t)' = Bound(t) /\ NewestVersions(t)' = NewestVersions(t)
  BY BindingsStay
<1> QED
  BY <1>1, BindingsStay
  DEF BindingInv, OnlyProvidersRevisions, TiesPrecedeImports, SnapshotSettles

(* One worker moves on and no binding changes. *)
LEMMA ImportMovesOn ==
  ASSUME BindingInv, NEW w \in Importers, NEW next \in {Idle} \union Import,
         import' = [import EXCEPT ![w] = next],
         UNCHANGED <<current, boundAt, resolutions, tombstoned, connectionActive>>,
         next # Idle =>
           /\ next.snapshot \subseteq Bound(next.source)
           /\ next.revision <= current[next.source]
           /\ IsTie(NewestVersions(next.source)) =>
                next.snapshot = NewestVersions(next.source)
           /\ next.phase \in {"observed", "verified"}
              /\ next.snapshot = NewestVersions(next.source) =>
                \A r \in Bound(next.source) : r <= next.revision
  PROVE  BindingInv'
<1> USE DEF BindingInv
<1>1. BindingTypeOK'
  BY DEF BindingTypeOK
<1>2. /\ import'[w] = next
      /\ \A v \in Importers : v # w => import'[v] = import[v]
  BY DEF BindingTypeOK
<1>3. \A t : Bound(t)' = Bound(t) /\ NewestVersions(t)' = NewestVersions(t)
  BY BindingsStay
<1>4. \A t : Bound(t)' = Bound(t)
  BY <1>3
<1>5. OnlyProvidersRevisions'
  <2>1. \A s \in Sources : \A r \in Bound(s)' : r <= current'[s]
    BY <1>4 DEF OnlyProvidersRevisions
  <2>2. ASSUME NEW v \in Importers, import'[v] # Idle
        PROVE  /\ import'[v].snapshot \subseteq Bound(import'[v].source)
               /\ import'[v].revision <= current[import'[v].source]
    BY <1>2, <2>2 DEF OnlyProvidersRevisions
  <2>3. \A v \in Importers : Bound(import[v].source)' = Bound(import'[v].source)
    BY DEF Bound
  <2> QED BY <2>1, <2>2, <2>3 DEF OnlyProvidersRevisions
<1>6. \A v \in Importers :
         /\ Bound(import[v].source)' = Bound(import'[v].source)
         /\ NewestVersions(import[v].source)' = NewestVersions(import'[v].source)
  BY DEF Bound, NewestVersions, TopBindings
<1>7. TiesPrecedeImports'
  BY <1>2, <1>6 DEF TiesPrecedeImports
<1>8. SnapshotSettles'
  BY <1>2, <1>6 DEF SnapshotSettles
<1> QED BY <1>1, <1>5, <1>7, <1>8, BindingsStay

LEMMA BeginPreserves ==
  ASSUME BindingInv, NEW w \in Importers, NEW s \in Sources, NEW r \in Revisions,
         BeginImport(w, s, r)
  PROVE  BindingInv'
<1> DEFINE next == [phase |-> "snapshotted", source |-> s, revision |-> r,
                    snapshot |-> NewestVersions(s)]
<1>1. TopBindings(s) \subseteq Bound(s) /\ Bound(s) \subseteq Revisions
  BY DEF TopBindings, Bound
<1>2. NewestVersions(s) \subseteq Bound(s)
  <2>1. \A v \in resolutions[s] : v.tied = TopBindings(s) => v.current \in Bound(s)
    BY DEF BindingInv, ResolutionsAgree
  <2> QED BY <1>1, <2>1 DEF NewestVersions
<1>3. next \in Import
  BY <1>1, <1>2 DEF Import
<1>4. import' = [import EXCEPT ![w] = next] /\ r <= current[s]
  BY DEF BeginImport
<1>5. UNCHANGED <<current, boundAt, resolutions, tombstoned, connectionActive>>
  BY DEF BeginImport
<1> QED BY <1>2, <1>3, <1>4, <1>5, ImportMovesOn

LEMMA ObservePreserves ==
  ASSUME BindingInv, NEW w \in Importers, NEW to \in {"observed", "verified"},
         NEW from \in {"snapshotted", "observed"}, ObserveVersion(w, from, to)
  PROVE  BindingInv'
<1> DEFINE next == [import[w] EXCEPT !.phase = to]
<1>1. import[w] \in Import
  BY DEF BindingInv, BindingTypeOK, ObserveVersion, Idle
<1>2. /\ next \in Import
      /\ next.source = import[w].source
      /\ next.revision = import[w].revision
      /\ next.snapshot = import[w].snapshot
  BY <1>1 DEF Import
<1>3. import[w] # Idle
  BY DEF ObserveVersion, Idle
<1>4. /\ current[import[w].source] = import[w].revision
      /\ import' = [import EXCEPT ![w] = next]
      /\ UNCHANGED <<current, boundAt, resolutions, tombstoned, connectionActive>>
  BY DEF ObserveVersion
<1>5. /\ import[w].snapshot \subseteq Bound(import[w].source)
      /\ import[w].revision <= current[import[w].source]
      /\ IsTie(NewestVersions(import[w].source)) =>
           import[w].snapshot = NewestVersions(import[w].source)
  BY <1>3 DEF BindingInv, OnlyProvidersRevisions, TiesPrecedeImports
<1>6. \A r \in Bound(import[w].source) : r <= import[w].revision
  BY <1>1, <1>4 DEF BindingInv, OnlyProvidersRevisions, Import
<1> HIDE DEF next
<1>7. next \in {Idle} \union Import
  BY <1>2
<1> QED BY <1>2, <1>4, <1>5, <1>6, <1>7, ImportMovesOn

LEMMA AbandonPreserves ==
  ASSUME BindingInv, NEW w \in Importers, AbandonImport(w)
  PROVE  BindingInv'
BY ImportMovesOn DEF AbandonImport, EndImport

-----------------------------------------------------------------------------
(* After a write every other worker's snapshot of that source is outdated.   *)
LEMMA WriteOutdates ==
  ASSUME BindingInv, NEW w \in Importers, import[w] # Idle, EndImport(w),
         NEW s \in Sources, NEW r, s = import[w].source,
         UNCHANGED current,
         Bound(s) \subseteq Bound(s)', NewestVersions(s)' = {r},
         r \in Revisions, r <= current[s],
         \A q \in Bound(s)' : q <= current[s],
         \A v \in Importers : v # w /\ import[v] # Idle /\ import[v].source = s =>
           import[v].snapshot # {r},
         \A t \in Sources : t # s =>
           Bound(t)' = Bound(t) /\ NewestVersions(t)' = NewestVersions(t)
  PROVE  OnlyProvidersRevisions' /\ TiesPrecedeImports' /\ SnapshotSettles'
<1> USE DEF BindingInv
<1>1. /\ import'[w] = Idle
      /\ \A v \in Importers : v # w => import'[v] = import[v]
  BY DEF EndImport, BindingTypeOK
<1>2. ~IsTie({r})
  BY DEF IsTie
<1>3. ASSUME NEW v \in Importers, import'[v] # Idle
      PROVE  /\ v # w
             /\ import'[v] = import[v]
             /\ import[v].source \in Sources
  BY <1>1, <1>3 DEF BindingTypeOK, Import
<1>4. ASSUME NEW t \in Sources
      PROVE  Bound(t) \subseteq Bound(t)'
  BY <1>4
<1>5. OnlyProvidersRevisions'
  <2>1. ASSUME NEW t \in Sources, NEW q \in Bound(t)'
        PROVE  q <= current'[t]
    BY <2>1 DEF OnlyProvidersRevisions
  <2>2. ASSUME NEW v \in Importers, import'[v] # Idle
        PROVE  /\ (import[v].snapshot \subseteq Bound(import[v].source))'
               /\ import'[v].revision <= current'[import'[v].source]
    <3>1. import[v] # Idle
      BY <1>3, <2>2
    <3>2. PICK t \in Sources : t = import[v].source
      BY <1>3, <2>2
    <3>3. import[v].snapshot \subseteq Bound(t) /\ import[v].revision <= current[t]
      BY <3>1, <3>2 DEF OnlyProvidersRevisions
    <3>4. import'[v].snapshot \subseteq Bound(t)' /\ import'[v].revision <= current'[t]
      BY <1>3, <1>4, <2>2, <3>3
    <3>5. Bound(t)' = Bound(import[v].source)'
      BY <1>3, <2>2, <3>2 DEF Bound
    <3> QED BY <1>3, <2>2, <3>2, <3>4, <3>5
  <2> QED BY <2>1, <2>2 DEF OnlyProvidersRevisions
<1>6. ASSUME NEW v \in Importers, import'[v] # Idle, NEW t \in Sources, t = import[v].source
      PROVE  /\ Bound(import[v].source)' = Bound(t)'
             /\ NewestVersions(import[v].source)' = NewestVersions(t)'
  <2>1. import'[v].source = t
    BY <1>3, <1>6
  <2>2. Bound(import[v].source)' = Bound(t)'
    BY <2>1 DEF Bound
  <2>3. TopBindings(import[v].source)' = TopBindings(t)'
    BY <2>1, <2>2 DEF TopBindings
  <2>4. NewestVersions(import[v].source)' = NewestVersions(t)'
    BY <2>1, <2>3 DEF NewestVersions
  <2> QED BY <2>2, <2>4
<1>7. TiesPrecedeImports'
  <2>1. ASSUME NEW v \in Importers, import'[v] # Idle,
               IsTie(NewestVersions(import[v].source))'
        PROVE  (import[v].snapshot = NewestVersions(import[v].source))'
    <3>1. PICK t \in Sources : t = import[v].source
      BY <1>3, <2>1
    <3>2. IsTie(NewestVersions(t)')
      BY <1>6, <2>1, <3>1 DEF IsTie
    <3>3. t # s
      BY <1>2, <3>2
    <3>4. import[v].snapshot = NewestVersions(t)
      BY <1>3, <2>1, <3>1, <3>2, <3>3 DEF TiesPrecedeImports
    <3> QED BY <1>3, <1>6, <2>1, <3>1, <3>3, <3>4
  <2> QED BY <2>1 DEF TiesPrecedeImports
<1>8. SnapshotSettles'
  <2>1. ASSUME NEW v \in Importers, import'[v] # Idle,
               import'[v].phase \in {"observed", "verified"},
               (import[v].snapshot = NewestVersions(import[v].source))'
        PROVE  (\A q \in Bound(import[v].source) : q <= import[v].revision)'
    <3>1. PICK t \in Sources : t = import[v].source
      BY <1>3, <2>1
    <3>2. import[v].snapshot = NewestVersions(t)'
      BY <1>3, <1>6, <2>1, <3>1
    <3>3. t # s
      BY <1>3, <2>1, <3>1, <3>2
    <3>4. \A q \in Bound(t) : q <= import[v].revision
      BY <1>3, <2>1, <3>1, <3>2, <3>3 DEF SnapshotSettles
    <3>5. Bound(import[v].source)' = Bound(t)
      BY <1>6, <2>1, <3>1, <3>3
    <3> QED BY <1>3, <2>1, <3>4, <3>5
  <2> QED BY <2>1 DEF SnapshotSettles
<1> QED BY <1>5, <1>7, <1>8

LEMMA RecordNewPreserves ==
  ASSUME BindingInv, NEW w \in Importers, NEW now \in Instants, RecordNew(w, now)
  PROVE  BindingInv'
<1> USE DEF BindingInv
<1>1. import[w] \in Import /\ import[w] # Idle /\ import[w].phase = "verified"
  BY DEF BindingTypeOK, RecordNew, Idle
<1>2. PICK s \in Sources, r \in Revisions : s = import[w].source /\ r = import[w].revision
  BY <1>1 DEF Import
<1>3. /\ Bound(s)' = Bound(s) \union {r}
      /\ NewestVersions(s)' = {r}
      /\ \A t \in Sources : t # s => boundAt'[t] = boundAt[t]
  BY <1>2, NewOnTop
<1>4. /\ UNCHANGED <<current, resolutions, tombstoned, connectionActive>>
      /\ EndImport(w)
      /\ r \notin Bound(s)
      /\ NewestVersions(s) = import[w].snapshot
  BY <1>2 DEF RecordNew
<1>5. BindingTypeOK'
  <2>1. boundAt' = [boundAt EXCEPT ![s][r] = now] /\ now \in 0 .. MaxInstant
    BY <1>2, MaxInstantAssumption DEF RecordNew, Instants
  <2>2. boundAt' \in [Sources -> [Revisions -> 0 .. MaxInstant]]
    BY <2>1 DEF BindingTypeOK
  <2> QED BY <1>4, <2>2 DEF BindingTypeOK, EndImport
<1>6. \A t \in Sources : t # s =>
        Bound(t)' = Bound(t) /\ NewestVersions(t)' = NewestVersions(t)
  BY <1>3, <1>4, NewestUnchanged
<1>7. \A q \in Bound(s) : q <= r
  BY <1>1, <1>2, <1>4 DEF SnapshotSettles
<1>8. r <= current[s] /\ \A q \in Bound(s) : q <= current[s]
  BY <1>1, <1>2 DEF OnlyProvidersRevisions
<1>9. \A v \in Importers : v # w /\ import[v] # Idle /\ import[v].source = s =>
        import[v].snapshot # {r}
  BY <1>4 DEF OnlyProvidersRevisions
<1>10. OnlyProvidersRevisions' /\ TiesPrecedeImports' /\ SnapshotSettles'
  <2>1. Bound(s) \subseteq Bound(s)' /\ \A q \in Bound(s)' : q <= current[s]
    BY <1>3, <1>8
  <2> QED
    BY <1>1, <1>2, <1>3, <1>4, <1>6, <1>8, <1>9, <2>1, WriteOutdates
<1>11. ResolutionsAgree'
  <2>1. \A t \in Sources : Bound(t) \subseteq Bound(t)'
    BY <1>3, <1>6
  <2> QED BY <1>4, <2>1 DEF ResolutionsAgree
<1>12. NewestIsMostAdvanced'
  <2>1. \A q \in Bound(s)' : q <= r
    BY <1>3, <1>7 DEF Revisions
  <2>2. \A t \in Sources : t # s =>
          IsTie(NewestVersions(t)') = IsTie(NewestVersions(t))
    BY <1>6
  <2> QED BY <1>3, <1>6, <2>1, <2>2 DEF NewestIsMostAdvanced, IsTie
<1> QED BY <1>5, <1>10, <1>11, <1>12

LEMMA RecordResolutionPreserves ==
  ASSUME BindingInv, NEW w \in Importers, RecordResolution(w)
  PROVE  BindingInv'
<1> USE DEF BindingInv
<1>1. import[w] \in Import /\ import[w] # Idle /\ import[w].phase = "verified"
  BY DEF BindingTypeOK, RecordResolution, Idle
<1>2. PICK s \in Sources, r \in Revisions : s = import[w].source /\ r = import[w].revision
  BY <1>1 DEF Import
<1>3. /\ IsTie(NewestVersions(s))
      /\ NewestVersions(s) = TopBindings(s)
      /\ NewestVersions(s)' = {r}
      /\ \A v \in resolutions[s] : v.tied # TopBindings(s)
      /\ resolutions'[s] = resolutions[s] \union
           {[tied |-> TopBindings(s), current |-> r]}
      /\ \A t \in Sources : t # s => resolutions'[t] = resolutions[t]
  BY <1>2, ResolutionSettles
<1>4. /\ UNCHANGED <<current, boundAt, tombstoned, connectionActive>>
      /\ EndImport(w)
      /\ r \in NewestVersions(s)
      /\ NewestVersions(s) = import[w].snapshot
  BY <1>2 DEF RecordResolution, ResolvesTie
<1>5. TopBindings(s) \subseteq Bound(s) /\ \A t : Bound(t) \subseteq Revisions
  BY DEF TopBindings, Bound
<1>6. BindingTypeOK'
  <2>1. [tied |-> TopBindings(s), current |-> r] \in Resolution
    BY <1>5 DEF Resolution
  <2>2. resolutions' = [resolutions EXCEPT ![s] = @ \union
          {[tied |-> TopBindings(s), current |-> r]}]
    BY <1>2, <1>3 DEF RecordResolution
  <2>3. resolutions' \in [Sources -> SUBSET Resolution]
    BY <2>1, <2>2 DEF BindingTypeOK
  <2> QED BY <1>4, <2>3 DEF BindingTypeOK, EndImport
<1>7. \A t : Bound(t)' = Bound(t)
  BY <1>4 DEF Bound
<1>8. \A t \in Sources : t # s => NewestVersions(t)' = NewestVersions(t)
  BY <1>3, <1>4, NewestUnchanged
<1>9. \A q \in Bound(s) : q <= r
  BY <1>1, <1>2, <1>4 DEF SnapshotSettles
<1>10. r <= current[s] /\ \A q \in Bound(s) : q <= current[s]
  BY <1>1, <1>2 DEF OnlyProvidersRevisions
<1>11. \A v \in Importers : v # w /\ import[v] # Idle /\ import[v].source = s =>
         import[v].snapshot # {r}
  BY <1>3 DEF TiesPrecedeImports, IsTie
<1>12. OnlyProvidersRevisions' /\ TiesPrecedeImports' /\ SnapshotSettles'
  <2>1. Bound(s) \subseteq Bound(s)' /\ \A q \in Bound(s)' : q <= current[s]
    BY <1>7, <1>10
  <2> QED
    BY <1>1, <1>2, <1>3, <1>4, <1>7, <1>8, <1>10, <1>11, <2>1, WriteOutdates
<1>13. ResolutionsAgree'
  <2>1. ASSUME NEW u \in resolutions'[s], NEW v \in resolutions'[s]
        PROVE  /\ u.tied = v.tied => u.current = v.current
               /\ u.current \in u.tied
               /\ \A q \in u.tied : q \in Bound(s)' /\ q <= u.current
    BY <1>3, <1>4, <1>5, <1>7, <1>9, <2>1 DEF ResolutionsAgree
  <2>2. ASSUME NEW t \in Sources, t # s, NEW u \in resolutions'[t], NEW v \in resolutions'[t]
        PROVE  /\ u.tied = v.tied => u.current = v.current
               /\ u.current \in u.tied
               /\ \A q \in u.tied : q \in Bound(t)' /\ q <= u.current
    BY <1>3, <1>7, <2>2 DEF ResolutionsAgree
  <2> QED BY <2>1, <2>2 DEF ResolutionsAgree
<1>14. NewestIsMostAdvanced'
  <2>1. \A t \in Sources : t # s =>
          IsTie(NewestVersions(t)') = IsTie(NewestVersions(t))
    BY <1>8
  <2> QED BY <1>3, <1>7, <1>8, <1>9, <2>1 DEF NewestIsMostAdvanced, IsTie
<1> QED BY <1>6, <1>12, <1>13, <1>14

-----------------------------------------------------------------------------
LEMMA BindingNextPreserves == BindingInv /\ [BindingNext]_bindingVars => BindingInv'
<1> SUFFICES ASSUME BindingInv, [BindingNext]_bindingVars PROVE BindingInv'
  OBVIOUS
<1>1. ASSUME NEW s \in Sources, ProviderRevises(s) PROVE BindingInv'
  BY <1>1, ProviderPreserves
<1>2. ASSUME NEW s \in Sources, Tombstone(s) PROVE BindingInv'
  BY <1>2, FlagsPreserve DEF Tombstone, BindingInv, BindingTypeOK
<1>3. CASE ToggleConnection
  BY <1>3, FlagsPreserve DEF ToggleConnection, BindingInv, BindingTypeOK
<1>4. ASSUME NEW w \in Importers, NEW s \in Sources, NEW r \in Revisions,
             BeginImport(w, s, r)
      PROVE  BindingInv'
  BY <1>4, BeginPreserves
<1>5. ASSUME NEW w \in Importers, ObserveBefore(w) \/ ObserveAfter(w)
      PROVE  BindingInv'
  BY <1>5, ObservePreserves DEF ObserveBefore, ObserveAfter
<1>6. ASSUME NEW w \in Importers, NEW now \in Instants, RecordNew(w, now)
      PROVE  BindingInv'
  BY <1>6, RecordNewPreserves
<1>7. ASSUME NEW w \in Importers, RecordResolution(w) PROVE BindingInv'
  BY <1>7, RecordResolutionPreserves
<1>8. ASSUME NEW w \in Importers, AbandonImport(w) PROVE BindingInv'
  BY <1>8, AbandonPreserves
<1>9. CASE UNCHANGED bindingVars
  BY <1>9, FlagsPreserve DEF bindingVars, BindingInv, BindingTypeOK
<1> QED
  BY <1>1, <1>2, <1>3, <1>4, <1>5, <1>6, <1>7, <1>8, <1>9 DEF BindingNext, Record

(* The inductive invariant holds throughout.                                 *)
THEOREM BindingInvariance == BindingSpec => []BindingInv
BY InitEstablishes, BindingNextPreserves, PTL DEF BindingSpec

(* Every variable keeps its type.                                            *)
THEOREM BindingTypes == BindingSpec => []BindingTypeOK
BY BindingInvariance, PTL DEF BindingInv

(* The unique newest binding is the most advanced revision ever bound.       *)
THEOREM NewestIsAlwaysMostAdvanced == BindingSpec => []NewestIsMostAdvanced
BY BindingInvariance, PTL DEF BindingInv

(* A tie is resolved once, to its most advanced member.                      *)
THEOREM ResolutionsAlwaysAgree == BindingSpec => []ResolutionsAgree
BY BindingInvariance, PTL DEF BindingInv

(* A tombstoned source's newest binding never moves again. *)
THEOREM TombstonesFreeze == BindingSpec => TombstoneFreezesNewest
<1>1. BindingTypeOK /\ [BindingNext]_bindingVars =>
        [\A s \in tombstoned : NewestVersions(s)' = NewestVersions(s)]_bindingVars
  <2> SUFFICES ASSUME BindingTypeOK, BindingNext, NEW s \in tombstoned
               PROVE  NewestVersions(s)' = NewestVersions(s)
    OBVIOUS
  <2>1. s \in Sources
    BY DEF BindingTypeOK
  <2>2. boundAt'[s] = boundAt[s] /\ resolutions'[s] = resolutions[s]
    <3>1. CASE \E w \in Importers, now \in Instants : RecordNew(w, now)
      <4>1. PICK w \in Importers, now \in Instants : RecordNew(w, now)
        BY <3>1
      <4>2. import[w].source # s /\ import[w].source \in Sources
        BY <4>1 DEF RecordNew, WriteAdmitted, BindingTypeOK, Idle, Import
      <4> QED BY <2>1, <4>1, <4>2 DEF RecordNew, BindingTypeOK
    <3>2. CASE \E w \in Importers : RecordResolution(w)
      <4>1. PICK w \in Importers : RecordResolution(w)
        BY <3>2
      <4>2. import[w].source # s /\ import[w].source \in Sources
        BY <4>1 DEF RecordResolution, WriteAdmitted, BindingTypeOK, Idle, Import
      <4> QED BY <2>1, <4>1, <4>2 DEF RecordResolution, BindingTypeOK
    <3>3. CASE boundAt' = boundAt /\ resolutions' = resolutions
      BY <3>3
    <3> QED
      BY <3>1, <3>2, <3>3
      DEF BindingNext, ProviderRevises, Tombstone, ToggleConnection, BeginImport,
          ObserveBefore, ObserveAfter, ObserveVersion, Record, AbandonImport
  <2> QED BY <2>2, NewestUnchanged
<1> QED BY <1>1, BindingInvariance, PTL DEF BindingSpec, TombstoneFreezesNewest, BindingInv

-----------------------------------------------------------------------------
(* The register that readers see.                                            *)
Latest(s) == TheOnly(NewestVersions(s))

LEMMA NewestIsBound ==
  ASSUME ResolutionsAgree, NEW s \in Sources
  PROVE  NewestVersions(s) \subseteq Bound(s) /\ Bound(s) \subseteq Revisions
<1>1. TopBindings(s) \subseteq Bound(s) /\ Bound(s) \subseteq Revisions
  BY DEF TopBindings, Bound
<1>2. \A v \in resolutions[s] : v.tied = TopBindings(s) => v.current \in TopBindings(s)
  BY DEF ResolutionsAgree
<1> QED BY <1>1, <1>2 DEF NewestVersions

LEMMA LatestIs ==
  ASSUME NEW r
  PROVE  TheOnly({r}) = r
BY DEF TheOnly, IsTie

(* The latest revision is the most advanced one bound, if there is one.      *)
LEMMA LatestLeads ==
  ASSUME ResolutionsAgree, NewestIsMostAdvanced, NEW s \in Sources
  PROVE  \/ Latest(s) = 0
         \/ /\ Latest(s) \in Bound(s) /\ Latest(s) \in Revisions
            /\ \A q \in Bound(s) : q <= Latest(s)
<1>1. CASE IsTie(NewestVersions(s)) \/ NewestVersions(s) = {}
  BY <1>1 DEF Latest, TheOnly
<1>2. CASE ~IsTie(NewestVersions(s)) /\ NewestVersions(s) # {}
  <2>1. PICK r \in NewestVersions(s) : TRUE
    BY <1>2
  <2>2. NewestVersions(s) = {r}
    BY <1>2, <2>1 DEF IsTie
  <2>3. r \in Bound(s) /\ r \in Revisions
    BY <2>1, NewestIsBound
  <2>4. Latest(s) = r
    BY <2>2, LatestIs DEF Latest
  <2>5. \A q \in Bound(s) : q <= r
    BY <1>2, <2>1 DEF NewestIsMostAdvanced
  <2> QED BY <2>3, <2>4, <2>5
<1> QED BY <1>1, <1>2

LEMMA RegisterStarts == BindingInit => Register!LatestInit
<1> SUFFICES ASSUME BindingInit PROVE Register!LatestInit
  OBVIOUS
<1>1. ResolutionsAgree /\ NewestIsMostAdvanced
  BY InitEstablishes DEF BindingInv
<1>2. \A s \in Sources : Bound(s) \in SUBSET (1 .. MaxRevision)
  BY DEF Bound, Revisions
<1>3. \A s \in Sources : Latest(s) \in {0} \union 1 .. MaxRevision
  BY <1>1, LatestLeads DEF Revisions
<1>4. \A s \in Sources : Latest(s) # 0 =>
        Latest(s) \in Bound(s) /\ \A q \in Bound(s) : q <= Latest(s)
  BY <1>1, LatestLeads
<1>5. tombstoned = {}
  BY DEF BindingInit
<1> QED BY <1>2, <1>3, <1>4, <1>5
        DEF Latest, Register!LatestInit, Register!Undecided, Register!IsMostAdvanced

LEMMA RegisterStands ==
  ASSUME boundAt' = boundAt, resolutions' = resolutions
  PROVE  \A s \in Sources : Latest(s)' = Latest(s) /\ Bound(s)' = Bound(s)
BY BindingsStay DEF Latest

(* The two steps that move a source's newest binding. *)
LEMMA RecordNewAdvances ==
  ASSUME BindingInv, NEW w \in Importers, NEW now \in Instants, RecordNew(w, now)
  PROVE  Register!LatestNext
<1>1. BindingTypeOK /\ NewestIsMostAdvanced'
  BY RecordNewPreserves DEF BindingInv
<1>2. import[w] \in Import
  BY <1>1 DEF BindingTypeOK, RecordNew, Idle
<1>3. PICK s \in Sources, r \in Revisions : s = import[w].source /\ r = import[w].revision
  BY <1>2 DEF Import
<1>4. /\ Bound(s)' = Bound(s) \union {r}
      /\ NewestVersions(s)' = {r}
      /\ \A t \in Sources : t # s => boundAt'[t] = boundAt[t]
  BY <1>1, <1>3, NewOnTop
<1>5. /\ s \notin tombstoned /\ r \notin Bound(s)
      /\ resolutions' = resolutions /\ tombstoned' = tombstoned
  BY <1>3 DEF RecordNew, WriteAdmitted
<1>6. \A t \in Sources : t # s => Latest(t)' = Latest(t) /\ Bound(t)' = Bound(t)
  BY <1>4, <1>5, NewestUnchanged DEF Latest
<1>7. Latest(s)' = r
  BY <1>4, LatestIs DEF Latest
<1>8. \A q \in Bound(s) : q <= r
  BY <1>1, <1>4 DEF NewestIsMostAdvanced, IsTie
<1>9. Register!Advance(s, r)
  <2>1. [t \in Sources |-> Latest(t)'] = [[t \in Sources |-> Latest(t)] EXCEPT ![s] = r]
    BY <1>6, <1>7
  <2>2. [t \in Sources |-> Bound(t)'] = [[t \in Sources |-> Bound(t)] EXCEPT ![s] = @ \union {r}]
    BY <1>4, <1>6
  <2> QED BY <1>5, <1>8, <2>1, <2>2 DEF Latest, Register!Advance, Register!IsMostAdvanced
<1> QED BY <1>9 DEF Register!LatestNext, Revisions

LEMMA ResolutionDecides ==
  ASSUME BindingInv, NEW w \in Importers, RecordResolution(w)
  PROVE  Register!LatestNext
<1>1. BindingTypeOK /\ ResolutionsAgree /\ NewestIsMostAdvanced'
  BY RecordResolutionPreserves DEF BindingInv
<1>2. import[w] \in Import
  BY <1>1 DEF BindingTypeOK, RecordResolution, Idle
<1>3. PICK s \in Sources, r \in Revisions : s = import[w].source /\ r = import[w].revision
  BY <1>2 DEF Import
<1>4. /\ IsTie(NewestVersions(s))
      /\ NewestVersions(s)' = {r}
      /\ \A t \in Sources : t # s => resolutions'[t] = resolutions[t]
  BY <1>1, <1>3, ResolutionSettles
<1>5. /\ s \notin tombstoned /\ r \in Bound(s)
      /\ boundAt' = boundAt /\ tombstoned' = tombstoned
  BY <1>3 DEF RecordResolution, WriteAdmitted
<1>6. \A t \in Sources : Bound(t)' = Bound(t)
  BY <1>5 DEF Bound
<1>7. \A t \in Sources : t # s => Latest(t)' = Latest(t)
  BY <1>4, <1>5, NewestUnchanged DEF Latest
<1>8. Latest(s) = 0
  BY <1>4 DEF Latest, TheOnly
<1>9. Latest(s)' = r
  BY <1>4, LatestIs DEF Latest
<1>10. \A q \in Bound(s) : q <= r
  BY <1>1, <1>4, <1>6 DEF NewestIsMostAdvanced, IsTie
<1>11. Register!Decide(s, r)
  <2>1. [t \in Sources |-> Latest(t)'] = [[t \in Sources |-> Latest(t)] EXCEPT ![s] = r]
    BY <1>7, <1>9
  <2>2. [t \in Sources |-> Bound(t)'] = [t \in Sources |-> Bound(t)]
    BY <1>6
  <2> QED BY <1>5, <1>8, <1>10, <2>1, <2>2
          DEF Latest, Register!Decide, Register!IsMostAdvanced, Register!Undecided
<1> QED BY <1>11 DEF Register!LatestNext, Revisions

LEMMA RegisterSteps ==
  BindingInv /\ [BindingNext]_bindingVars => [Register!LatestNext]_(Register!latestVars)
<1> SUFFICES ASSUME BindingInv, [BindingNext]_bindingVars
             PROVE  [Register!LatestNext]_(Register!latestVars)
  OBVIOUS
<1>1. ASSUME boundAt' = boundAt, resolutions' = resolutions, tombstoned' = tombstoned
      PROVE  UNCHANGED Register!latestVars
  BY <1>1, RegisterStands DEF Latest, Register!latestVars
<1>2. ASSUME NEW s \in Sources, Tombstone(s) PROVE Register!LatestNext
  <2>1. UNCHANGED <<[t \in Sources |-> Latest(t)], [t \in Sources |-> Bound(t)]>>
    BY <1>2, RegisterStands DEF Tombstone
  <2> QED BY <1>2, <2>1 DEF Latest, Tombstone, Register!LatestNext, Register!Forget
<1>3. ASSUME NEW w \in Importers, Record(w) PROVE Register!LatestNext
  BY <1>3, RecordNewAdvances, ResolutionDecides DEF Record
<1>4. CASE \/ \E s \in Sources : ProviderRevises(s)
           \/ ToggleConnection
           \/ \E w \in Importers :
                \/ \E s \in Sources, r \in Revisions : BeginImport(w, s, r)
                \/ ObserveBefore(w) \/ ObserveAfter(w) \/ AbandonImport(w)
           \/ UNCHANGED bindingVars
  <2>1. boundAt' = boundAt /\ resolutions' = resolutions /\ tombstoned' = tombstoned
    BY <1>4 DEF ProviderRevises, ToggleConnection, BeginImport, ObserveBefore, ObserveAfter,
                ObserveVersion, AbandonImport, bindingVars
  <2> QED BY <1>1, <2>1
<1> QED BY <1>2, <1>3, <1>4 DEF BindingNext

(* What importers, ties, clocks and deletions do to the bindings is, to a    *)
(* reader, a register of latest revisions: it moves forward only, names the  *)
(* most advanced revision bound, and a tombstone stops it.                   *)
THEOREM BindingsImplementRegister == BindingSpec => BindingsAreARegister
BY RegisterStarts, RegisterSteps, BindingInvariance, PTL
DEF BindingSpec, BindingsAreARegister, Register!LatestSpec
=============================================================================
