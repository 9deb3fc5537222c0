----------------------------- MODULE GitSyncProofs -----------------------------
(* Proofs about GitSync, for all sources, contents and numbers of syncs: the  *)
(* registry that syncs write (MixinsResolved), what they record and answer    *)
(* (RecordsFitAnswers), the sources (DeletedStaysDeleted), and that the       *)
(* registry fits their stamps (RegistryFitsStamps).                           *)
EXTENDS GitSync, TLAPS, FiniteSetTheorems, WellFoundedInduction

\* The shape of the registry, and what a definition states itself is its own.
TypeEntry(t) ==
  /\ DOMAIN t = {"from", "own", "mixins", "attributes"}
  /\ t.own \subseteq DOMAIN t.attributes
  /\ \A a \in t.own : t.attributes[a] = t.from
MixinEntry(m) == m.own \subseteq Attributes
Shape(reg) ==
  /\ DOMAIN reg = {"types", "mixins"}
  /\ \A n \in DOMAIN reg.types : TypeEntry(reg.types[n])
  /\ \A n \in DOMAIN reg.mixins : MixinEntry(reg.mixins[n])

\* MixinsMerged, of any registry.
AllMerged(reg) ==
  \A n \in DOMAIN reg.types : \A i \in DOMAIN reg.types[n].mixins :
    reg.types[n].mixins[i] \in DOMAIN reg.mixins =>
      reg.mixins[reg.types[n].mixins[i]].own \subseteq DOMAIN reg.types[n].attributes

RegistryInv == Shape(registry) /\ AllMerged(registry)

--------------------------------------------------------------------------------
\* Over(f, g) has the entries of f, and those of g elsewhere.
LEMMA OverFact ==
  ASSUME NEW f, NEW g
  PROVE  /\ DOMAIN Over(f, g) = DOMAIN f \union DOMAIN g
         /\ \A x \in DOMAIN f : Over(f, g)[x] = f[x]
         /\ \A x \in DOMAIN g \ DOMAIN f : Over(f, g)[x] = g[x]
BY DEF Over

\* Merging keeps an entry well formed and gives it the attributes of its mixins.
LEMMA MergedFact ==
  ASSUME NEW t, NEW ms, TypeEntry(t), \A n \in DOMAIN ms : MixinEntry(ms[n])
  PROVE  /\ TypeEntry(Merged(t, ms))
         /\ Merged(t, ms).mixins = t.mixins
         /\ \A i \in DOMAIN t.mixins : t.mixins[i] \in DOMAIN ms =>
              ms[t.mixins[i]].own \subseteq DOMAIN Merged(t, ms).attributes
<1> DEFINE u == Merged(t, ms)
<1>1. /\ DOMAIN u = DOMAIN t /\ u.from = t.from /\ u.own = t.own /\ u.mixins = t.mixins
      /\ u.attributes = Over(t.attributes, GivenBy(t, ms))
  BY DEF Merged, TypeEntry
<1>2. /\ DOMAIN u.attributes = DOMAIN t.attributes \union DOMAIN GivenBy(t, ms)
      /\ \A a \in DOMAIN t.attributes : u.attributes[a] = t.attributes[a]
  <2>1. /\ DOMAIN Over(t.attributes, GivenBy(t, ms)) = DOMAIN t.attributes \union DOMAIN GivenBy(t, ms)
        /\ \A a \in DOMAIN t.attributes :
             Over(t.attributes, GivenBy(t, ms))[a] = t.attributes[a]
    BY OverFact, Zenon
  <2> QED  BY <1>1, <2>1, Zenon
<1> HIDE DEF u
<1>3. TypeEntry(u)
  BY <1>1, <1>2 DEF TypeEntry
<1>4. ASSUME NEW i \in DOMAIN t.mixins, t.mixins[i] \in DOMAIN ms, NEW a \in ms[t.mixins[i]].own
      PROVE  a \in DOMAIN u.attributes
  <2>1. a \in Attributes /\ Giving(t, ms, a) # {}
    BY <1>4 DEF MixinEntry, Giving
  <2>2. a \in DOMAIN GivenBy(t, ms)
    BY <2>1 DEF GivenBy
  <2> QED  BY <2>2, <1>2
<1> QED  BY <1>1, <1>3, <1>4 DEF u

\* Resolving a well formed registry merges all of it.
LEMMA ResolveFact ==
  ASSUME NEW reg, Shape(reg)
  PROVE  Shape(Resolve(reg)) /\ AllMerged(Resolve(reg))
<1> DEFINE new == Resolve(reg)
<1>1. /\ DOMAIN new = {"types", "mixins"} /\ new.mixins = reg.mixins
      /\ DOMAIN new.types = DOMAIN reg.types
      /\ \A n \in DOMAIN reg.types : new.types[n] = Merged(reg.types[n], reg.mixins)
  BY DEF Resolve, Shape
<1> HIDE DEF new
<1>2. ASSUME NEW n \in DOMAIN reg.types
      PROVE  /\ TypeEntry(new.types[n])
             /\ \A i \in DOMAIN new.types[n].mixins : new.types[n].mixins[i] \in DOMAIN new.mixins =>
                  new.mixins[new.types[n].mixins[i]].own \subseteq DOMAIN new.types[n].attributes
  BY <1>1, MergedFact DEF Shape
<1>3. Shape(new)
  BY <1>1, <1>2 DEF Shape
<1>4. AllMerged(new)
  BY <1>1, <1>2 DEF AllMerged
<1> QED  BY <1>3, <1>4 DEF new

\* Registering parsed definitions keeps the shape.
LEMMA RegisterFact ==
  ASSUME NEW reg, NEW ds \in SUBSET Definitions, NEW o, Shape(reg)
  PROVE  Shape(Register(reg, ds, o))
<1> DEFINE types == [n \in Named(ds, "NodeType") |->
                       [from |-> o, own |-> The(ds, "NodeType", n).own,
                        mixins |-> The(ds, "NodeType", n).mixins,
                        attributes |-> [a \in The(ds, "NodeType", n).own |-> o]]]
           mixins == [n \in Named(ds, "Mixin") |->
                        [from |-> o, own |-> The(ds, "Mixin", n).own]]
           new == Register(reg, ds, o)
<1>1. DOMAIN new = {"types", "mixins"} /\ new.types = Over(types, reg.types)
      /\ new.mixins = Over(mixins, reg.mixins)
  BY DEF Register
<1>2. \A n \in DOMAIN types : TypeEntry(types[n])
  BY DEF TypeEntry
<1>3. \A n \in DOMAIN mixins : MixinEntry(mixins[n])
  <2>1. ASSUME NEW n \in Named(ds, "Mixin")
        PROVE  The(ds, "Mixin", n) \in ds
    <3>1. \E d \in ds : d.kind = "Mixin" /\ d.name = n
      BY <2>1 DEF Named
    <3> QED  BY <3>1 DEF The
  <2>2. \A d \in ds : d.own \subseteq Attributes
    BY DEF Definitions
  <2> QED  BY <2>1, <2>2 DEF MixinEntry
<1> HIDE DEF types, mixins, new
<1>4. \A n \in DOMAIN new.types : TypeEntry(new.types[n])
  <2>1. \A n \in DOMAIN reg.types : TypeEntry(reg.types[n])
    BY DEF Shape
  <2>2. \A n \in DOMAIN Over(types, reg.types) : TypeEntry(Over(types, reg.types)[n])
    BY <1>2, <2>1 DEF Over
  <2> QED  BY <1>1, <2>2, Zenon
<1>5. \A n \in DOMAIN new.mixins : MixinEntry(new.mixins[n])
  <2>1. \A n \in DOMAIN reg.mixins : MixinEntry(reg.mixins[n])
    BY DEF Shape
  <2>2. \A n \in DOMAIN Over(mixins, reg.mixins) : MixinEntry(Over(mixins, reg.mixins)[n])
    BY <1>3, <2>1 DEF Over
  <2> QED  BY <1>1, <2>2, Zenon
<1> QED  BY <1>1, <1>4, <1>5 DEF Shape, new

\* So does loading the directories on disk into an empty registry.
LEMMA AtStartFact == Shape(AtStart) /\ AllMerged(AtStart)
<1>1. Shape(Empty)
  BY DEF Shape, Empty
<1>2. Shape(Register(Empty, Core, [source |-> "core", commit |-> 0]))
  BY <1>1, RegisterFact, SyncAssumption
<1> QED  BY <1>2, ResolveFact DEF AtStart

\* Applying the schemas of a commit keeps the registry merged.
LEMMA AppliedFact ==
  ASSUME NEW s \in Sources, NEW c \in Commits, RegistryInv
  PROVE  Shape(Applied(registry, s, c)) /\ AllMerged(Applied(registry, s, c))
<1>1. Repo[s][c].definitions \in SUBSET Definitions
  BY SyncAssumption
<1>2. Shape(Register(registry, Repo[s][c].definitions, [source |-> s, commit |-> c]))
  BY <1>1, RegisterFact DEF RegistryInv
<1> QED  BY <1>2, ResolveFact DEF Applied, RegistryInv

--------------------------------------------------------------------------------
\* What a sync needs to know of its own place: which source and commit it has.
Clones ==
  /\ head \in [Sources -> Commits]
  /\ of \in [Syncs -> Sources]
  /\ clone \in [Syncs -> 0..MaxCommit]
  /\ \A r \in Syncs : pc[r] = "files" => clone[r] \in Commits
  /\ DOMAIN pc = Syncs
IInv == Clones /\ RegistryInv

\* Advance leaves the registry as it is or applies the cloned commit.
LEMMA AdvanceFact ==
  ASSUME NEW r \in Syncs, NEW s \in Sources, NEW c \in Commits, NEW i,
         RegistryInv, Advance(r, s, c, i)
  PROVE  RegistryInv'
<1>1. registry' = registry \/ registry' = Applied(registry, s, c)
  BY DEF Advance
<1>2. CASE registry' = registry
  BY <1>2 DEF RegistryInv, Shape, AllMerged, TypeEntry, MixinEntry
<1>3. CASE registry' = Applied(registry, s, c)
  BY <1>3, AppliedFact DEF RegistryInv, Shape, AllMerged, TypeEntry, MixinEntry
<1> QED  BY <1>1, <1>2, <1>3

\* A step of the loop over the mappings keeps what is known of the clones.
LEMMA AdvanceClones ==
  ASSUME NEW r \in Syncs, NEW s \in Sources, NEW c \in Commits, NEW i,
         Clones, Advance(r, s, c, i), head' = head, of' = of,
         clone' = [clone EXCEPT ![r] = c]
  PROVE  Clones'
<1>1. /\ DOMAIN pc' = Syncs
      /\ \A q \in Syncs \ {r} : pc'[q] = pc[q]
  BY DEF Advance, Clones
<1>2. /\ clone' \in [Syncs -> 0..MaxCommit] /\ clone'[r] = c
      /\ \A q \in Syncs \ {r} : clone'[q] = clone[q]
  BY SyncAssumption DEF Clones, Commits
<1>3. \A q \in Syncs : pc'[q] = "files" => clone'[q] \in Commits
  BY <1>1, <1>2 DEF Clones
<1> QED  BY <1>1, <1>2, <1>3 DEF Clones

\* A step that leaves registry and clones alone, and starts no loop, keeps IInv.
LEMMA ElsewhereFact ==
  ASSUME IInv, UNCHANGED <<registry, clone>>,
         head' \in [Sources -> Commits], of' \in [Syncs -> Sources],
         DOMAIN pc' = Syncs, \A q \in Syncs : pc'[q] = "files" => pc[q] = "files"
  PROVE  IInv'
BY DEF IInv, Clones, RegistryInv, Shape, AllMerged, TypeEntry, MixinEntry

\* The process starts with an invariant registry and without clones.
LEMMA InitFact == Init => IInv
<1> SUFFICES ASSUME Init PROVE IInv
  OBVIOUS
<1>1. RegistryInv
  BY AtStartFact DEF Init, RegistryInv
<1>2. ASSUME NEW r \in Syncs  PROVE of[r] \in Sources
  BY SyncAssumption DEF Init
<1>3. Clones
  BY <1>2, SyncAssumption DEF Init, Clones, Commits
<1> QED  BY <1>1, <1>3 DEF IInv

\* Every step keeps the invariant: only Clone, WriteFiles and Restart write the
\* registry, and each of them resolves what it has registered.
LEMMA StepFact == IInv /\ [Next]_vars => IInv'
<1> SUFFICES ASSUME IInv, [Next]_vars  PROVE IInv'
  OBVIOUS
<1> USE DEF Clones, syncVars
<1>1. ASSUME NEW s \in Sources, Push(s)  PROVE IInv'
  <2>1. head' \in [Sources -> Commits]
    BY <1>1, SyncAssumption DEF Push, IInv, Commits
  <2> QED  BY <1>1, <2>1, ElsewhereFact DEF Push, IInv
<1>2. ASSUME NEW s \in Sources, RegisterSource(s)  PROVE IInv'
  BY <1>2, ElsewhereFact DEF RegisterSource, IInv
<1>3. ASSUME NEW s \in Sources, DeleteSource(s)  PROVE IInv'
  BY <1>3, ElsewhereFact DEF DeleteSource, IInv
<1>4. ASSUME NEW r \in Syncs, NEW s \in Sources, Begin(r, s)  PROVE IInv'
  <2>1. DOMAIN pc' = Syncs /\ \A q \in Syncs : pc'[q] = "files" => pc[q] = "files"
    BY <1>4 DEF Begin, IInv
  <2> QED  BY <1>4, <2>1, ElsewhereFact DEF Begin, IInv
<1>5. ASSUME NEW r \in Syncs, Clone(r)  PROVE IInv'
  <2>1. of[r] \in Sources /\ head[of[r]] \in Commits
    BY DEF IInv
  <2> HIDE DEF Clones
  <2>2. Clones'
    BY <1>5, <2>1, AdvanceClones DEF Clone, IInv
  <2>3. RegistryInv'
    BY <1>5, <2>1, AdvanceFact DEF Clone, IInv
  <2> QED  BY <2>2, <2>3 DEF IInv
<1>6. ASSUME NEW r \in Syncs, CloneFails(r)  PROVE IInv'
  BY <1>6, ElsewhereFact DEF CloneFails, IInv
<1>7. ASSUME NEW r \in Syncs, WriteFiles(r)  PROVE IInv'
  <2>1. of[r] \in Sources /\ clone[r] \in Commits
    BY <1>7 DEF WriteFiles, IInv
  <2>2. clone' = [clone EXCEPT ![r] = clone[r]]
    BY <1>7 DEF WriteFiles, IInv
  <2> HIDE DEF Clones
  <2>3. Clones'
    BY <1>7, <2>1, <2>2, AdvanceClones DEF WriteFiles, IInv
  <2>4. RegistryInv'
    BY <1>7, <2>1, AdvanceFact DEF WriteFiles, IInv
  <2> QED  BY <2>3, <2>4 DEF IInv
<1>8. ASSUME NEW r \in Syncs, Stamp(r)  PROVE IInv'
  <2>1. DOMAIN pc' = Syncs /\ \A q \in Syncs : pc'[q] = "files" => pc[q] = "files"
    BY <1>8 DEF Stamp, IInv
  <2> QED  BY <1>8, <2>1, ElsewhereFact DEF Stamp, IInv
<1>9. ASSUME NEW r \in Syncs, Record(r)  PROVE IInv'
  <2>1. DOMAIN pc' = Syncs /\ \A q \in Syncs : pc'[q] = "files" => pc[q] = "files"
    BY <1>9 DEF Record, IInv
  <2> QED  BY <1>9, <2>1, ElsewhereFact DEF Record, IInv
<1>10. ASSUME NEW r \in Syncs, Announce(r)  PROVE IInv'
  BY <1>10, ElsewhereFact DEF Announce, IInv
<1>11. ASSUME NEW r \in Syncs, RecordFailure(r)  PROVE IInv'
  BY <1>11, ElsewhereFact DEF RecordFailure, IInv
<1>12. CASE Restart
  <2>1. RegistryInv'
    <3>1. Shape(registry') /\ AllMerged(registry')
      BY <1>12, AtStartFact DEF Restart
    <3> QED  BY <3>1 DEF RegistryInv, Shape, AllMerged, TypeEntry, MixinEntry
  <2>2. Clones'
    BY <1>12 DEF Restart, IInv
  <2> QED  BY <2>1, <2>2 DEF IInv
<1>13. CASE UNCHANGED vars
  BY <1>13, ElsewhereFact DEF vars, IInv
<1> QED
  BY <1>1, <1>2, <1>3, <1>4, <1>5, <1>6, <1>7, <1>8, <1>9, <1>10, <1>11,
     <1>12, <1>13 DEF Next, SyncStep

\* A node type has the attributes of every registered mixin that it names, for
\* any sources and any interleaving of syncs and restarts (_resolve_mixins).
THEOREM MixinsAreMerged == Spec => []MixinsMerged
<1>1. IInv => MixinsMerged
  BY DEF IInv, RegistryInv, AllMerged, MixinsMerged
<1> QED  BY InitFact, StepFact, <1>1, PTL DEF Spec

\* An attribute that a node type states itself is never taken from a mixin, for
\* any sources and any interleaving of syncs and restarts (_resolve_mixins).
THEOREM OwnAttributesWin == Spec => []OwnDefinitionsWin
<1>1. IInv => OwnDefinitionsWin
  BY DEF IInv, RegistryInv, Shape, TypeEntry, OwnDefinitionsWin
<1> QED  BY InitFact, StepFact, <1>1, PTL DEF Spec

\* Both together: at every moment the mixins of every type are resolved.
THEOREM MixinsAreResolved == Spec => []MixinsResolved
<1>1. MixinsMerged /\ OwnDefinitionsWin => MixinsResolved
  BY DEF MixinsResolved
<1> QED  BY MixinsAreMerged, OwnAttributesWin, <1>1, PTL

--------------------------------------------------------------------------------
(* Types.                                                                    *)

\* A set of naturals has a least element, and Min is it.
LEMMA LeastOf ==
  ASSUME NEW T, T \subseteq Nat, T # {}
  PROVE  Min(T) \in T /\ \A y \in T : Min(T) <= y
<1> DEFINE Below == {0..k : k \in T}
<1>1. Below # {} /\ Below \subseteq FiniteSubsetsOf(Nat)
  <2>1. \A k \in T : IsFiniteSet(0..k) /\ 0..k \subseteq Nat
    BY FS_Interval
  <2> QED  BY <2>1 DEF FiniteSubsetsOf
<1> HIDE DEF Below
<1>2. PICK X \in Below : \A Y \in Below : ~(<<Y, X>> \in StrictSubsetOrdering(Nat))
  BY <1>1, WFMin, FS_StrictSubsetOrderingWellFounded
<1>3. PICK x \in T : X = 0..x
  BY DEF Below
<1>4. ASSUME NEW y \in T  PROVE x <= y
  <2>1. CASE y < x
    <3>1. 0..y \in Below /\ 0..y \subseteq 0..x /\ 0..y # 0..x
      BY <2>1 DEF Below
    <3> QED  BY <1>1, <1>2, <1>3, <3>1 DEF StrictSubsetOrdering, FiniteSubsetsOf
  <2> QED  BY <2>1
<1> QED  BY <1>4 DEF Min

\* What TypeOK says of the registry, and that mixins are named in a sequence.
TypedType(t) ==
  /\ t.from \in Origins
  /\ t.mixins \in Seq(Names)
  /\ DOMAIN t.attributes \subseteq Attributes
  /\ \A a \in DOMAIN t.attributes : t.attributes[a] \in Origins
Typed(reg) ==
  /\ DOMAIN reg.types \subseteq Names /\ DOMAIN reg.mixins \subseteq Names
  /\ \A n \in DOMAIN reg.types : TypedType(reg.types[n])
  /\ \A n \in DOMAIN reg.mixins : reg.mixins[n].from \in Origins
Fine(reg) == Shape(reg) /\ Typed(reg)

\* Merging gives a type attributes of Attributes, with the origin of a mixin.
LEMMA MergedTyped ==
  ASSUME NEW t, NEW ms, TypeEntry(t), TypedType(t),
         \A n \in DOMAIN ms : ms[n].from \in Origins
  PROVE  TypedType(Merged(t, ms))
<1> DEFINE u == Merged(t, ms)
           g == GivenBy(t, ms)
<1>1. /\ u.from = t.from /\ u.mixins = t.mixins
      /\ u.attributes = Over(t.attributes, g)
  BY DEF Merged, TypeEntry
<1>2. DOMAIN g \subseteq Attributes
  BY DEF GivenBy
<1>3. ASSUME NEW a \in DOMAIN g  PROVE g[a] \in Origins
  <2> DEFINE T == Giving(t, ms, a)
  <2>1. T # {} /\ g[a] = ms[t.mixins[Min(T)]].from
    BY <1>3 DEF GivenBy
  <2>2. T \subseteq Nat
    BY DEF Giving, TypedType
  <2>3. Min(T) \in T
    <3> HIDE DEF T
    <3> QED  BY <2>1, <2>2, LeastOf
  <2>4. t.mixins[Min(T)] \in DOMAIN ms
    BY <2>3 DEF Giving
  <2> QED  BY <2>1, <2>4
<1>4. /\ DOMAIN Over(t.attributes, g) = DOMAIN t.attributes \union DOMAIN g
      /\ \A x \in DOMAIN t.attributes : Over(t.attributes, g)[x] = t.attributes[x]
      /\ \A x \in DOMAIN g \ DOMAIN t.attributes : Over(t.attributes, g)[x] = g[x]
  <2> HIDE DEF g
  <2> QED  BY OverFact, Zenon
<1> HIDE DEF g, u
<1>5. /\ DOMAIN u.attributes \subseteq Attributes
      /\ \A a \in DOMAIN u.attributes : u.attributes[a] \in Origins
  BY <1>1, <1>2, <1>3, <1>4 DEF TypedType
<1> QED  BY <1>1, <1>5 DEF TypedType, u

\* So does resolving a registry.
LEMMA ResolveTyped ==
  ASSUME NEW reg, Fine(reg)
  PROVE  Fine(Resolve(reg))
<1> DEFINE new == Resolve(reg)
<1>1. /\ new.mixins = reg.mixins /\ DOMAIN new.types = DOMAIN reg.types
      /\ \A n \in DOMAIN reg.types : new.types[n] = Merged(reg.types[n], reg.mixins)
  BY DEF Resolve, Fine, Shape
<1>2. ASSUME NEW n \in DOMAIN reg.types  PROVE TypedType(new.types[n])
  <2>1. TypeEntry(reg.types[n]) /\ TypedType(reg.types[n])
        /\ \A m \in DOMAIN reg.mixins : reg.mixins[m].from \in Origins
    BY DEF Fine, Shape, Typed
  <2>2. TypedType(Merged(reg.types[n], reg.mixins))
    BY <2>1, MergedTyped
  <2> HIDE DEF new
  <2> QED  BY <1>1, <2>2
<1> HIDE DEF new
<1>3. Typed(new)
  BY <1>1, <1>2 DEF Typed, Fine
<1> QED  BY <1>3, ResolveFact DEF Fine, new

\* Registering parsed definitions keeps the types.
LEMMA RegisterTyped ==
  ASSUME NEW reg, NEW ds \in SUBSET Definitions, NEW o \in Origins, Fine(reg)
  PROVE  Fine(Register(reg, ds, o))
<1> DEFINE types == [n \in Named(ds, "NodeType") |->
                       [from |-> o, own |-> The(ds, "NodeType", n).own,
                        mixins |-> The(ds, "NodeType", n).mixins,
                        attributes |-> [a \in The(ds, "NodeType", n).own |-> o]]]
           mixins == [n \in Named(ds, "Mixin") |->
                        [from |-> o, own |-> The(ds, "Mixin", n).own]]
           new == Register(reg, ds, o)
<1>1. new.types = Over(types, reg.types) /\ new.mixins = Over(mixins, reg.mixins)
  BY DEF Register
<1>2. \A k : Named(ds, k) \subseteq Names
  BY DEF Named, Definitions
<1>3. ASSUME NEW n \in Named(ds, "NodeType")  PROVE TypedType(types[n])
  <2>1. \E d \in ds : d.kind = "NodeType" /\ d.name = n
    BY <1>3 DEF Named
  <2>2. The(ds, "NodeType", n) \in Definitions
    BY <2>1 DEF The
  <2>3. /\ The(ds, "NodeType", n).own \subseteq Attributes
        /\ The(ds, "NodeType", n).mixins \in Seq(Names)
    BY <2>2 DEF Definitions
  <2> QED  BY <2>3 DEF TypedType
<1>4. \A n \in Named(ds, "Mixin") : mixins[n].from \in Origins
  OBVIOUS
<1>5. /\ DOMAIN types \subseteq Names /\ DOMAIN mixins \subseteq Names
      /\ \A n \in DOMAIN types : TypedType(types[n])
      /\ \A n \in DOMAIN mixins : mixins[n].from \in Origins
  BY <1>2, <1>3, <1>4
<1> HIDE DEF types, mixins, new
<1>6. /\ DOMAIN Over(types, reg.types) \subseteq Names
      /\ \A n \in DOMAIN Over(types, reg.types) : TypedType(Over(types, reg.types)[n])
  BY <1>5 DEF Over, Fine, Typed
<1>7. /\ DOMAIN Over(mixins, reg.mixins) \subseteq Names
      /\ \A n \in DOMAIN Over(mixins, reg.mixins) : Over(mixins, reg.mixins)[n].from \in Origins
  BY <1>5 DEF Over, Fine, Typed
<1>8. Typed(new)
  BY <1>1, <1>6, <1>7 DEF Typed
<1> QED  BY <1>8, RegisterFact DEF Fine, new

\* The registry at the start, and after the schemas of a commit, is typed.
LEMMA AtStartTyped == Fine(AtStart)
<1>1. Fine(Empty)
  BY DEF Fine, Shape, Typed, Empty
<1>2. [source |-> "core", commit |-> 0] \in Origins
  BY SyncAssumption DEF Origins
<1>3. Fine(Register(Empty, Core, [source |-> "core", commit |-> 0]))
  BY <1>1, <1>2, RegisterTyped, SyncAssumption
<1> QED  BY <1>3, ResolveTyped DEF AtStart

LEMMA AppliedTyped ==
  ASSUME NEW s \in Sources, NEW c \in Commits, Fine(registry)
  PROVE  Fine(Applied(registry, s, c))
<1>1. /\ Repo[s][c].definitions \in SUBSET Definitions
      /\ [source |-> s, commit |-> c] \in Origins
  BY SyncAssumption DEF Commits, Origins
<1>2. Fine(Register(registry, Repo[s][c].definitions, [source |-> s, commit |-> c]))
  BY <1>1, RegisterTyped
<1> QED  BY <1>2, ResolveTyped DEF Applied

--------------------------------------------------------------------------------
(* What each call of sync() has done so far.                                  *)

Events(r) == {e \in records : e.sync = r}
Applying == {"files", "stamp", "record", "announce"}
\* The schemas among the mappings before i were applied, at the cloned commit.
AppliedBefore(r, i) ==
  \A j \in 1..(i - 1) : Mappings[of[r]][j] = "schemas" => Repo[of[r]][clone[r]].valid

\* The place of a call in its mappings, and what its lack of errors means.
Placed(r) ==
  /\ place[r] \in 0..(Len(Mappings[of[r]]) + 1)
  /\ pc[r] = "idle" => place[r] = 0
  /\ pc[r] \in Applying =>
       /\ clone[r] \in Commits /\ place[r] # 0
       /\ ~errors[r] => AppliedBefore(r, place[r])
  /\ pc[r] = "files" => /\ place[r] <= Len(Mappings[of[r]])
                        /\ Mappings[of[r]][place[r]] = "files"
  /\ pc[r] \in Applying \ {"files"} => place[r] = Len(Mappings[of[r]]) + 1

\* What a call has recorded and answered.
Recorded(r) ==
  /\ answer[r] # "none" => pc[r] = "done"
  /\ Events(r) # {} => pc[r] \in {"announce", "fail", "done"}
  /\ pc[r] = "announce" => Events(r) = {SyncEvent(r)}
  /\ answer[r] \in {"success", "partial"} =>
       /\ Events(r) = {SyncEvent(r)} /\ answer[r] = StatusOf(r) /\ r \in announced

\* TypeOK without the registry and the places.
Plain ==
  /\ head \in [Sources -> Commits]
  /\ source \in [Sources -> [state : {"new", "registered", "deleted"},
                             commit : 0..MaxCommit,
                             status : {"none", "success", "partial"}]]
  /\ restarts \in 0..MaxRestarts
  /\ pc \in [Syncs -> Running \union {"idle", "done"}]
  /\ of \in [Syncs -> Sources]
  /\ clone \in [Syncs -> 0..MaxCommit]
  /\ DOMAIN place = Syncs
  /\ errors \in [Syncs -> BOOLEAN]
  /\ records \subseteq [sync : Syncs, commit : 0..MaxCommit,
                        status : {"success", "partial", "failed"}]
  /\ announced \subseteq Syncs
  /\ answer \in [Syncs -> {"none", "success", "partial", "error"}]
  /\ stamped \subseteq Sources /\ overlapped \subseteq Sources

RecordsInv == /\ Plain /\ Fine(registry) /\ StatusTruthful
              /\ \A r \in Syncs : Placed(r) /\ Recorded(r)

\* The invariant says what TypeOK and RecordsFitAnswers say.
LEMMA RecordsInvSays == RecordsInv => RecordsFitAnswers
<1> SUFFICES ASSUME RecordsInv PROVE RecordsFitAnswers
  OBVIOUS
<1>1. TypeOK
  BY DEF RecordsInv, Plain, Fine, Shape, Typed, TypeEntry, TypedType, Placed, TypeOK
<1>2. SuccessIsRecorded
  BY DEF RecordsInv, Recorded, Events, SuccessIsRecorded
<1> QED  BY <1>1, <1>2 DEF RecordsInv, RecordsFitAnswers

\* The next stop of the loop over the mappings is ahead, or is their end.
LEMMA NextStopFact ==
  ASSUME NEW s \in Sources, NEW i \in 1..(Len(Mappings[s]) + 1)
  PROVE  /\ NextStop(s, i) \in i..(Len(Mappings[s]) + 1)
         /\ NextStop(s, i) <= Len(Mappings[s]) => Mappings[s][NextStop(s, i)] = "files"
<1> DEFINE n == Len(Mappings[s])
           stops == {j \in i..n : Mappings[s][j] = "files"}
<1>1. n \in Nat
  BY SyncAssumption
<1>2. NextStop(s, i) = IF stops = {} THEN n + 1 ELSE Min(stops)
  BY DEF NextStop
<1>3. stops # {} => Min(stops) \in stops
  <2>1. stops \subseteq Nat
    BY <1>1
  <2> HIDE DEF stops
  <2> QED  BY <2>1, LeastOf
<1> HIDE DEF n
<1>4. CASE stops = {}
  <2>1. n + 1 \in i..(n + 1) /\ ~(n + 1 <= n)
    BY <1>1 DEF n
  <2> QED  BY <1>2, <1>4, <2>1 DEF n
<1>5. CASE stops # {}
  <2>1. Min(stops) \in i..n /\ Mappings[s][Min(stops)] = "files"
    BY <1>3, <1>5
  <2>2. Min(stops) \in i..(n + 1)
    BY <1>1, <2>1
  <2> QED  BY <1>2, <1>5, <2>1, <2>2 DEF n
<1> QED  BY <1>4, <1>5

\* A call that no step touches keeps its place and its records.
LEMMA OthersStay ==
  ASSUME NEW q \in Syncs, Placed(q), Recorded(q),
         pc'[q] = pc[q], of'[q] = of[q], clone'[q] = clone[q], place'[q] = place[q],
         errors'[q] = errors[q], answer'[q] = answer[q],
         Events(q)' = Events(q), q \in announced => q \in announced'
  PROVE  Placed(q)' /\ Recorded(q)'
<1>1. StatusOf(q)' = StatusOf(q) /\ SyncEvent(q)' = SyncEvent(q)
  BY DEF StatusOf, SyncEvent
<1>2. Placed(q)'
  BY DEF Placed, AppliedBefore
<1>3. Recorded(q)'
  BY <1>1 DEF Recorded
<1> QED  BY <1>2, <1>3

\* Statuses stay true when the records stay, and what they refer to.
LEMMA StatusStays ==
  ASSUME StatusTruthful, records' = records,
         \A r \in Syncs : Events(r) # {} => of'[r] = of[r], Plain
  PROVE  StatusTruthful'
<1> SUFFICES ASSUME NEW e \in records, e.status = "success",
                    \E i \in DOMAIN Mappings[of'[e.sync]] : Mappings[of'[e.sync]][i] = "schemas"
             PROVE  Repo[of'[e.sync]][e.commit].valid
  BY DEF StatusTruthful
<1>1. e.sync \in Syncs /\ Events(e.sync) # {}
  BY DEF Plain, Events
<1> QED  BY <1>1 DEF StatusTruthful

\* A step of one call leaves the others as they were: what is left to show is
\* about that call.
LEMMA OneMoves ==
  ASSUME RecordsInv, NEW r \in Syncs, Plain', Fine(registry)', StatusTruthful',
         Placed(r)', Recorded(r)',
         \A q \in Syncs \ {r} :
           /\ pc'[q] = pc[q] /\ of'[q] = of[q] /\ clone'[q] = clone[q]
           /\ place'[q] = place[q] /\ errors'[q] = errors[q] /\ answer'[q] = answer[q]
           /\ Events(q)' = Events(q) /\ (q \in announced => q \in announced')
  PROVE  RecordsInv'
<1>1. ASSUME NEW q \in Syncs  PROVE (Placed(q) /\ Recorded(q))'
  <2>1. CASE q = r
    BY <2>1
  <2>2. CASE q # r
    BY <2>2, OthersStay DEF RecordsInv
  <2> QED  BY <2>1, <2>2
<1> QED  BY <1>1 DEF RecordsInv

\* The loop over the mappings: what is applied, and what errors there were.
LEMMA AdvanceKeeps ==
  ASSUME RecordsInv, NEW r \in Syncs, NEW c \in Commits,
         NEW i \in 1..(Len(Mappings[of[r]]) + 1),
         pc[r] \in {"clone", "files"}, Advance(r, of[r], c, i),
         clone' = [clone EXCEPT ![r] = c],
         ~errors[r] => \A j \in 1..(i - 1) :
                         Mappings[of[r]][j] = "schemas" => Repo[of[r]][c].valid,
         UNCHANGED <<head, source, restarts, of, records, announced, answer,
                     stamped, overlapped>>
  PROVE  RecordsInv'
<1> DEFINE s == of[r]
           n == Len(Mappings[s])
           stop == NextStop(s, i)
           here == {Mappings[s][j] : j \in i..(stop - 1)}
<1>1. s \in Sources /\ n \in Nat
  BY SyncAssumption DEF RecordsInv, Plain
<1>2. /\ stop \in i..(n + 1)
      /\ stop <= n => Mappings[s][stop] = "files"
  BY <1>1, NextStopFact
<1>3. /\ errors' = [errors EXCEPT ![r] =
           errors[r] \/ "unknown" \in here \/ ("schemas" \in here /\ ~Repo[s][c].valid)]
      /\ place' = [place EXCEPT ![r] = stop]
      /\ pc' = [pc EXCEPT ![r] = IF stop <= n THEN "files" ELSE "stamp"]
      /\ registry' = registry \/ registry' = Applied(registry, s, c)
  BY DEF Advance, ErrorsAfter
<1> HIDE DEF stop
<1>4. Fine(registry)'
  <2>1. Fine(registry) /\ Fine(Applied(registry, s, c))
    BY <1>1, AppliedTyped DEF RecordsInv
  <2>2. Fine(registry')
    BY <1>3, <2>1
  <2> QED  BY <2>2 DEF Fine, Shape, Typed, TypeEntry, MixinEntry, TypedType
<1>5. Plain'
  <2>1. errors' \in [Syncs -> BOOLEAN]
    BY <1>3 DEF RecordsInv, Plain
  <2>2. clone' \in [Syncs -> 0..MaxCommit]
    BY SyncAssumption DEF RecordsInv, Plain, Commits
  <2>3. pc' \in [Syncs -> Running \union {"idle", "done"}] /\ DOMAIN place' = Syncs
    BY <1>3 DEF RecordsInv, Plain, Running
  <2> QED  BY <2>1, <2>2, <2>3 DEF RecordsInv, Plain
<1>6. StatusTruthful'
  BY StatusStays DEF RecordsInv
<1>7. /\ pc'[r] = IF stop <= n THEN "files" ELSE "stamp"
      /\ place'[r] = stop /\ clone'[r] = c /\ of'[r] = s
      /\ ~errors'[r] => ~errors[r] /\ ("schemas" \in here => Repo[s][c].valid)
  BY <1>3 DEF RecordsInv, Plain
<1>8. Placed(r)'
  <2>1. ASSUME ~errors'[r], NEW j \in 1..(stop - 1), Mappings[s][j] = "schemas"
        PROVE  Repo[s][c].valid
    <3>1. CASE j < i
      BY <1>7, <2>1, <3>1
    <3>2. CASE j >= i
      BY <1>1, <1>2, <1>7, <2>1, <3>2
    <3> QED  BY <1>1, <1>2, <3>1, <3>2
  <2>2. ~errors'[r] => AppliedBefore(r, place[r])'
    BY <1>7, <2>1 DEF AppliedBefore
  <2>3. stop \in 1..(n + 1) /\ (~(stop <= n) => stop = n + 1)
    BY <1>1, <1>2
  <2>4. stop \in 0..(n + 1) /\ stop # 0
    BY <1>1, <2>3
  <2> QED  BY <1>2, <1>7, <2>2, <2>3, <2>4 DEF Placed, Applying
<1>9. Recorded(r)'
  <2>1. Events(r)' = Events(r)
    BY DEF Events
  <2>2. Events(r) = {} /\ answer[r] = "none"
    BY DEF RecordsInv, Recorded
  <2> QED  BY <1>7, <2>1, <2>2 DEF Recorded
<1>10. \A q \in Syncs \ {r} :
         /\ pc'[q] = pc[q] /\ of'[q] = of[q] /\ clone'[q] = clone[q]
         /\ place'[q] = place[q] /\ errors'[q] = errors[q] /\ answer'[q] = answer[q]
         /\ Events(q)' = Events(q) /\ (q \in announced => q \in announced')
  BY <1>3 DEF RecordsInv, Plain, Events
<1> QED  BY <1>4, <1>5, <1>6, <1>8, <1>9, <1>10, OneMoves

\* Steps that write neither the registry nor what a call knows of its sync.
LEMMA CallStep ==
  ASSUME RecordsInv, NEW r \in Syncs,
         Stamp(r) \/ Record(r) \/ Announce(r) \/ RecordFailure(r) \/ CloneFails(r)
  PROVE  RecordsInv'
<1>0. /\ Plain /\ Fine(registry) /\ StatusTruthful /\ Placed(r) /\ Recorded(r)
      /\ UNCHANGED <<registry, of, clone, place, errors>>
      /\ \A q \in Syncs \ {r} : pc'[q] = pc[q] /\ answer'[q] = answer[q]
      /\ announced \subseteq announced'
  BY DEF RecordsInv, Plain, Stamp, Record, Announce, RecordFailure, CloneFails
<1>1. Fine(registry)'
  BY <1>0 DEF Fine, Shape, Typed, TypeEntry, MixinEntry, TypedType
<1>2. /\ StatusOf(r)' = StatusOf(r) /\ SyncEvent(r)' = SyncEvent(r)
      /\ StatusOf(r) \in {"success", "partial"}
      /\ clone[r] \in 0..MaxCommit /\ of[r] \in Sources
  BY <1>0 DEF StatusOf, SyncEvent, Plain
<1>3. CASE Stamp(r)
  <2>1. StampSource(of[r], StampedCommit(r), StatusOf(r)) \in
          [Sources -> [state : {"new", "registered", "deleted"},
                       commit : 0..MaxCommit, status : {"none", "success", "partial"}]]
    <3> DEFINE States == [state : {"new", "registered", "deleted"}, commit : 0..MaxCommit,
                          status : {"none", "success", "partial"}]
               new == StampSource(of[r], clone[r], StatusOf(r))
    <3>1. \A s \in Sources : source[s] \in States
      BY <1>0 DEF Plain
    <3>2. CASE source[of[r]].state = "registered"
      <4>1. new = [source EXCEPT ![of[r]] =
                     [source[of[r]] EXCEPT !.commit = clone[r], !.status = StatusOf(r)]]
        BY <1>0, <1>2, <3>2 DEF StampSource, Plain
      <4>2. [source[of[r]] EXCEPT !.commit = clone[r], !.status = StatusOf(r)] \in States
        BY <1>2, <3>1
      <4> QED  BY <1>0, <4>1, <4>2 DEF StampedCommit, Plain
    <3>3. CASE source[of[r]].state # "registered"
      BY <1>0, <3>3 DEF StampSource, StampedCommit, Plain
    <3> QED  BY <3>2, <3>3
  <2>2. Plain'
    BY <1>0, <1>2, <1>3, <2>1 DEF Stamp, Plain, Running
  <2>3. StatusTruthful'
    BY <1>0, <1>3, StatusStays DEF Stamp
  <2>4. Placed(r)'
    BY <1>0, <1>3 DEF Stamp, Placed, AppliedBefore, Applying, Plain
  <2>5. Recorded(r)' /\ \A q \in Syncs : Events(q)' = Events(q)
    BY <1>0, <1>3 DEF Stamp, Recorded, Events, Plain
  <2> QED  BY <1>0, <1>1, <2>2, <2>3, <2>4, <2>5, OneMoves
<1>4. CASE Record(r)
  <2>1. Events(r) = {} /\ SyncEvent(r).sync = r
    BY <1>0, <1>4 DEF Record, Recorded, SyncEvent
  <2>2. SyncEvent(r) \in [sync : Syncs, commit : 0..MaxCommit,
                          status : {"success", "partial", "failed"}]
    BY <1>2 DEF SyncEvent
  <2>3. Plain'
    BY <1>0, <1>4, <2>2 DEF Record, Plain, Running
  <2>4. ASSUME StatusOf(r) = "success",
               NEW i \in DOMAIN Mappings[of[r]], Mappings[of[r]][i] = "schemas"
        PROVE  Repo[of[r]][clone[r]].valid
    <3>1. ~errors[r] /\ place[r] = Len(Mappings[of[r]]) + 1 /\ AppliedBefore(r, place[r])
      BY <1>0, <1>4, <2>4 DEF Record, Placed, Applying, StatusOf
    <3>2. i \in 1..(place[r] - 1)
      BY <1>2, <3>1, SyncAssumption
    <3> QED  BY <2>4, <3>1, <3>2 DEF AppliedBefore
  <2>5. records' \subseteq records \union {SyncEvent(r)}
    BY <1>4 DEF Record
  <2>6. StatusTruthful'
    <3> SUFFICES ASSUME NEW e \in records', e.status = "success",
                        \E i \in DOMAIN Mappings[of[e.sync]] : Mappings[of[e.sync]][i] = "schemas"
                 PROVE  Repo[of[e.sync]][e.commit].valid
      BY <1>0 DEF StatusTruthful
    <3>1. CASE e \in records
      BY <1>0, <3>1 DEF StatusTruthful
    <3>2. CASE e = SyncEvent(r)
      BY <2>4, <3>2 DEF SyncEvent
    <3> QED  BY <2>5, <3>1, <3>2
  <2>7. Placed(r)'
    BY <1>0, <1>4 DEF Record, Placed, AppliedBefore, Applying, Plain
  <2>8. \A q \in Syncs \ {r} : Events(q)' = Events(q)
    BY <1>4, <2>1 DEF Record, Events
  <2>9. /\ pc'[r] \in {"announce", "fail"} /\ answer'[r] = "none"
        /\ pc'[r] = "announce" => Events(r)' = {SyncEvent(r)}
    BY <1>0, <1>4, <2>1 DEF Record, Recorded, Events, Plain
  <2>10. Recorded(r)'
    BY <1>2, <2>9 DEF Recorded
  <2> QED  BY <1>0, <1>1, <2>3, <2>6, <2>7, <2>8, <2>10, OneMoves
<1>5. CASE Announce(r)
  <2>1. Plain'
    BY <1>0, <1>2, <1>5 DEF Announce, Plain, Running
  <2>2. StatusTruthful'
    BY <1>0, <1>5, StatusStays DEF Announce
  <2>3. Placed(r)'
    BY <1>0, <1>5 DEF Announce, Placed, AppliedBefore, Applying, Plain
  <2>4. \A q \in Syncs : Events(q)' = Events(q)
    BY <1>5 DEF Announce, Events
  <2>5. /\ Events(r) = {SyncEvent(r)} /\ answer'[r] = StatusOf(r)
        /\ pc'[r] = "done" /\ r \in announced'
    BY <1>0, <1>5 DEF Announce, Recorded, Plain
  <2>6. Recorded(r)'
    BY <1>2, <2>4, <2>5 DEF Recorded
  <2> QED  BY <1>0, <1>1, <2>1, <2>2, <2>3, <2>4, <2>6, OneMoves
<1>6. CASE RecordFailure(r)
  <2> DEFINE failed == [sync |-> r, commit |-> 0, status |-> "failed"]
  <2>1. Plain'
    <3>1. failed \in [sync : Syncs, commit : 0..MaxCommit,
                      status : {"success", "partial", "failed"}]
      BY SyncAssumption
    <3>2. /\ records' \subseteq records \union {failed}
          /\ pc' = [pc EXCEPT ![r] = "done"] /\ answer' = [answer EXCEPT ![r] = "error"]
      BY <1>6 DEF RecordFailure
    <3> HIDE DEF failed
    <3> QED  BY <1>0, <1>6, <3>1, <3>2 DEF RecordFailure, Plain
  <2>2. records' \subseteq records \union {failed} /\ failed.status # "success"
        /\ failed.sync = r
    BY <1>6 DEF RecordFailure
  <2> HIDE DEF failed
  <2>3. StatusTruthful'
    BY <1>0, <2>2 DEF StatusTruthful
  <2>4. Placed(r)'
    BY <1>0, <1>6 DEF RecordFailure, Placed, AppliedBefore, Applying, Plain
  <2>5. \A q \in Syncs \ {r} : Events(q)' = Events(q)
    BY <1>6 DEF RecordFailure, Events
  <2>6. pc'[r] = "done" /\ answer'[r] = "error"
    BY <1>0, <1>6 DEF RecordFailure, Plain
  <2>7. Recorded(r)'
    BY <2>6 DEF Recorded
  <2> QED  BY <1>0, <1>1, <2>1, <2>3, <2>4, <2>5, <2>7, OneMoves
<1>7. CASE CloneFails(r)
  <2>1. Plain'
    BY <1>0, <1>7 DEF CloneFails, Plain, Running
  <2>2. StatusTruthful'
    BY <1>0, <1>7, StatusStays DEF CloneFails
  <2>3. Placed(r)'
    BY <1>0, <1>7 DEF CloneFails, Placed, AppliedBefore, Applying, Plain
  <2>4. Recorded(r)' /\ \A q \in Syncs : Events(q)' = Events(q)
    BY <1>0, <1>7 DEF CloneFails, Recorded, Events, Plain
  <2> QED  BY <1>0, <1>1, <2>1, <2>2, <2>3, <2>4, OneMoves
<1> QED  BY <1>3, <1>4, <1>5, <1>6, <1>7

\* The process starts with nothing recorded.
LEMMA RecordsInit == Init => RecordsInv
<1> SUFFICES ASSUME Init PROVE RecordsInv
  OBVIOUS
<1>1. Fine(registry)
  BY AtStartTyped DEF Init
<1>2. (CHOOSE s \in Sources : TRUE) \in Sources
  BY SyncAssumption
<1>3. Plain
  BY <1>2, SyncAssumption DEF Init, Plain, Commits
<1>4. StatusTruthful
  BY DEF Init, StatusTruthful
<1>5. ASSUME NEW r \in Syncs  PROVE Placed(r) /\ Recorded(r)
  <2>1. of[r] \in Sources
    BY <1>3 DEF Plain
  <2>2. Len(Mappings[of[r]]) \in Nat
    BY <2>1, SyncAssumption
  <2> QED  BY <2>2 DEF Init, Placed, Recorded, Events, Applying
<1> QED  BY <1>1, <1>3, <1>4, <1>5 DEF RecordsInv

\* Steps that leave all calls as they are.
LEMMA NoCallMoves ==
  ASSUME RecordsInv, Plain', UNCHANGED <<registry, syncVars, records, announced>>
  PROVE  RecordsInv'
<1>1. Fine(registry)'
  BY DEF RecordsInv, Fine, Shape, Typed, TypeEntry, MixinEntry, TypedType
<1>2. StatusTruthful'
  BY StatusStays DEF RecordsInv, syncVars
<1>3. ASSUME NEW q \in Syncs  PROVE Placed(q)' /\ Recorded(q)'
  BY OthersStay DEF RecordsInv, syncVars, Events
<1> QED  BY <1>1, <1>2, <1>3 DEF RecordsInv

\* A sync begins, with nothing recorded before.
LEMMA BeginKeeps ==
  ASSUME RecordsInv, NEW r \in Syncs, NEW s \in Sources, Begin(r, s)
  PROVE  RecordsInv'
<1>1. Fine(registry)'
  BY DEF Begin, RecordsInv, Fine, Shape, Typed, TypeEntry, MixinEntry, TypedType
<1>2. Plain'
  BY DEF Begin, RecordsInv, Plain, Running
<1>3. Events(r) = {} /\ place[r] = 0 /\ answer[r] = "none"
  BY DEF Begin, RecordsInv, Recorded, Placed
<1>4. StatusTruthful'
  <2>1. \A q \in Syncs : Events(q) # {} => of'[q] = of[q]
    BY <1>3 DEF Begin, RecordsInv, Plain
  <2> QED  BY <2>1, StatusStays DEF Begin, RecordsInv
<1>5. /\ pc'[r] \in {"clone", "done"} /\ of'[r] = s /\ place'[r] = 0
      /\ answer'[r] \in {"none", "error"} /\ (answer'[r] # "none" => pc'[r] = "done")
  BY <1>3 DEF Begin, RecordsInv, Plain
<1>6. Placed(r)'
  <2>1. Len(Mappings[s]) \in Nat
    BY SyncAssumption
  <2> QED  BY <1>5, <2>1 DEF Placed, Applying
<1>7. \A q \in Syncs : Events(q)' = Events(q)
  BY DEF Begin, Events
<1>8. Recorded(r)'
  BY <1>3, <1>5, <1>7 DEF Recorded
<1>9. \A q \in Syncs \ {r} :
        /\ pc'[q] = pc[q] /\ of'[q] = of[q] /\ clone'[q] = clone[q]
        /\ place'[q] = place[q] /\ errors'[q] = errors[q] /\ answer'[q] = answer[q]
        /\ Events(q)' = Events(q) /\ (q \in announced => q \in announced')
  BY <1>7 DEF Begin, RecordsInv, Plain
<1> QED  BY <1>1, <1>2, <1>4, <1>6, <1>8, <1>9, OneMoves

\* A restart ends every call; what they recorded and answered stays.
LEMMA RestartKeeps == ASSUME RecordsInv, Restart  PROVE RecordsInv'
<1>1. Fine(registry)'
  <2>1. Fine(registry')
    BY AtStartTyped DEF Restart
  <2> QED  BY <2>1 DEF Fine, Shape, Typed, TypeEntry, MixinEntry, TypedType
<1>2. Plain'
  BY SyncAssumption DEF Restart, RecordsInv, Plain, Running
<1>3. StatusTruthful'
  BY StatusStays DEF Restart, RecordsInv
<1>4. ASSUME NEW q \in Syncs  PROVE (Placed(q) /\ Recorded(q))'
  <2>1. /\ UNCHANGED <<place, of, clone, errors, records, announced, answer>>
        /\ pc'[q] = IF pc[q] = "idle" THEN "idle" ELSE "done"
    BY <1>4 DEF Restart
  <2>2. Placed(q) /\ Recorded(q)
    BY DEF RecordsInv
  <2>3. Placed(q)'
    BY <2>1, <2>2 DEF Placed, Applying
  <2>4. Recorded(q)'
    <3>1. Events(q)' = Events(q) /\ SyncEvent(q)' = SyncEvent(q) /\ StatusOf(q)' = StatusOf(q)
      BY <2>1 DEF Events, SyncEvent, StatusOf
    <3> QED  BY <2>1, <2>2, <3>1 DEF Recorded
  <2> QED  BY <2>3, <2>4
<1> QED  BY <1>1, <1>2, <1>3, <1>4 DEF RecordsInv

LEMMA RecordsStep == RecordsInv /\ [Next]_vars => RecordsInv'
<1> SUFFICES ASSUME RecordsInv, [Next]_vars  PROVE RecordsInv'
  OBVIOUS
<1>0. Plain /\ \A r \in Syncs : Placed(r)
  BY DEF RecordsInv
<1>1. ASSUME NEW s \in Sources, Push(s)  PROVE RecordsInv'
  <2>1. Plain'
    BY <1>0, <1>1, SyncAssumption DEF Push, Plain, Commits, syncVars
  <2> QED  BY <1>1, <2>1, NoCallMoves DEF Push
<1>2. ASSUME NEW s \in Sources, RegisterSource(s) \/ DeleteSource(s)  PROVE RecordsInv'
  <2>1. Plain'
    BY <1>0, <1>2 DEF RegisterSource, DeleteSource, Plain, syncVars
  <2> QED  BY <1>2, <2>1, NoCallMoves DEF RegisterSource, DeleteSource
<1>3. ASSUME NEW r \in Syncs, Clone(r)  PROVE RecordsInv'
  <2>1. head[of[r]] \in Commits /\ of[r] \in Sources
    BY <1>0 DEF Plain
  <2>2. PICK c \in Commits : c = head[of[r]]
    BY <2>1
  <2>3. PICK i \in 1..(Len(Mappings[of[r]]) + 1) : i = 1
    BY <2>1, SyncAssumption
  <2>4. ~errors[r] => \A j \in 1..(i - 1) :
                         Mappings[of[r]][j] = "schemas" => Repo[of[r]][c].valid
    BY <2>3
  <2>5. /\ pc[r] \in {"clone", "files"} /\ Advance(r, of[r], c, i)
        /\ clone' = [clone EXCEPT ![r] = c]
        /\ UNCHANGED <<head, source, restarts, of, records, announced, answer,
                       stamped, overlapped>>
    BY <1>3, <2>2, <2>3 DEF Clone
  <2> QED  BY <2>4, <2>5, AdvanceKeeps
<1>4. ASSUME NEW r \in Syncs, WriteFiles(r)  PROVE RecordsInv'
  <2> DEFINE n == Len(Mappings[of[r]])
  <2>1. of[r] \in Sources /\ n \in Nat
    BY <1>0, SyncAssumption DEF Plain
  <2>2. /\ clone[r] \in Commits /\ place[r] \in 1..n
        /\ Mappings[of[r]][place[r]] = "files"
        /\ ~errors[r] => AppliedBefore(r, place[r])
    BY <1>0, <1>4, <2>1 DEF WriteFiles, Placed, Applying
  <2>3. PICK i \in 1..(n + 1) : i = place[r] + 1
    BY <2>1, <2>2
  <2>4. ASSUME ~errors[r], NEW j \in 1..(i - 1), Mappings[of[r]][j] = "schemas"
        PROVE  Repo[of[r]][clone[r]].valid
    <3>1. j # place[r] /\ j \in 1..place[r]
      BY <2>2, <2>3, <2>4
    <3>2. j \in 1..(place[r] - 1)
      BY <2>1, <2>2, <3>1
    <3> QED  BY <2>2, <2>4, <3>2 DEF AppliedBefore
  <2>5. /\ pc[r] \in {"clone", "files"} /\ Advance(r, of[r], clone[r], i)
        /\ clone' = [clone EXCEPT ![r] = clone[r]]
        /\ UNCHANGED <<head, source, restarts, of, records, announced, answer,
                       stamped, overlapped>>
    BY <1>0, <1>4, <2>3 DEF WriteFiles, Plain
  <2> QED  BY <2>2, <2>4, <2>5, AdvanceKeeps
<1>5. CASE UNCHANGED vars
  <2>1. Plain'
    BY <1>0, <1>5 DEF vars, syncVars, Plain
  <2> QED  BY <1>5, <2>1, NoCallMoves DEF vars
<1> QED
  BY <1>1, <1>2, <1>3, <1>4, <1>5, BeginKeeps, CallStep, RestartKeeps DEF Next, SyncStep

\* What a client is told of its sync is what its record and its event say, and
\* "success" is recorded for a valid commit only, for any sources, mappings and
\* interleavings, also of syncs of one source (SyncService.sync).
THEOREM RecordsAreTruthful == Spec => []RecordsFitAnswers
BY RecordsInit, RecordsStep, RecordsInvSays, PTL DEF Spec

\* No sync, registration or restart brings a deleted source back
\* (sync_engine/service.py: MATCH, not MERGE).
THEOREM DeletedSourcesStay == Spec => DeletedStaysDeleted
<1> DEFINE Stays == \A s \in Sources : source[s].state = "deleted" => source'[s].state = "deleted"
<1>1. RecordsInv /\ [Next]_vars => [Stays]_vars
  <2> SUFFICES ASSUME RecordsInv, Next  PROVE Stays
    OBVIOUS
  <2>0. Plain
    BY DEF RecordsInv
  <2>1. ASSUME NEW s \in Sources, RegisterSource(s) \/ DeleteSource(s)  PROVE Stays
    BY <2>0, <2>1 DEF RegisterSource, DeleteSource, Plain
  <2>2. ASSUME NEW r \in Syncs, Stamp(r)  PROVE Stays
    BY <2>0, <2>2 DEF Stamp, StampSource, Plain
  <2>3. \/ source' = source
        \/ \E s \in Sources : RegisterSource(s) \/ DeleteSource(s)
        \/ \E r \in Syncs : Stamp(r)
    BY DEF Next, SyncStep, Push, Begin, Clone, CloneFails, WriteFiles, Record, Announce,
           RecordFailure, Restart
  <2> QED  BY <2>1, <2>2, <2>3
<1> QED  BY RecordsInit, RecordsStep, <1>1, PTL DEF Spec, DeletedStaysDeleted

--------------------------------------------------------------------------------
(* The registry and the stamps: RegistryFitsStamps.                           *)

Kinds == {"NodeType", "Mixin"}
Origin(s, c) == [source |-> s, commit |-> c]
LaterFrom(reg, s, d, c) ==
  \E x \in c..MaxCommit : IsFrom(reg, d.kind, d.name, Origin(s, x))

\* After a commit is applied, a name it defines is from it, and others stay.
LEMMA FromApplied ==
  ASSUME NEW reg, Shape(reg), NEW t \in Sources, NEW c \in Commits,
         NEW k \in Kinds, NEW n, NEW o
  PROVE  IsFrom(Applied(reg, t, c), k, n, o) <=>
           IF Repo[t][c].valid /\ n \in Named(Repo[t][c].definitions, k)
           THEN o = Origin(t, c) ELSE IsFrom(reg, k, n, o)
<1> DEFINE ds == Repo[t][c].definitions
           types == [m \in Named(ds, "NodeType") |->
                       [from |-> Origin(t, c), own |-> The(ds, "NodeType", m).own,
                        mixins |-> The(ds, "NodeType", m).mixins,
                        attributes |-> [a \in The(ds, "NodeType", m).own |-> Origin(t, c)]]]
           mixins == [m \in Named(ds, "Mixin") |->
                        [from |-> Origin(t, c), own |-> The(ds, "Mixin", m).own]]
           mid == Register(reg, ds, Origin(t, c))
<1>1. CASE ~Repo[t][c].valid
  BY <1>1 DEF Applied
<1>2. CASE Repo[t][c].valid
  <2>1. Applied(reg, t, c) = Resolve(mid)
    BY <1>2 DEF Applied, Origin
  <2>2. mid = [types |-> Over(types, reg.types), mixins |-> Over(mixins, reg.mixins)]
    BY DEF Register
  <2>3. /\ \A m \in DOMAIN types : types[m].from = Origin(t, c)
        /\ \A m \in DOMAIN mixins : mixins[m].from = Origin(t, c)
        /\ DOMAIN types = Named(ds, "NodeType") /\ DOMAIN mixins = Named(ds, "Mixin")
    OBVIOUS
  <2>4. Shape(mid)
    <3>1. ds \in SUBSET Definitions
      BY SyncAssumption
    <3> QED  BY <3>1, RegisterFact
  <2>5. IsFrom(Resolve(mid), k, n, o) <=> IsFrom(mid, k, n, o)
    <3> HIDE DEF mid
    <3>1. /\ Resolve(mid).mixins = mid.mixins
          /\ DOMAIN Resolve(mid).types = DOMAIN mid.types
          /\ \A m \in DOMAIN mid.types :
               Resolve(mid).types[m] = Merged(mid.types[m], mid.mixins)
      BY <2>4 DEF Resolve, Shape
    <3>2. \A m \in DOMAIN mid.types : Resolve(mid).types[m].from = mid.types[m].from
      BY <2>4, <3>1 DEF Merged, Shape, TypeEntry
    <3> QED  BY <3>1, <3>2 DEF IsFrom
  <2> HIDE DEF mid, types, mixins
  <2>6. CASE k = "NodeType"
    <3>1. IsFrom(mid, k, n, o) <=>
            n \in DOMAIN Over(types, reg.types) /\ Over(types, reg.types)[n].from = o
      BY <2>2, <2>6 DEF IsFrom
    <3>2. IsFrom(reg, k, n, o) <=> n \in DOMAIN reg.types /\ reg.types[n].from = o
      BY <2>6 DEF IsFrom
    <3>3. IsFrom(mid, k, n, o) <=>
            IF n \in DOMAIN types THEN o = Origin(t, c) ELSE IsFrom(reg, k, n, o)
      BY <2>3, <3>1, <3>2 DEF Over
    <3> QED  BY <1>2, <2>1, <2>3, <2>5, <2>6, <3>3
  <2>7. CASE k = "Mixin"
    <3>1. IsFrom(mid, k, n, o) <=>
            n \in DOMAIN Over(mixins, reg.mixins) /\ Over(mixins, reg.mixins)[n].from = o
      BY <2>2, <2>7 DEF IsFrom
    <3>2. IsFrom(reg, k, n, o) <=> n \in DOMAIN reg.mixins /\ reg.mixins[n].from = o
      BY <2>7 DEF IsFrom
    <3>3. IsFrom(mid, k, n, o) <=>
            IF n \in DOMAIN mixins THEN o = Origin(t, c) ELSE IsFrom(reg, k, n, o)
      BY <2>3, <3>1, <3>2 DEF Over
    <3> QED  BY <1>2, <2>1, <2>3, <2>5, <2>7, <3>3
  <2> QED  BY <2>6, <2>7 DEF Kinds
<1> QED  BY <1>1, <1>2

\* Nothing in the registry at the start is from a source.
LEMMA FromAtStart ==
  ASSUME NEW s \in Sources, NEW k \in Kinds, NEW n, NEW c
  PROVE  ~IsFrom(AtStart, k, n, Origin(s, c))
<1> DEFINE core == [source |-> "core", commit |-> 0]
           types == [m \in Named(Core, "NodeType") |->
                       [from |-> core, own |-> The(Core, "NodeType", m).own,
                        mixins |-> The(Core, "NodeType", m).mixins,
                        attributes |-> [a \in The(Core, "NodeType", m).own |-> core]]]
           mixins == [m \in Named(Core, "Mixin") |->
                        [from |-> core, own |-> The(Core, "Mixin", m).own]]
           mid == Register(Empty, Core, core)
<1>1. mid = [types |-> Over(types, <<>>), mixins |-> Over(mixins, <<>>)]
  BY DEF Register, Empty
<1>2. Shape(mid)
  <2>1. Shape(Empty)
    BY DEF Shape, Empty
  <2> QED  BY <2>1, RegisterFact, SyncAssumption
<1>3. core # Origin(s, c)
  BY SyncAssumption DEF Origin
<1>4. /\ \A m \in DOMAIN types : types[m].from = core
      /\ \A m \in DOMAIN mixins : mixins[m].from = core
  OBVIOUS
<1> HIDE DEF core, types, mixins
<1>5. /\ \A m \in DOMAIN mid.types : mid.types[m].from = core
      /\ \A m \in DOMAIN mid.mixins : mid.mixins[m].from = core
  BY <1>1, <1>4 DEF Over
<1> HIDE DEF mid
<1>6. /\ Resolve(mid).mixins = mid.mixins
      /\ DOMAIN Resolve(mid).types = DOMAIN mid.types
      /\ \A m \in DOMAIN mid.types : Resolve(mid).types[m].from = mid.types[m].from
  BY <1>2 DEF Resolve, Shape, Merged, TypeEntry
<1>7. AtStart = Resolve(mid)
  BY DEF AtStart, mid, core
<1> QED  BY <1>3, <1>5, <1>6, <1>7 DEF IsFrom

\* What the registry has from a source: it was pushed and cloned before, and the
\* rest of its commit is there, or something later in its place.
EntryOf(s, k, n, c) == IsFrom(registry, k, n, Origin(s, c))
Whole(s, k, n, c) ==
  /\ c \in Commits
  /\ \E d \in Repo[s][c].definitions : d.kind = k /\ d.name = n
  /\ \A d \in Exclusive(s, c) : LaterFrom(registry, s, d, c)
Entries(s) ==
  \A k \in Kinds, n \in Names, c \in 0..MaxCommit : EntryOf(s, k, n, c) =>
    /\ Whole(s, k, n, c) /\ c <= head[s]
    /\ \A r \in Under(s) : pc[r] \in Applying => c <= clone[r]
\* What a call that had no error applied is in force.
InForce(r) ==
  /\ of[r] \notin overlapped /\ pc[r] \in Applying /\ ~errors[r]
  /\ \E j \in 1..(place[r] - 1) : Mappings[of[r]][j] = "schemas"
  => \A d \in Exclusive(of[r], clone[r]) : LaterFrom(registry, of[r], d, clone[r])
\* A source with a sync or a stamp was registered; only one sync of it runs.
Orderly ==
  /\ \A s \in Sources \ overlapped : \A q, r \in Under(s) : q = r
  /\ \A r \in Syncs : /\ pc[r] \in Running => source[of[r]].state # "new"
                      /\ pc[r] \in Applying => clone[r] <= head[of[r]]
  /\ \A s \in stamped : /\ source[s].state # "new"
                        /\ source[s].state = "registered" => source[s].commit \in Commits
\* Of a source with anything in the registry, some commit is there as a whole.
Composed == \A s \in Sources : Present(s) # {} => Complete(s) # {}
FitInv == /\ Orderly /\ NeverBehind /\ Composed
          /\ \A s \in Sources \ overlapped : Entries(s)
          /\ \A r \in Syncs : InForce(r)

\* A set of commits has a greatest element, and Max is it.
LEMMA GreatestOf ==
  ASSUME NEW T, T \subseteq Commits, T # {}
  PROVE  Max(T) \in T /\ \A y \in T : y <= Max(T)
<1> DEFINE S == {MaxCommit - y : y \in T}
<1>0. MaxCommit \in Nat /\ \A y \in T : y \in Nat /\ y <= MaxCommit
  BY SyncAssumption DEF Commits
<1>1. S \subseteq Nat /\ S # {}
  BY <1>0
<1>2. PICK m \in S : \A y \in S : m <= y
  <2> HIDE DEF S
  <2> QED  BY <1>1, LeastOf
<1>3. PICK x \in T : m = MaxCommit - x
  BY <1>2
<1>4. ASSUME NEW y \in T  PROVE x >= y
  <2>1. MaxCommit - x <= MaxCommit - y
    BY <1>2, <1>3
  <2> QED  BY <1>0, <2>1
<1>5. Max(T) \in T /\ \A y \in T : Max(T) >= y
  BY <1>4 DEF Max
<1> QED  BY <1>0, <1>5

\* An exclusive definition of a source is a definition.
LEMMA ExclusiveFact ==
  ASSUME NEW s \in Sources, NEW c \in Commits, NEW d \in Exclusive(s, c)
  PROVE  /\ d.kind \in Kinds /\ d.name \in Names /\ d \in Repo[s][c].definitions
         /\ Alone(s, d)
BY SyncAssumption DEF Exclusive, ExclusiveTable, Definitions, Kinds

\* The invariant gives what the run checks: the newest commit of a source of
\* which anything is in the registry is there as a whole.
LEMMA FitInvSays == FitInv => RegistryFitsStamps
<1> SUFFICES ASSUME FitInv PROVE AppliedAsAWhole
  BY DEF FitInv, RegistryFitsStamps
<1> SUFFICES ASSUME NEW s \in Sources \ overlapped, Present(s) # {}
             PROVE  Max(Present(s)) \in Complete(s)
  BY DEF FitInv, Composed, AppliedAsAWhole
<1> DEFINE present == Present(s)
<1>0. present = {c \in Commits : \E d \in Exclusive(s, c) :
                                IsFrom(registry, d.kind, d.name, Origin(s, c))}
  BY DEF Present, FromCommit, Origin
<1> HIDE DEF present
<1> SUFFICES ASSUME NEW d \in Exclusive(s, Max(present))
             PROVE  IsFrom(registry, d.kind, d.name, Origin(s, Max(present)))
  <2>1. present # {} /\ present \subseteq Commits
    BY <1>0 DEF present
  <2>2. Max(present) \in present
    BY <2>1, GreatestOf
  <2> QED  BY <2>2 DEF present, Complete, FromCommit, Origin
<1>1. Max(present) \in present /\ \A y \in present : y <= Max(present)
  <2>1. present # {} /\ present \subseteq Commits
    BY <1>0 DEF present
  <2> QED  BY <2>1, GreatestOf
<1> DEFINE c == Max(present)
<1> HIDE DEF c
<1>2. c \in Commits /\ c \in 0..MaxCommit
  BY <1>0, <1>1, SyncAssumption DEF Commits, c
<1>3. PICK e \in Exclusive(s, c) : IsFrom(registry, e.kind, e.name, Origin(s, c))
  BY <1>0, <1>1 DEF c
<1>4. LaterFrom(registry, s, d, c)
  <2>1. e.kind \in Kinds /\ e.name \in Names
    BY <1>2, ExclusiveFact
  <2> QED  BY <1>2, <1>3, <2>1 DEF FitInv, Entries, EntryOf, Whole, c
<1>5. PICK x \in c..MaxCommit : IsFrom(registry, d.kind, d.name, Origin(s, x))
  BY <1>4 DEF LaterFrom
<1>6. d.kind \in Kinds /\ d.name \in Names /\ Alone(s, d)
  BY <1>2, ExclusiveFact DEF c
<1>7. x \in 0..MaxCommit
  BY <1>2, <1>5
<1>8. Whole(s, d.kind, d.name, x)
  BY <1>5, <1>6, <1>7 DEF FitInv, Entries, EntryOf
<1>9. PICK f \in Repo[s][x].definitions : f.kind = d.kind /\ f.name = d.name
  BY <1>8 DEF Whole
<1>10. f \in Exclusive(s, x) /\ x \in Commits
  BY <1>6, <1>8, <1>9 DEF Exclusive, ExclusiveTable, Alone, Whole
<1>11. x \in present
  BY <1>0, <1>5, <1>9, <1>10
<1>12. x = c
  BY <1>1, <1>2, <1>5, <1>11 DEF c
<1> QED  BY <1>5, <1>12 DEF c

\* Applying a commit puts all of it in force, or nothing of its source.
LEMMA AppliedComposed ==
  ASSUME Shape(registry), Composed, NEW t \in Sources, NEW c \in Commits,
         registry' \in {registry, Applied(registry, t, c)}
  PROVE  Composed'
<1>1. CASE registry' = registry
  BY <1>1 DEF Composed, Present, Complete, FromCommit
<1>2. CASE registry' = Applied(registry, t, c)
  <2> SUFFICES ASSUME NEW s \in Sources, Present(s)' # {}  PROVE Complete(s)' # {}
    BY DEF Composed
  <2>1. \A x \in Commits : \A d \in Exclusive(s, x) :
          IsFrom(registry', d.kind, d.name, Origin(s, x)) <=>
            IF Repo[t][c].valid /\ d.name \in Named(Repo[t][c].definitions, d.kind)
            THEN Origin(s, x) = Origin(t, c)
            ELSE IsFrom(registry, d.kind, d.name, Origin(s, x))
    BY <1>2, ExclusiveFact, FromApplied
  <2>2. CASE s = t /\ Repo[t][c].valid /\ Exclusive(t, c) # {}
    <3>1. \A d \in Exclusive(t, c) : IsFrom(registry', d.kind, d.name, Origin(t, c))
      BY <2>1, <2>2 DEF Named, Exclusive, ExclusiveTable
    <3>2. FromCommit(t, c)' = Exclusive(t, c)
      BY <3>1 DEF FromCommit, Origin
    <3>3. c \in Complete(t)'
      BY <2>2, <3>2 DEF Complete, Present
    <3> QED  BY <2>2, <3>3
  <2>3. CASE ~(s = t /\ Repo[t][c].valid /\ Exclusive(t, c) # {})
    <3>1. ASSUME NEW x \in Commits, NEW d \in Exclusive(s, x)
          PROVE  ~(Repo[t][c].valid /\ d.name \in Named(Repo[t][c].definitions, d.kind))
      <4> SUFFICES ASSUME Repo[t][c].valid, NEW f \in Repo[t][c].definitions,
                          f.kind = d.kind, f.name = d.name
                   PROVE  FALSE
        BY DEF Named
      <4>1. Alone(s, d)
        BY <3>1, ExclusiveFact
      <4>2. s = t
        BY <4>1 DEF Alone
      <4>3. Alone(s, f)
        BY <4>1 DEF Alone
      <4> QED  BY <2>3, <4>2, <4>3 DEF Exclusive, ExclusiveTable
    <3>2. \A x \in Commits : FromCommit(s, x)' = FromCommit(s, x)
      BY <2>1, <3>1 DEF FromCommit, Origin
    <3>3. Present(s)' = Present(s)
      BY <3>2 DEF Present
    <3>4. Complete(s)' = Complete(s)
      BY <3>2, <3>3 DEF Complete, Present
    <3> QED  BY <3>3, <3>4 DEF Composed
  <2> QED  BY <2>2, <2>3
<1> QED  BY <1>1, <1>2

\* Applying a commit leaves what was in force in force, unless it is older than
\* something its own source has in the registry.
LEMMA LaterStays ==
  ASSUME Shape(registry), NEW s \in Sources, NEW t \in Sources, NEW c \in Commits,
         NEW x \in Commits, NEW d \in Exclusive(s, x), LaterFrom(registry, s, d, x),
         t = s => \A k \in Kinds, n \in Names, y \in 0..MaxCommit :
                    EntryOf(s, k, n, y) => y <= c
  PROVE  LaterFrom(Applied(registry, t, c), s, d, x)
<1>1. d.kind \in Kinds /\ d.name \in Names /\ Alone(s, d)
  BY ExclusiveFact
<1>2. PICK y \in x..MaxCommit : IsFrom(registry, d.kind, d.name, Origin(s, y))
  BY DEF LaterFrom
<1>3. CASE Repo[t][c].valid /\ d.name \in Named(Repo[t][c].definitions, d.kind)
  <2>1. t = s
    <3>1. PICK e \in Repo[t][c].definitions : e.kind = d.kind /\ e.name = d.name
      BY <1>3 DEF Named
    <3> QED  BY <1>1, <3>1 DEF Alone
  <2>2. c \in x..MaxCommit
    <3>1. y \in 0..MaxCommit
      BY <1>2 DEF Commits
    <3>2. y <= c
      BY <1>1, <1>2, <2>1, <3>1 DEF EntryOf
    <3> QED  BY <1>2, <3>2, SyncAssumption DEF Commits
  <2>3. IsFrom(Applied(registry, t, c), d.kind, d.name, Origin(s, c))
    BY <1>1, <1>3, <2>1, FromApplied
  <2> QED  BY <2>2, <2>3 DEF LaterFrom
<1>4. CASE ~(Repo[t][c].valid /\ d.name \in Named(Repo[t][c].definitions, d.kind))
  <2>1. IsFrom(Applied(registry, t, c), d.kind, d.name, Origin(s, y))
    BY <1>1, <1>2, <1>4, FromApplied
  <2> QED  BY <1>2, <2>1 DEF LaterFrom
<1> QED  BY <1>3, <1>4

\* Entries after a commit is applied: they were there before, or they are its own.
LEMMA WholeStays ==
  ASSUME Shape(registry), NEW s \in Sources, NEW t \in Sources, NEW c \in Commits, Entries(s),
         t = s => \A k \in Kinds, n \in Names, y \in 0..MaxCommit :
                    EntryOf(s, k, n, y) => y <= c,
         registry' = Applied(registry, t, c),
         NEW k \in Kinds, NEW n \in Names, NEW x \in 0..MaxCommit, EntryOf(s, k, n, x)'
  PROVE  /\ Whole(s, k, n, x)'
         /\ EntryOf(s, k, n, x) \/ (t = s /\ x = c)
<1>1. IsFrom(Applied(registry, t, c), k, n, Origin(s, x))
  BY DEF EntryOf
<1>2. CASE Repo[t][c].valid /\ n \in Named(Repo[t][c].definitions, k)
  <2>1. Origin(s, x) = Origin(t, c)
    BY <1>1, <1>2, FromApplied
  <2>2. t = s /\ x = c
    BY <2>1 DEF Origin
  <2>3. \E d \in Repo[s][x].definitions : d.kind = k /\ d.name = n
    BY <1>2, <2>2 DEF Named
  <2>4. ASSUME NEW d \in Exclusive(s, x)  PROVE LaterFrom(registry', s, d, x)
    <3>1. d.kind \in Kinds /\ d \in Repo[s][x].definitions
      BY <2>2, ExclusiveFact
    <3>2. d.name \in Named(Repo[t][c].definitions, d.kind)
      BY <2>2, <3>1 DEF Named
    <3>3. IsFrom(Applied(registry, t, c), d.kind, d.name, Origin(s, x))
      BY <1>2, <2>2, <3>1, <3>2, FromApplied
    <3>4. x \in x..MaxCommit
      BY <2>2 DEF Commits
    <3> QED  BY <3>3, <3>4 DEF LaterFrom
  <2>5. Whole(s, k, n, x)'
    BY <2>2, <2>3, <2>4 DEF Whole, LaterFrom
  <2> QED  BY <2>2, <2>5
<1>3. CASE ~(Repo[t][c].valid /\ n \in Named(Repo[t][c].definitions, k))
  <2>1. EntryOf(s, k, n, x)
    BY <1>1, <1>3, FromApplied DEF EntryOf
  <2>2. Whole(s, k, n, x)
    BY <2>1 DEF Entries
  <2>3. ASSUME NEW d \in Exclusive(s, x)  PROVE LaterFrom(registry', s, d, x)
    BY <2>2, LaterStays DEF Whole
  <2>4. Whole(s, k, n, x)'
    BY <2>2, <2>3 DEF Whole, LaterFrom
  <2> QED  BY <2>1, <2>4
<1> QED  BY <1>2, <1>3

\* Order is kept by steps that begin no sync.
LEMMA OrderStays ==
  ASSUME RecordsInv, FitInv, overlapped' = overlapped, Plain',
         \A r \in Syncs : pc'[r] \in Running => pc[r] \in Running /\ of'[r] = of[r],
         \A r \in Syncs : pc'[r] \in Applying => clone'[r] <= head'[of'[r]],
         \A s \in Sources : source[s].state # "new" => source'[s].state # "new",
         \A s \in stamped' : /\ source'[s].state # "new"
                             /\ source'[s].state = "registered" => source'[s].commit \in Commits
  PROVE  Orderly'
<1>1. \A s \in Sources, r \in Syncs : r \in Under(s)' => r \in Under(s)
  BY DEF Under
<1>2. \A s \in Sources : Under(s)' \subseteq Syncs
  BY DEF Under
<1>3. \A s \in Sources \ overlapped' : \A q, r \in Under(s)' : q = r
  BY <1>1, <1>2 DEF FitInv, Orderly
<1>4. ASSUME NEW r \in Syncs, pc'[r] \in Running  PROVE source'[of'[r]].state # "new"
  <2>1. pc[r] \in Running /\ of'[r] = of[r]
    BY <1>4
  <2>2. of[r] \in Sources
    BY DEF RecordsInv, Plain
  <2>3. source[of[r]].state # "new"
    BY <2>1 DEF FitInv, Orderly
  <2> QED  BY <2>1, <2>2, <2>3
<1> QED  BY <1>3, <1>4 DEF Orderly

\* Steps that leave the registry alone, and apply nothing.
LEMMA QuietFit ==
  ASSUME RecordsInv, FitInv, Orderly', NeverBehind', registry' = registry,
         overlapped \subseteq overlapped',
         \A s \in Sources : head[s] \in Nat /\ head'[s] \in Nat /\ head[s] <= head'[s],
         \A r \in Syncs : pc'[r] \in Applying =>
           /\ pc[r] \in Applying /\ of'[r] = of[r] /\ clone'[r] = clone[r]
           /\ errors'[r] = errors[r] /\ place'[r] = place[r]
  PROVE  FitInv'
<1>1. ASSUME NEW s \in Sources \ overlapped'  PROVE Entries(s)'
  <2>1. Entries(s)
    BY DEF FitInv
  <2> SUFFICES ASSUME NEW k \in Kinds, NEW n \in Names, NEW c \in 0..MaxCommit,
                      EntryOf(s, k, n, c)'
               PROVE  /\ Whole(s, k, n, c)' /\ c <= head'[s]
                      /\ \A r \in Under(s)' : pc'[r] \in Applying => c <= clone'[r]
    BY DEF Entries
  <2>2. EntryOf(s, k, n, c)
    BY DEF EntryOf
  <2>3. /\ Whole(s, k, n, c) /\ c <= head[s]
        /\ \A r \in Under(s) : pc[r] \in Applying => c <= clone[r]
    BY <2>1, <2>2 DEF Entries
  <2>4. Whole(s, k, n, c)'
    BY <2>3 DEF Whole, LaterFrom
  <2>5. c <= head'[s]
    BY <2>3
  <2>6. ASSUME NEW r \in Under(s)', pc'[r] \in Applying  PROVE c <= clone'[r]
    <3>1. r \in Syncs /\ r \in Under(s)
      BY <2>6 DEF Under, Applying, Running
    <3> QED  BY <2>3, <2>6, <3>1
  <2> QED  BY <2>4, <2>5, <2>6
<1>2. ASSUME NEW r \in Syncs  PROVE InForce(r)'
  <2>1. InForce(r)
    BY DEF FitInv
  <2> QED  BY <2>1 DEF InForce, LaterFrom
<1>3. Composed'
  BY DEF FitInv, Composed, Present, Complete, FromCommit
<1> QED  BY <1>1, <1>2, <1>3 DEF FitInv

\* The loop over the mappings applies nothing older than what is in force.
LEMMA AdvanceFits ==
  ASSUME RecordsInv, FitInv, Plain', NEW r \in Syncs, NEW c \in Commits,
         NEW i \in 1..(Len(Mappings[of[r]]) + 1),
         \/ pc[r] = "clone" /\ c = head[of[r]]
         \/ pc[r] = "files" /\ c = clone[r],
         Advance(r, of[r], c, i), clone' = [clone EXCEPT ![r] = c],
         of[r] \notin overlapped /\ ~errors[r]
           /\ (\E j \in 1..(i - 1) : Mappings[of[r]][j] = "schemas")
           => \A d \in Exclusive(of[r], c) : LaterFrom(registry, of[r], d, c),
         UNCHANGED <<head, source, restarts, of, records, announced, answer,
                     stamped, overlapped>>
  PROVE  FitInv'
<1> DEFINE s == of[r]
           n == Len(Mappings[s])
           stop == NextStop(s, i)
           here == {Mappings[s][j] : j \in i..(stop - 1)}
<1>1. /\ s \in Sources /\ n \in Nat /\ c \in Nat /\ c <= head[s] /\ head[s] \in Nat
      /\ r \in Under(s)
  <2>1. s \in Sources /\ head[s] \in Commits /\ n \in Nat
    BY SyncAssumption DEF RecordsInv, Plain
  <2>2. head[s] \in Nat /\ c \in Nat
    BY <2>1 DEF Commits
  <2>3. CASE pc[r] = "clone" /\ c = head[s]
    <3>1. c <= head[s] /\ r \in Under(s)
      BY <2>2, <2>3 DEF Under, Running
    <3> QED  BY <2>1, <2>2, <3>1
  <2>4. CASE pc[r] = "files" /\ c = clone[r]
    <3>1. c <= head[s] /\ r \in Under(s)
      BY <2>4 DEF Under, Running, FitInv, Orderly, Applying
    <3> QED  BY <2>1, <2>2, <3>1
  <2> QED  BY <2>3, <2>4
<1>2. stop \in i..(n + 1)
  BY <1>1, NextStopFact
<1>3. /\ registry' = IF "schemas" \in here THEN Applied(registry, s, c) ELSE registry
      /\ errors' = [errors EXCEPT ![r] =
           errors[r] \/ "unknown" \in here \/ ("schemas" \in here /\ ~Repo[s][c].valid)]
      /\ place' = [place EXCEPT ![r] = stop]
      /\ pc' = [pc EXCEPT ![r] = IF stop <= n THEN "files" ELSE "stamp"]
  BY DEF Advance, ErrorsAfter
<1> HIDE DEF stop
<1>4. /\ pc'[r] \in Applying /\ place'[r] = stop /\ clone'[r] = c
      /\ ~errors'[r] => ~errors[r] /\ ("schemas" \in here => Repo[s][c].valid)
      /\ \A q \in Syncs \ {r} : /\ pc'[q] = pc[q] /\ place'[q] = place[q]
                                /\ clone'[q] = clone[q] /\ errors'[q] = errors[q]
  BY <1>3 DEF RecordsInv, Plain, Applying
<1>5. s \notin overlapped =>
        \A k \in Kinds, m \in Names, y \in 0..MaxCommit : EntryOf(s, k, m, y) => y <= c
  BY <1>1 DEF FitInv, Entries, Applying
<1>6. Shape(registry)
  BY DEF RecordsInv, Fine
<1>7. ASSUME NEW t \in Sources \ overlapped, NEW x \in Commits, NEW d \in Exclusive(t, x),
             LaterFrom(registry, t, d, x)
      PROVE  LaterFrom(registry', t, d, x)
  <2>1. CASE registry' = registry
    BY <1>7, <2>1 DEF LaterFrom
  <2>2. CASE registry' = Applied(registry, s, c)
    <3>1. s = t => \A k \in Kinds, m \in Names, y \in 0..MaxCommit :
                     EntryOf(t, k, m, y) => y <= c
      BY <1>5
    <3>2. LaterFrom(Applied(registry, s, c), t, d, x)
      BY <1>1, <1>6, <1>7, <3>1, LaterStays
    <3> QED  BY <2>2, <3>2
  <2> QED  BY <1>3, <2>1, <2>2
<1>8. ASSUME NEW t \in Sources \ overlapped, NEW k \in Kinds, NEW m \in Names,
             NEW x \in 0..MaxCommit, EntryOf(t, k, m, x)'
      PROVE  /\ Whole(t, k, m, x)'
             /\ EntryOf(t, k, m, x) \/ (t = s /\ x = c)
  <2>0. Entries(t)
    BY DEF FitInv
  <2>1. CASE registry' = registry
    <3>1. EntryOf(t, k, m, x)
      BY <1>8, <2>1 DEF EntryOf
    <3>2. Whole(t, k, m, x)
      BY <2>0, <3>1 DEF Entries
    <3> QED  BY <2>1, <3>1, <3>2 DEF Whole, LaterFrom
  <2>2. CASE registry' = Applied(registry, s, c)
    <3>1. s = t => \A l \in Kinds, o \in Names, y \in 0..MaxCommit :
                     EntryOf(t, l, o, y) => y <= c
      BY <1>5
    <3> QED  BY <1>1, <1>6, <1>8, <2>0, <2>2, <3>1, WholeStays
  <2> QED  BY <1>3, <2>1, <2>2
<1>9. ASSUME NEW t \in Sources \ overlapped'  PROVE Entries(t)'
  <2> SUFFICES ASSUME NEW k \in Kinds, NEW m \in Names, NEW x \in 0..MaxCommit,
                      EntryOf(t, k, m, x)'
               PROVE  /\ Whole(t, k, m, x)' /\ x <= head'[t]
                      /\ \A q \in Under(t)' : pc'[q] \in Applying => x <= clone'[q]
    BY DEF Entries
  <2>1. t \in Sources \ overlapped
    OBVIOUS
  <2>2. Whole(t, k, m, x)' /\ (EntryOf(t, k, m, x) \/ (t = s /\ x = c))
    BY <1>8, <2>1
  <2>3. EntryOf(t, k, m, x) => /\ x <= head[t]
                               /\ \A q \in Under(t) : pc[q] \in Applying => x <= clone[q]
    BY <2>1 DEF FitInv, Entries
  <2>4. x <= head'[t]
    BY <1>1, <2>2, <2>3
  <2>5. ASSUME NEW q \in Under(t)', pc'[q] \in Applying  PROVE x <= clone'[q]
    <3>1. CASE q = r
      <4>1. t = s
        BY <3>1 DEF Under
      <4> QED  BY <1>1, <1>4, <1>5, <2>1, <2>2, <3>1, <4>1
    <3>2. CASE q # r
      <4>1. q \in Syncs /\ pc[q] \in Applying /\ q \in Under(t) /\ clone'[q] = clone[q]
        BY <1>4, <2>5, <3>2 DEF Under
      <4>2. t # s
        BY <1>1, <2>1, <3>2, <4>1 DEF FitInv, Orderly
      <4> QED  BY <2>2, <2>3, <4>1, <4>2
    <3> QED  BY <3>1, <3>2
  <2> QED  BY <2>2, <2>4, <2>5
<1>10. ASSUME NEW q \in Syncs  PROVE InForce(q)'
  <2> SUFFICES ASSUME of[q] \notin overlapped, pc'[q] \in Applying, ~errors'[q],
                      NEW j \in 1..(place'[q] - 1), Mappings[of[q]][j] = "schemas",
                      NEW d \in Exclusive(of[q], clone'[q])
               PROVE  LaterFrom(registry', of[q], d, clone'[q])
    BY DEF InForce
  <2>0. of[q] \in Sources
    BY DEF RecordsInv, Plain
  <2>1. CASE q # r
    <3>1. pc[q] \in Applying /\ ~errors[q] /\ place'[q] = place[q] /\ clone'[q] = clone[q]
      BY <1>4, <2>1
    <3>2. LaterFrom(registry, of[q], d, clone[q])
      BY <3>1 DEF FitInv, InForce
    <3>3. clone[q] \in Commits
      BY <3>1 DEF RecordsInv, Placed
    <3> QED  BY <1>7, <2>0, <3>1, <3>2, <3>3
  <2>2. CASE q = r /\ "schemas" \in here
    <3>1. Repo[s][c].valid /\ registry' = Applied(registry, s, c) /\ d \in Exclusive(s, c)
      BY <1>3, <1>4, <2>2
    <3>2. d.kind \in Kinds /\ d \in Repo[s][c].definitions
      BY <1>1, <3>1, ExclusiveFact
    <3>3. d.name \in Named(Repo[s][c].definitions, d.kind)
      BY <3>2 DEF Named
    <3>4. IsFrom(Applied(registry, s, c), d.kind, d.name, Origin(s, c))
      BY <1>1, <1>6, <3>1, <3>2, <3>3, FromApplied
    <3>5. c \in c..MaxCommit
      BY <1>1, SyncAssumption DEF Commits
    <3> QED  BY <1>4, <2>2, <3>1, <3>4, <3>5 DEF LaterFrom
  <2>3. CASE q = r /\ "schemas" \notin here
    <3>1. j < i
      <4>1. j \in 1..(stop - 1)
        BY <1>4, <2>3
      <4>2. ~(j \in i..(stop - 1))
        BY <2>3
      <4> QED  BY <1>2, <4>1, <4>2
    <3>2. j \in 1..(i - 1)
      BY <3>1
    <3>3. ~errors[r] /\ registry' = registry /\ clone'[q] = c
      BY <1>3, <1>4, <2>3
    <3>4. LaterFrom(registry, s, d, c)
      BY <2>3, <3>2, <3>3
    <3> QED  BY <2>3, <3>3, <3>4
  <2> QED  BY <2>1, <2>2, <2>3
<1>11. NeverBehind'
  <2> SUFFICES ASSUME NEW t \in stamped \ overlapped, source[t].state = "registered",
                      \E j \in DOMAIN Mappings[t] : Mappings[t][j] = "schemas",
                      NEW d \in Exclusive(t, source[t].commit)
               PROVE  LaterFrom(registry', t, d, source[t].commit)
    BY DEF NeverBehind, LaterFrom, Origin
  <2>1. LaterFrom(registry, t, d, source[t].commit)
    BY DEF FitInv, NeverBehind, LaterFrom, Origin
  <2>2. t \in Sources /\ source[t].commit \in Commits
    BY DEF FitInv, Orderly, RecordsInv, Plain
  <2> QED  BY <1>7, <2>1, <2>2
<1>12. Orderly'
  <2>1. \A q \in Syncs : pc'[q] \in Running => pc[q] \in Running /\ of'[q] = of[q]
    BY <1>1, <1>4 DEF Under
  <2>2. ASSUME NEW q \in Syncs, pc'[q] \in Applying  PROVE clone'[q] <= head'[of'[q]]
    <3>1. CASE q = r
      BY <1>1, <1>4, <3>1
    <3>2. CASE q # r
      <4>1. pc[q] \in Applying /\ clone'[q] = clone[q]
        BY <1>4, <2>2, <3>2
      <4>2. clone[q] <= head[of[q]]
        BY <4>1 DEF FitInv, Orderly
      <4> QED  BY <4>1, <4>2
    <3> QED  BY <3>1, <3>2
  <2>3. /\ \A t \in Sources : source[t].state # "new" => source'[t].state # "new"
        /\ \A t \in stamped' : /\ source'[t].state # "new"
                               /\ source'[t].state = "registered" => source'[t].commit \in Commits
    BY DEF FitInv, Orderly
  <2>4. \A q \in Syncs : pc'[q] \in Applying => clone'[q] <= head'[of'[q]]
    BY <2>2
  <2> QED  BY <2>1, <2>3, <2>4, OrderStays
<1>13. Composed'
  <2>1. registry' \in {registry, Applied(registry, s, c)}
    BY <1>3
  <2> QED  BY <1>1, <1>6, <2>1, AppliedComposed DEF FitInv
<1> QED  BY <1>9, <1>10, <1>11, <1>12, <1>13 DEF FitInv

\* Steps that apply and stamp nothing.
LEMMA QuietStep ==
  ASSUME RecordsInv, FitInv, Plain',
         UNCHANGED <<registry, of, clone, place, errors, stamped, overlapped>>,
         \A s \in Sources : head[s] <= head'[s],
         \A s \in Sources :
           /\ source'[s].commit = source[s].commit
           /\ source[s].state # "new" => source'[s].state # "new"
           /\ source'[s].state = "registered" => source[s].state \in {"new", "registered"},
         \A r \in Syncs : /\ pc'[r] \in Running => pc[r] \in Running
                          /\ pc'[r] \in Applying => pc[r] \in Applying
  PROVE  FitInv'
<1>1. \A s \in Sources : head[s] \in Nat /\ head'[s] \in Nat
  BY DEF RecordsInv, Plain, Commits
<1>2. ASSUME NEW t \in stamped'
      PROVE  /\ t \in Sources /\ source'[t].state # "new"
             /\ source'[t].state = "registered" =>
                  /\ source[t].state = "registered" /\ source'[t].commit = source[t].commit
                  /\ source[t].commit \in Commits
  <2>1. t \in stamped /\ t \in Sources
    BY DEF RecordsInv, Plain
  <2> QED  BY <2>1 DEF FitInv, Orderly
<1>3. NeverBehind'
  BY <1>2 DEF FitInv, NeverBehind
<1>4. ASSUME NEW r \in Syncs, pc'[r] \in Applying  PROVE clone'[r] <= head'[of'[r]]
  <2>1. clone[r] <= head[of[r]]
    BY <1>4 DEF FitInv, Orderly
  <2>2. of[r] \in Sources /\ clone[r] \in Nat
    BY SyncAssumption DEF RecordsInv, Plain
  <2> QED  BY <1>1, <2>1, <2>2
<1>5. /\ \A r \in Syncs : pc'[r] \in Running => pc[r] \in Running /\ of'[r] = of[r]
      /\ \A s \in stamped' : /\ source'[s].state # "new"
                             /\ source'[s].state = "registered" => source'[s].commit \in Commits
  BY <1>2
<1>6. Orderly'
  BY <1>4, <1>5, OrderStays
<1> QED  BY <1>1, <1>3, <1>6, QuietFit

\* A stamp of "success" is of a commit that the call applied.
LEMMA StampFits ==
  ASSUME RecordsInv, FitInv, Plain', NEW r \in Syncs, Stamp(r)  PROVE FitInv'
<1> DEFINE s == of[r]
<1>1. /\ Plain /\ s \in Sources /\ pc[r] = "stamp" /\ clone[r] \in Commits
      /\ Len(Mappings[s]) \in Nat /\ place[r] = Len(Mappings[s]) + 1
  <2>1. Plain /\ Placed(r) /\ pc[r] = "stamp"
    BY DEF RecordsInv, Stamp
  <2>2. s \in Sources /\ Len(Mappings[s]) \in Nat
    BY <2>1, SyncAssumption DEF Plain
  <2>3. clone[r] \in Commits /\ place[r] = Len(Mappings[s]) + 1
    BY <2>1 DEF Placed, Applying
  <2> QED  BY <2>1, <2>2, <2>3
<1>2. /\ UNCHANGED <<head, registry, of, clone, place, errors, overlapped>>
      /\ \A q \in Syncs : /\ pc'[q] \in Running => pc[q] \in Running
                          /\ pc'[q] \in Applying => pc[q] \in Applying
      /\ \A t \in Sources : head[t] \in Nat /\ head'[t] \in Nat /\ head[t] <= head'[t]
  BY <1>1 DEF Stamp, Plain, Running, Applying, Commits
<1>3. CASE UNCHANGED <<source, stamped>>
  BY <1>1, <1>2, <1>3, QuietStep DEF Plain
<1>4. CASE /\ source' = StampSource(s, clone[r], StatusOf(r))
           /\ stamped' = IF StatusOf(r) = "success" THEN stamped \union {s} ELSE stamped \ {s}
  <2>1. /\ \A t \in Sources : source'[t].state = source[t].state
        /\ \A t \in Sources \ {s} : source'[t].commit = source[t].commit
        /\ source[s].state = "registered" => source'[s].commit = clone[r]
    BY <1>1, <1>4 DEF StampSource, Plain
  <2>2. /\ \A t \in stamped' : t \in Sources /\ (t # s => t \in stamped)
        /\ s \in stamped' => ~errors[r]
    BY <1>1, <1>4 DEF Plain, StatusOf
  <2>3. source[s].state # "new"
    BY <1>1 DEF FitInv, Orderly, Running
  <2>4. ASSUME NEW t \in stamped'
        PROVE  /\ source'[t].state # "new"
               /\ source'[t].state = "registered" => source'[t].commit \in Commits
    <3>1. CASE t = s
      BY <1>1, <2>1, <2>3, <3>1
    <3>2. CASE t # s
      <4>1. t \in stamped /\ t \in Sources
        BY <2>2, <3>2
      <4>2. /\ source[t].state # "new"
            /\ source[t].state = "registered" => source[t].commit \in Commits
        BY <4>1 DEF FitInv, Orderly
      <4> QED  BY <2>1, <3>2, <4>1, <4>2
    <3> QED  BY <3>1, <3>2
  <2>5. NeverBehind'
    <3> SUFFICES ASSUME NEW t \in stamped' \ overlapped, source'[t].state = "registered",
                        NEW j \in DOMAIN Mappings[t], Mappings[t][j] = "schemas",
                        NEW d \in Exclusive(t, source'[t].commit)
                 PROVE  LaterFrom(registry', t, d, source'[t].commit)
      BY <1>2 DEF NeverBehind, LaterFrom, Origin
    <3>1. CASE t = s
      <4>1. source'[s].commit = clone[r] /\ ~errors[r]
        BY <1>1, <2>1, <2>2, <3>1
      <4>2. j \in 1..(place[r] - 1)
        <5>1. DOMAIN Mappings[s] = 1..Len(Mappings[s])
          BY <1>1, SyncAssumption
        <5> QED  BY <1>1, <3>1, <5>1
      <4>3. InForce(r)
        BY DEF FitInv
      <4>4. LaterFrom(registry, s, d, clone[r])
        BY <1>1, <3>1, <4>1, <4>2, <4>3 DEF InForce, Applying
      <4> QED  BY <1>2, <3>1, <4>1, <4>4
    <3>2. CASE t # s
      <4>1. t \in stamped \ overlapped /\ t \in Sources
        BY <2>2, <3>2
      <4>2. source[t].state = "registered" /\ source'[t].commit = source[t].commit
        BY <2>1, <3>2, <4>1
      <4>3. LaterFrom(registry, t, d, source[t].commit)
        BY <4>1, <4>2 DEF FitInv, NeverBehind, LaterFrom, Origin
      <4> QED  BY <1>2, <4>2, <4>3
    <3> QED  BY <3>1, <3>2
  <2>6. \A q \in Syncs : pc'[q] \in Applying => clone'[q] <= head'[of'[q]]
    BY <1>2 DEF FitInv, Orderly
  <2>7. Orderly'
    <3>1. /\ overlapped' = overlapped
          /\ \A q \in Syncs : pc'[q] \in Running => pc[q] \in Running /\ of'[q] = of[q]
          /\ \A t \in Sources : source[t].state # "new" => source'[t].state # "new"
      BY <1>2, <2>1
    <3> QED  BY <2>4, <2>6, <3>1, OrderStays
  <2>8. /\ registry' = registry /\ overlapped \subseteq overlapped'
        /\ \A q \in Syncs : pc'[q] \in Applying =>
             /\ pc[q] \in Applying /\ of'[q] = of[q] /\ clone'[q] = clone[q]
             /\ errors'[q] = errors[q] /\ place'[q] = place[q]
    BY <1>2
  <2> QED  BY <1>2, <2>5, <2>7, <2>8, QuietFit
<1> QED  BY <1>3, <1>4 DEF Stamp, StampedCommit

\* A sync that begins while another one of its source runs is noted.
LEMMA BeginFits ==
  ASSUME RecordsInv, FitInv, NEW r \in Syncs, NEW s \in Sources, Begin(r, s)  PROVE FitInv'
<1>1. /\ Plain /\ pc[r] = "idle" /\ overlapped \subseteq overlapped'
      /\ UNCHANGED <<head, source, registry, clone, place, errors, stamped>>
      /\ of'[r] = s /\ \A q \in Syncs \ {r} : pc'[q] = pc[q] /\ of'[q] = of[q]
      /\ \/ /\ pc'[r] = "clone" /\ source[s].state = "registered"
            /\ Under(s) = {} \/ s \in overlapped'
         \/ pc'[r] = "done"
  BY DEF RecordsInv, Plain, Begin
<1>2. ASSUME NEW t \in Sources \ overlapped', NEW q \in Under(t)', NEW p \in Under(t)'
      PROVE  q = p
  <2>1. q \in Syncs /\ p \in Syncs
    BY DEF Under
  <2>2. CASE q # r /\ p # r
    <3>1. q \in Under(t) /\ p \in Under(t)
      BY <1>1, <2>1, <2>2 DEF Under
    <3> QED  BY <1>1, <3>1 DEF FitInv, Orderly
  <2>3. CASE q = r \/ p = r
    <3>1. t = s /\ Under(s) = {}
      BY <1>1, <2>3 DEF Under, Running
    <3>2. ASSUME NEW u \in Under(t)', u # r  PROVE FALSE
      BY <1>1, <3>1, <3>2 DEF Under
    <3> QED  BY <3>2
  <2> QED  BY <2>2, <2>3
<1>3. ASSUME NEW q \in Syncs
      PROVE  /\ pc'[q] \in Running => source'[of'[q]].state # "new"
             /\ pc'[q] \in Applying =>
                  /\ clone'[q] <= head'[of'[q]]
                  /\ pc[q] \in Applying /\ of'[q] = of[q] /\ clone'[q] = clone[q]
                  /\ errors'[q] = errors[q] /\ place'[q] = place[q]
  <2>1. CASE q = r
    BY <1>1, <2>1 DEF Running, Applying
  <2>2. CASE q # r
    BY <1>1, <2>2 DEF FitInv, Orderly
  <2> QED  BY <2>1, <2>2
<1>4. Orderly'
  BY <1>1, <1>2, <1>3 DEF FitInv, Orderly
<1>5. NeverBehind'
  BY <1>1 DEF FitInv, NeverBehind
<1>6. \A t \in Sources : head[t] \in Nat /\ head'[t] \in Nat /\ head[t] <= head'[t]
  BY <1>1 DEF Plain, Commits
<1> QED  BY <1>1, <1>3, <1>4, <1>5, <1>6, QuietFit

\* When the process starts, nothing in the registry is from a source.
LEMMA FitInit == Init => FitInv
<1> SUFFICES ASSUME Init  PROVE FitInv
  OBVIOUS
<1>1. /\ registry = AtStart /\ stamped = {}
      /\ \A r \in Syncs : pc[r] = "idle"
  BY DEF Init
<1>2. \A s \in Sources : Under(s) = {}
  BY <1>1 DEF Under, Running
<1>3. \A s \in Sources, k \in Kinds, n \in Names, c \in 0..MaxCommit :
       ~EntryOf(s, k, n, c)
  BY <1>1, FromAtStart DEF EntryOf
<1>4. Composed
  <2> SUFFICES ASSUME NEW s \in Sources  PROVE Present(s) = {}
    BY DEF Composed
  <2>1. ASSUME NEW c \in Commits, NEW d \in Exclusive(s, c)
        PROVE  ~IsFrom(registry, d.kind, d.name, Origin(s, c))
    BY <1>1, <2>1, ExclusiveFact, FromAtStart
  <2> QED  BY <2>1 DEF Present, FromCommit, Origin
<1> QED  BY <1>1, <1>2, <1>3, <1>4 DEF FitInv, Orderly, NeverBehind, Entries, InForce, Running, Applying

LEMMA RestartFits == ASSUME RecordsInv, Restart  PROVE FitInv'
<1>1. /\ registry' = AtStart /\ stamped' = {}
      /\ \A r \in Syncs : pc'[r] \in {"idle", "done"}
  BY DEF Restart
<1>2. \A s \in Sources : Under(s)' = {}
  BY <1>1 DEF Under, Running
<1>3. \A s \in Sources, k \in Kinds, n \in Names, c \in 0..MaxCommit :
       ~EntryOf(s, k, n, c)'
  BY <1>1, FromAtStart DEF EntryOf
<1>4. Composed'
  <2> SUFFICES ASSUME NEW s \in Sources  PROVE Present(s)' = {}
    BY DEF Composed
  <2>1. ASSUME NEW c \in Commits, NEW d \in Exclusive(s, c)
        PROVE  ~IsFrom(registry', d.kind, d.name, Origin(s, c))
    BY <1>1, <2>1, ExclusiveFact, FromAtStart
  <2> QED  BY <2>1 DEF Present, FromCommit, Origin
<1> QED  BY <1>1, <1>2, <1>3, <1>4 DEF FitInv, Orderly, NeverBehind, Entries, InForce, Running, Applying

LEMMA FitStep == RecordsInv /\ FitInv /\ [Next]_vars => FitInv'
<1> SUFFICES ASSUME RecordsInv, FitInv, [Next]_vars  PROVE FitInv'
  OBVIOUS
<1>0. Plain /\ (\A r \in Syncs : Placed(r)) /\ Plain'
  BY RecordsStep DEF RecordsInv
<1>1. ASSUME NEW s \in Sources, Push(s) \/ RegisterSource(s) \/ DeleteSource(s)  PROVE FitInv'
  <2>1. UNCHANGED <<registry, of, clone, place, errors, stamped, overlapped, pc>>
    BY <1>1 DEF Push, RegisterSource, DeleteSource, syncVars
  <2>2. \A t \in Sources : head[t] <= head'[t]
    BY <1>0, <1>1 DEF Push, RegisterSource, DeleteSource, Plain, Commits
  <2>3. \A t \in Sources :
          /\ source'[t].commit = source[t].commit
          /\ source[t].state # "new" => source'[t].state # "new"
          /\ source'[t].state = "registered" => source[t].state \in {"new", "registered"}
    BY <1>0, <1>1 DEF Push, RegisterSource, DeleteSource, Plain
  <2> QED  BY <1>0, <2>1, <2>2, <2>3, QuietStep
<1>2. ASSUME NEW r \in Syncs, CloneFails(r) \/ Record(r) \/ Announce(r) \/ RecordFailure(r)
      PROVE  FitInv'
  <2>1. UNCHANGED <<head, source, registry, of, clone, place, errors, stamped, overlapped>>
    BY <1>2 DEF CloneFails, Record, Announce, RecordFailure
  <2>2. \A q \in Syncs : /\ pc'[q] \in Running => pc[q] \in Running
                         /\ pc'[q] \in Applying => pc[q] \in Applying
    BY <1>0, <1>2 DEF CloneFails, Record, Announce, RecordFailure, Plain, Running, Applying
  <2>3. \A t \in Sources : /\ source[t].state \in {"new", "registered", "deleted"}
                           /\ head[t] <= head'[t]
    BY <1>0, <2>1 DEF Plain, Commits
  <2> QED  BY <1>0, <2>1, <2>2, <2>3, QuietStep
<1>3. ASSUME NEW r \in Syncs, Clone(r)  PROVE FitInv'
  <2>1. head[of[r]] \in Commits /\ of[r] \in Sources
    BY <1>0 DEF Plain
  <2>2. PICK c \in Commits : c = head[of[r]]
    BY <2>1
  <2>3. PICK i \in 1..(Len(Mappings[of[r]]) + 1) : i = 1
    BY <2>1, SyncAssumption
  <2>4. ~(\E j \in 1..(i - 1) : Mappings[of[r]][j] = "schemas")
    BY <2>3
  <2>5. /\ pc[r] = "clone" /\ Advance(r, of[r], c, i) /\ clone' = [clone EXCEPT ![r] = c]
        /\ UNCHANGED <<head, source, restarts, of, records, announced, answer,
                       stamped, overlapped>>
    BY <1>3, <2>2, <2>3 DEF Clone
  <2> QED  BY <1>0, <2>2, <2>4, <2>5, AdvanceFits
<1>4. ASSUME NEW r \in Syncs, WriteFiles(r)  PROVE FitInv'
  <2> DEFINE n == Len(Mappings[of[r]])
  <2>1. of[r] \in Sources /\ n \in Nat
    BY <1>0, SyncAssumption DEF Plain
  <2>2. /\ clone[r] \in Commits /\ place[r] \in 1..n
        /\ Mappings[of[r]][place[r]] = "files" /\ pc[r] = "files"
    BY <1>0, <1>4, <2>1 DEF WriteFiles, Placed, Applying
  <2>3. PICK i \in 1..(n + 1) : i = place[r] + 1
    BY <2>1, <2>2
  <2>4. ASSUME of[r] \notin overlapped, ~errors[r],
               NEW j \in 1..(i - 1), Mappings[of[r]][j] = "schemas"
        PROVE  \A d \in Exclusive(of[r], clone[r]) : LaterFrom(registry, of[r], d, clone[r])
    <3>1. j # place[r] /\ j \in 1..place[r]
      BY <2>2, <2>3, <2>4
    <3>2. j \in 1..(place[r] - 1)
      BY <2>1, <2>2, <3>1
    <3>3. InForce(r)
      BY DEF FitInv
    <3> QED  BY <2>2, <2>4, <3>2, <3>3 DEF InForce, Applying
  <2>5. /\ Advance(r, of[r], clone[r], i) /\ clone' = [clone EXCEPT ![r] = clone[r]]
        /\ UNCHANGED <<head, source, restarts, of, records, announced, answer,
                       stamped, overlapped>>
    BY <1>0, <1>4, <2>3 DEF WriteFiles, Plain
  <2> QED  BY <1>0, <2>2, <2>4, <2>5, AdvanceFits
<1>5. ASSUME NEW r \in Syncs, Stamp(r)  PROVE FitInv'
  BY <1>0, <1>5, StampFits
<1>6. CASE UNCHANGED vars
  <2>1. UNCHANGED <<head, source, registry, of, clone, place, errors, stamped, overlapped, pc>>
    BY <1>6 DEF vars, syncVars
  <2>2. \A t \in Sources : /\ source[t].state \in {"new", "registered", "deleted"}
                           /\ head[t] <= head'[t]
    BY <1>0, <2>1 DEF Plain, Commits
  <2> QED  BY <1>0, <2>1, <2>2, QuietStep
<1> QED
  BY <1>1, <1>2, <1>3, <1>4, <1>5, <1>6, BeginFits, RestartFits DEF Next, SyncStep

\* A source stamped "success" is in force, and its newest commit in the registry
\* is there as a whole: for any number of sources, commits and syncs, any
\* mappings and any failures, as long as no two syncs of that source overlap
\* (SyncService.sync, which takes no lock); if they do, some commit of it is.
THEOREM RegistryFits == Spec => []RegistryFitsStamps
BY RecordsInit, RecordsStep, FitInit, FitStep, FitInvSays, PTL DEF Spec
================================================================================
