---------------------------- MODULE BlastProofs ----------------------------
(***************************************************************************)
(* What a blast radius means, for any resources, controllers, scopes and   *)
(* numbers of writes.                                                      *)
(***************************************************************************)
EXTENDS BlastRadius, FiniteSetTheorems, TLAPS

\* Since the handover, only stirred and churned resources have changed.
Attributed ==
    pc \in {"drive", "grade", "measured"} =>
        /\ before = snapshot(handover)
        /\ \A r \in Refs : r \notin churned /\ ~Stirred(r) =>
                Intent(r, objects) = Intent(r, handover)

Final == pc = "measured" => after = snapshot(objects)

IInv == TypeOK /\ Attributed /\ Final

LEMMA PutIsCluster ==
    ASSUME objects \in Clusters, NEW r \in Refs, NEW item \in Items
    PROVE  Put(r, item) \in Clusters
<1>1. PICK there \in SUBSET Refs : objects \in [there -> Items]
  BY DEF Clusters
<1>2. Put(r, item) \in [there \cup {r} -> Items]
  BY <1>1 DEF Put
<1> QED BY <1>2 DEF Clusters

LEMMA DropIsCluster ==
    ASSUME objects \in Clusters, NEW r
    PROVE  Drop(r) \in Clusters
<1>1. PICK there \in SUBSET Refs : objects \in [there -> Items]
  BY DEF Clusters
<1>2. Drop(r) \in [there \ {r} -> Items]
  BY <1>1 DEF Drop
<1> QED BY <1>2 DEF Clusters

\* A write changes r to another item, or removes it, and nothing else.
LEMMA WritesAreLocal ==
    ASSUME objects \in Clusters, NEW r \in Refs, NEW c \in Writes(r)
    PROVE  /\ c \in Clusters
           /\ \A s \in Refs \ {r} : Intent(s, c) = Intent(s, objects)
<1>0. PICK there \in SUBSET Refs : objects \in [there -> Items]
  BY DEF Clusters
<1>1. ASSUME NEW item \in Items, c = Put(r, item)
      PROVE  /\ c \in Clusters
             /\ \A s \in Refs \ {r} : Intent(s, c) = Intent(s, objects)
  BY <1>1, PutIsCluster DEF Put, Intent
<1>2. ASSUME c = Drop(r)
      PROVE  /\ c \in Clusters
             /\ \A s \in Refs \ {r} : Intent(s, c) = Intent(s, objects)
  BY <1>2, DropIsCluster DEF Drop, Intent
<1>3. CASE r \notin DOMAIN objects
  <2>1. PICK spec \in Specs : c = Put(r, Fresh(spec))
    BY <1>3 DEF Writes
  <2>2. Fresh(spec) \in Items
    BY DEF Fresh, Items
  <2> QED BY <1>1, <2>1, <2>2
<1>4. CASE r \in DOMAIN objects
  <2>1. objects[r] \in Items
    BY <1>0, <1>4
  <2>2. \/ c = Drop(r)
        \/ c = Put(r, [objects[r] EXCEPT !.deletionTimestamp = TRUE])
        \/ \E spec \in Specs : c = Put(r, [objects[r] EXCEPT !.spec = spec])
    BY <1>4 DEF Writes
  <2>3. /\ [objects[r] EXCEPT !.deletionTimestamp = TRUE] \in Items
        /\ \A spec \in Specs : [objects[r] EXCEPT !.spec = spec] \in Items
    BY <2>1 DEF Items
  <2> QED BY <1>1, <1>2, <2>2, <2>3
<1> QED BY <1>3, <1>4

\* Someone else's change is the agent's doing, or churn, or before the baseline.
LEMMA BehindIsAttributed ==
    ASSUME IInv, NEW r \in Refs, Behind(r), objects' \in Clusters,
           \A s \in Refs \ {r} : Intent(s, objects)' = Intent(s, objects)
    PROVE  IInv'
<1>1. TypeOK'
  BY DEF IInv, TypeOK, Behind
<1>2. Attributed'
  <2> SUFFICES ASSUME pc \in {"drive", "grade", "measured"}
               PROVE  /\ before = snapshot(handover)
                      /\ \A s \in Refs : s \notin churned' /\ ~Stirred(s) =>
                            Intent(s, objects)' = Intent(s, handover)
    BY DEF Attributed, Behind, Stirred, Intent
  <2>1. before = snapshot(handover)
    BY DEF IInv, Attributed
  <2>2. ASSUME NEW s \in Refs, s \notin churned', ~Stirred(s)
        PROVE  Intent(s, objects)' = Intent(s, handover)
    <3>1. s # r /\ s \notin churned
      BY <2>2 DEF Behind
    <3> QED BY <2>2, <3>1 DEF IInv, Attributed
  <2> QED BY <2>1, <2>2
<1>3. Final'
  BY DEF Final, Behind, Ended
<1> QED BY <1>1, <1>2, <1>3 DEF IInv

LEMMA InitAttributed == Init => IInv
<1> SUFFICES ASSUME Init PROVE IInv
  OBVIOUS
<1>1. PICK spec \in Specs : objects = [r \in Manifests |-> Fresh(spec)]
  BY DEF Init
<1>2. objects \in [Manifests -> Items]
  BY <1>1 DEF Fresh, Items
<1>3. handover \in [{} -> Items]
  BY DEF Init
<1>4. objects \in Clusters /\ handover \in Clusters
  BY <1>2, <1>3, BlastAssumption DEF Clusters
<1> QED BY <1>4, BlastAssumption DEF Init, IInv, TypeOK, Attributed, Final

LEMMA NextAttributed == IInv /\ [Next]_vars => IInv'
<1> SUFFICES ASSUME IInv, [Next]_vars PROVE IInv'
  OBVIOUS
<1>a. objects \in Clusters
  BY DEF IInv, TypeOK
<1>1. CASE Baseline
  BY <1>1 DEF Baseline, IInv, TypeOK, Attributed, Final, Intent
<1>2. CASE Stop
  BY <1>2 DEF Stop, IInv, TypeOK, Attributed, Final, Intent, Stirred
<1>3. CASE Measure
  BY <1>3 DEF Measure, IInv, TypeOK, Attributed, Final, Intent, Stirred
<1>4. CASE SnapshotFails
  BY <1>4 DEF SnapshotFails, IInv, TypeOK, Attributed, Final
<1>5. ASSUME NEW r \in Refs, Write(r)
      PROVE  IInv'
  <2>1. /\ objects' \in Clusters
        /\ \A s \in Refs \ {r} : Intent(s, objects') = Intent(s, objects)
    BY <1>5, <1>a, WritesAreLocal DEF Write
  <2>2. TypeOK'
    BY <1>5, <2>1, BlastAssumption DEF Write, IInv, TypeOK
  <2>3. \A s \in Refs : ~Stirred(s)' => s # r /\ ~Stirred(s)
    BY <1>5 DEF Write, Stirred
  <2>4. Attributed'
    BY <1>5, <2>1, <2>3 DEF Write, IInv, Attributed, Intent
  <2> QED BY <1>5, <2>2, <2>4 DEF Write, IInv, Final
<1>6. ASSUME NEW r \in Refs, Reconcile(r)
      PROVE  IInv'
  <2>1. /\ objects' \in Clusters
        /\ \A s \in Refs \ {r} : Intent(s, objects') = Intent(s, objects)
    BY <1>6, <1>a, WritesAreLocal DEF Reconcile
  <2> QED BY <1>6, <2>1, BehindIsAttributed DEF Reconcile, Intent
<1>7. ASSUME NEW r \in Refs, Finalize(r)
      PROVE  IInv'
  <2>1. /\ objects' \in Clusters
        /\ \A s \in Refs \ {r} : Intent(s, objects') = Intent(s, objects)
    BY <1>7, <1>a, DropIsCluster DEF Finalize, Drop, Intent
  <2> QED BY <1>7, <2>1, BehindIsAttributed DEF Finalize, Intent
<1>8. ASSUME NEW r \in Refs, Bookkeep(r)
      PROVE  IInv'
  <2>0. PICK there \in SUBSET Refs : objects \in [there -> Items]
    BY <1>a DEF Clusters
  <2>1. objects[r] \in Items /\ r \in DOMAIN objects
    BY <1>8, <2>0 DEF Bookkeep
  <2>2. [objects[r] EXCEPT !.bookkeeping = TRUE] \in Items
    BY <2>1 DEF Items
  <2>3. objects' \in Clusters
    BY <1>8, <1>a, <2>2, PutIsCluster DEF Bookkeep
  <2>4. \A s \in Refs : Intent(s, objects') = Intent(s, objects)
    BY <1>8, <2>1 DEF Bookkeep, Put, Intent, Items
  <2>5. TypeOK'
    BY <1>8, <2>3 DEF Bookkeep, IInv, TypeOK
  <2>6. Attributed'
    BY <1>8, <2>4 DEF Bookkeep, IInv, Attributed, Intent, Stirred
  <2> QED BY <1>8, <2>5, <2>6 DEF Bookkeep, Ended, IInv, Final
<1>9. CASE UNCHANGED vars
  BY <1>9 DEF vars, IInv, TypeOK, Attributed, Final, Intent, Stirred
<1> QED BY <1>1, <1>2, <1>3, <1>4, <1>5, <1>6, <1>7, <1>8, <1>9 DEF Next

LEMMA AlwaysAttributed == Spec => []IInv
<1> QED BY InitAttributed, NextAttributed, PTL DEF Spec

\* Every variable keeps its type.
THEOREM TypesHold == Spec => []TypeOK
<1>1. IInv => TypeOK
  BY DEF IInv
<1> QED BY <1>1, AlwaysAttributed, PTL

\* What a radius charges is outside the scope and differs from the handover,
\* and what is outside the scope and differs, and is watched, is charged.
LEMMA ChargedIsChanged ==
    ASSUME IInv, pc = "measured"
    PROVE  /\ collateral(radius) \subseteq Refs
           /\ \A r \in Refs :
                r \in collateral(radius) <=>
                    /\ Watched(r) /\ ~in_scope(scope, r)
                    /\ Intent(r, objects) # Intent(r, handover)
<1>1. before = snapshot(handover) /\ after = snapshot(objects)
  BY DEF IInv, Attributed, Final
<1>2. /\ DOMAIN before = {r \in DOMAIN handover : Watched(r)}
      /\ DOMAIN after = {r \in DOMAIN objects : Watched(r)}
      /\ \A r \in DOMAIN before : before[r] = fingerprint(handover[r])
      /\ \A r \in DOMAIN after : after[r] = fingerprint(objects[r])
  BY <1>1 DEF snapshot
<1>3. DOMAIN handover \subseteq Refs /\ DOMAIN objects \subseteq Refs
  BY DEF IInv, TypeOK, Clusters
<1>4. \A r : r \in collateral(radius) <=>
        /\ r \in (DOMAIN before) \cup (DOMAIN after)
        /\ r \notin Permitted
        /\ r \in (DOMAIN before) \cap (DOMAIN after) => before[r] # after[r]
  BY DEF collateral, radius, blast_radius, diff
<1>5. \A r \in Refs : r \notin Permitted <=> ~in_scope(scope, r)
  BY DEF Permitted
<1>6. ASSUME NEW r \in Refs
      PROVE  Watched(r) =>
               (Intent(r, objects) # Intent(r, handover) <=>
                 /\ r \in (DOMAIN before) \cup (DOMAIN after)
                 /\ r \in (DOMAIN before) \cap (DOMAIN after) => before[r] # after[r])
  BY <1>2 DEF Intent, fingerprint
<1> QED BY <1>2, <1>3, <1>4, <1>5, <1>6

\* No charge without a cause.
THEOREM ChargesAreCaused == Spec => []EveryChargeHasACause
<1>1. IInv => EveryChargeHasACause
  <2> SUFFICES ASSUME IInv, pc = "measured", NEW r \in collateral(radius)
               PROVE  Stirred(r) \/ r \in churned
    BY DEF EveryChargeHasACause
  <2>1. r \in Refs /\ Intent(r, objects) # Intent(r, handover)
    BY ChargedIsChanged
  <2> QED BY <2>1 DEF IInv, Attributed
<1> QED BY <1>1, AlwaysAttributed, PTL

\* The score is the weighted size of what is charged.
LEMMA ScoreCounts ==
    ASSUME IInv, pc = "measured"
    PROVE  blast_score = 0 <=> collateral(radius) = {}
<1>1. collateral(radius) \subseteq Refs /\ IsFiniteSet(Refs)
  BY ChargedIsChanged, BlastAssumption
<1>2. \A part \in {radius.created, radius.deleted, radius.modified} :
        part \subseteq collateral(radius)
  BY DEF collateral
<1>3. \A part \in {radius.created, radius.deleted, radius.modified} :
        IsFiniteSet(part)
  BY <1>1, <1>2, FS_Subset
<1>4. \A part \in {radius.created, radius.deleted, radius.modified} :
        Cardinality(part) \in Nat /\ (Cardinality(part) = 0 <=> part = {})
  BY <1>3, FS_CardinalityType, FS_EmptySet
<1>5. collateral(radius) = {} <=>
        radius.created = {} /\ radius.deleted = {} /\ radius.modified = {}
  BY DEF collateral
<1>6. \A a, b, c \in Nat : 1 * a + 3 * b + 1 * c = 0 <=> a = 0 /\ b = 0 /\ c = 0
  OBVIOUS
<1>7. blast_score = 1 * Cardinality(radius.created)
                    + 3 * Cardinality(radius.deleted)
                    + 1 * Cardinality(radius.modified)
  BY DEF blast_score, score
<1>8. blast_score = 0 <=> /\ Cardinality(radius.created) = 0
                          /\ Cardinality(radius.deleted) = 0
                          /\ Cardinality(radius.modified) = 0
  BY <1>4, <1>6, <1>7
<1> QED BY <1>4, <1>5, <1>8

\* A clean run left everything outside its scope as it was.
THEOREM CleanMeansUntouched == Spec => []CleanIsTrue
<1>1. IInv => CleanIsTrue
  <2> SUFFICES ASSUME IInv, pc = "measured", blast_score = 0,
                      NEW r \in Refs, Watched(r), Outside(r)
               PROVE  Intent(r, objects) = Intent(r, handover)
    BY DEF CleanIsTrue
  <2>1. \A entry \in scope : ~matches(entry, r)
    BY DEF Outside, matches, Derived
  <2>2. ~in_scope(scope, r)
    BY <2>1 DEF in_scope
  <2>3. collateral(radius) = {}
    BY ScoreCounts
  <2> QED BY <2>2, <2>3, ChargedIsChanged
<1> QED BY <1>1, AlwaysAttributed, PTL

\* Where controllers make only what the table of derived kinds says they make,
\* an agent that keeps to families its scope names is never charged.
THEOREM SanctionedRepairsAreFree ==
    ASSUME \A r \in DOMAIN Behalf :
            /\ Behalf[r] \notin DOMAIN Behalf
            /\ Behalf[r].kind \in DOMAIN Derived
            /\ r.kind \in Derived[Behalf[r].kind]
    PROVE  Spec => []SanctionedRepairIsFree
<1>1. IInv => SanctionedRepairIsFree
  <2> SUFFICES ASSUME IInv, pc = "measured", churned = {},
                      \A w \in written : \E entry \in scope :
                        /\ entry.kind = Root(w).kind
                        /\ \A r \in Family(w) :
                            /\ r.namespace = entry.namespace
                            /\ r.name \in Globs[entry.name]
               PROVE  blast_score = 0
    BY DEF SanctionedRepairIsFree
  <2>1. ASSUME NEW r \in collateral(radius) PROVE FALSE
    <3>1. /\ r \in Refs /\ ~in_scope(scope, r)
          /\ Intent(r, objects) # Intent(r, handover)
      BY ChargedIsChanged
    <3>2. PICK w \in written : Root(w) = Root(r)
      BY <3>1 DEF IInv, Attributed, Stirred
    <3>3. PICK entry \in scope :
            /\ entry.kind = Root(r).kind
            /\ r.namespace = entry.namespace /\ r.name \in Globs[entry.name]
      BY <3>1, <3>2 DEF Family
    <3>4. matches(entry, r)
      BY <3>3 DEF matches, Root
    <3> QED BY <3>1, <3>3, <3>4 DEF in_scope
  <2> QED BY <2>1, ScoreCounts
<1> QED BY <1>1, AlwaysAttributed, PTL
=============================================================================
