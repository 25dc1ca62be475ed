------------------------- MODULE VersionStore_proofs -------------------------
(***************************************************************************)
(* Proofs about VersionStore for every set of names and values and every   *)
(* width of a version.  What a write does to one record is stated in       *)
(* Records_proofs; the invariants then follow action by action.            *)
(***************************************************************************)
EXTENDS VersionStore, Records_proofs

USE RecordAssumption, StoreAssumption

----------------------------------------------------------------------------
(* Type correctness. *)

\* The vault holds records and the promises name real assignments
\* (store.Store over backend.Backend).
THEOREM TypeCorrect == Spec => []TypeOK
<1>1. Init => TypeOK
  BY DEF Init, TypeOK
<1>2. TypeOK /\ [Next]_vars => TypeOK'
  <2> SUFFICES ASSUME TypeOK, [Next]_vars PROVE TypeOK'
    OBVIOUS
  <2> USE DEF TypeOK
  <2>a. ASSUME NEW n \in Names, NEW r \in Record, NEW v \in Version, NEW x \in Values,
               Save(n, r, Assigned(n, v, x))
        PROVE  TypeOK'
    BY <2>a DEF Save, Assigned, Promise
  <2>1. ASSUME NEW n \in Names, NEW x \in Values, Put(n, x)
        PROVE  TypeOK'
    <3>1. CASE ~Exists(n) /\ Save(n, NewRecord(1, x), Assigned(n, 1, x))
      BY <2>a, <3>1, OneIsAVersion, OperatorTypes DEF NewRecord, Record
    <3>2. CASE Exists(n) /\ told' = told \cup Assigned(n, vault[n].latest, x) /\ UNCHANGED vault
      BY <3>2 DEF Exists, Assigned, Promise, Record
    <3>3. CASE Exists(n) /\ Save(n, WithPut(vault[n], x), Assigned(n, NextVersion(vault[n]), x))
      BY <2>a, <3>3, OperatorTypes, NextVersionType DEF Exists
    <3> QED
      BY <2>1, <3>1, <3>2, <3>3 DEF Put
  <2>2. ASSUME NEW n \in Names, NEW v \in Version, NEW x \in Values, CreateVersion(n, v, x)
        PROVE  TypeOK'
    <3>1. CASE ~Exists(n) /\ Save(n, NewRecord(v, x), Assigned(n, v, x))
      BY <2>a, <3>1 DEF NewRecord, Record
    <3>2. CASE Exists(n) /\ Save(n, WithVersion(vault[n], v, x), Assigned(n, v, x))
      BY <2>a, <3>2, OperatorTypes DEF Exists
    <3> QED
      BY <2>2, <3>1, <3>2 DEF CreateVersion
  <2>3. ASSUME NEW n \in Names, NEW v \in Version, Activate(n, v)
        PROVE  TypeOK'
    <3>1. WithActive(vault[n], v) \in Record
      BY <2>3 DEF Activate, Exists, WithActive, Record
    <3> QED
      BY <2>3, <3>1 DEF Activate, Save
  <2>4. ASSUME NEW n \in Names, NEW v \in Version, DeleteVersion(n, v)
        PROVE  TypeOK'
    <3>1. WithoutVersion(vault[n], v) \in Record
      BY <2>4 DEF DeleteVersion, Exists, WithoutVersion, Record
    <3> QED
      BY <2>4, <3>1 DEF DeleteVersion
  <2>5. ASSUME NEW n \in Names, Delete(n)
        PROVE  TypeOK'
    BY <2>5 DEF Delete
  <2>6. CASE UNCHANGED vars
    BY <2>6 DEF vars
  <2> QED
    BY <2>1, <2>2, <2>3, <2>4, <2>5, <2>6 DEF Next
<1> QED
  BY <1>1, <1>2, PTL DEF Spec

----------------------------------------------------------------------------
(* The invariants of the store over a backend that validates (1Password).   *)

Inv == TypeOK /\ WellFormed /\ AcknowledgedKept

\* A record that keeps the values of its predecessor's live versions and gives
\* x to v can replace it: no promise is broken.
LEMMA SaveKeepsPromises ==
    ASSUME Inv, NEW n \in Names, NEW s \in Record, NEW v \in Version, NEW x \in Values,
           NEW new \in SUBSET Assigned(n, v, x),
           Save(n, s, new), RecordOK(s),
           new # {} => s.versions[v] = x,
           Exists(n) => \A u \in Live(vault[n]) : s.versions[u] = vault[n].versions[u]
    PROVE  WellFormed' /\ AcknowledgedKept'
<1> USE DEF Inv
<1>1. vault' = [vault EXCEPT ![n] = s] /\ s # Absent /\ vault \in [Names -> Record \cup {Absent}]
  BY DEF Save, TypeOK
<1>2. WellFormed'
  BY <1>1 DEF WellFormed, Exists
<1>3. ASSUME NEW t \in told'
      PROVE  Exists(t.name)' /\ (vault[t.name].versions[t.version] = t.value)'
  <2>1. CASE t \in told /\ t.name # n
    BY <1>1, <2>1 DEF AcknowledgedKept, TypeOK, Promise, Exists
  <2>2. CASE t \in told /\ t.name = n
    <3>1. Exists(n) /\ vault[n].versions[t.version] = t.value
      BY <2>2 DEF AcknowledgedKept
    <3>2. t.version \in Live(vault[n])
      BY <2>2, <3>1 DEF TypeOK, Promise, Live
    <3> QED
      BY <1>1, <2>2, <3>1, <3>2 DEF Exists
  <2>3. CASE t \in Assigned(n, v, x) /\ new # {}
    BY <1>1, <2>3 DEF Assigned, Exists
  <2> QED
    BY <1>3, <2>1, <2>2, <2>3 DEF Save
<1> QED
  BY <1>2, <1>3 DEF AcknowledgedKept

\* A record that is well formed keeps everything a step may not take from it.
StepKeeps(n) == Exists(n) /\ Exists(n)' => /\ KeepsClaims(vault[n], vault'[n])
                                           /\ vault'[n].latest >= vault[n].latest

\* Assigning an unclaimed version keeps every claim of the record.
LEMMA AssignmentKeepsClaims ==
    ASSUME NEW r \in Record, NEW s \in Record, NEW v \in Version, NEW x \in Values,
           RecordOK(r), ~IsClaimed(r, v), s.deleted = r.deleted,
           s.versions = [r.versions EXCEPT ![v] = x]
    PROVE  KeepsClaims(r, s)
<1>1. Live(s) = Live(r) \cup {v}
  BY LiveAfterAssignment
<1>2. \A u \in Live(r) : s.versions[u] = r.versions[u]
  BY DEF Record, Live, IsClaimed
<1> QED
  BY <1>1, <1>2 DEF KeepsClaims, IsClaimed, RecordOK

\* Every step of the store keeps the invariant, the claims and Latest.
LEMMA Step ==
    ASSUME Validates, Inv, Next
    PROVE  WellFormed' /\ AcknowledgedKept' /\ \A m \in Names : StepKeeps(m)
<1> USE DEF Inv
<1>0. vault \in [Names -> Record \cup {Absent}] /\ told \subseteq Promise
  BY DEF TypeOK
<1>a. ASSUME NEW n \in Names, NEW s \in Record, vault' = [vault EXCEPT ![n] = s],
             Exists(n) => KeepsClaims(vault[n], s) /\ s.latest >= vault[n].latest
      PROVE  \A m \in Names : StepKeeps(m)
  <2> SUFFICES ASSUME NEW m \in Names, Exists(m) /\ Exists(m)' PROVE StepKeeps(m)
    BY DEF StepKeeps
  <2>1. CASE m = n
    BY <1>0, <1>a, <2>1 DEF StepKeeps
  <2>2. CASE m # n
    <3>1. vault'[m] = vault[m] /\ vault[m] \in Record
      BY <1>0, <1>a, <2>2 DEF Exists
    <3>2. KeepsClaims(vault[m], vault[m])
      BY <3>1 DEF KeepsClaims, WellFormed, RecordOK
    <3>3. vault[m].latest >= vault[m].latest
      BY <3>1 DEF Record, Version
    <3> QED
      BY <3>1, <3>2, <3>3 DEF StepKeeps
  <2> QED
    BY <2>1, <2>2
<1>b. ASSUME NEW r \in Record PROVE r.latest \in Nat
  BY <1>b DEF Record, Version
<1>1. ASSUME NEW n \in Names, NEW v \in Version, NEW x \in Values, v # 0, ~Exists(n),
             Save(n, NewRecord(v, x), Assigned(n, v, x))
      PROVE  WellFormed' /\ AcknowledgedKept' /\ \A m \in Names : StepKeeps(m)
  <2>1. RecordOK(NewRecord(v, x)) /\ NewRecord(v, x).versions[v] = x /\ NewRecord(v, x) \in Record
    BY <1>1, NewRecordOK DEF NewRecord, Record
  <2>2. WellFormed' /\ AcknowledgedKept'
    BY <1>1, <2>1, SaveKeepsPromises
  <2> QED
    BY <1>1, <1>a, <2>1, <2>2 DEF Save
<1>2. ASSUME NEW n \in Names, NEW x \in Values, Put(n, x)
      PROVE  WellFormed' /\ AcknowledgedKept' /\ \A m \in Names : StepKeeps(m)
  <2>1. CASE ~Exists(n) /\ Save(n, NewRecord(1, x), Assigned(n, 1, x))
    BY <1>1, <2>1, OneIsAVersion
  <2>2. CASE /\ Exists(n) /\ SameAsLatest(vault[n], x)
             /\ told' = told \cup Assigned(n, vault[n].latest, x) /\ UNCHANGED vault
    <3>1. WellFormed'
      BY <2>2 DEF WellFormed, Exists
    <3>2. AcknowledgedKept'
      BY <2>2 DEF AcknowledgedKept, Exists, SameAsLatest, Assigned
    <3>3. vault[n] \in Record /\ vault' = [vault EXCEPT ![n] = vault[n]]
      BY <1>0, <2>2 DEF Exists
    <3>4. KeepsClaims(vault[n], vault[n]) /\ vault[n].latest >= vault[n].latest
      BY <1>b, <2>2, <3>3 DEF KeepsClaims, WellFormed, RecordOK
    <3> QED
      BY <1>a, <3>1, <3>2, <3>3, <3>4
  <2>3. CASE Exists(n) /\ Save(n, WithPut(vault[n], x), Assigned(n, NextVersion(vault[n]), x))
    <3> DEFINE r == vault[n]
               s == WithPut(r, x)
    <3>1. r \in Record /\ RecordOK(r) /\ s \in Record /\ NextVersion(r) \in Version
      BY <1>0, <2>3, OperatorTypes, OneIsAVersion, NextVersionType DEF Exists, WellFormed
    <3>2. ValidRecord(s)
      BY <2>3 DEF Save, Accepts
    <3>3. RecordOK(s) /\ ~IsClaimed(r, NextVersion(r)) /\ s.latest > r.latest
      BY <3>1, <3>2, PutOK
    <3>4. s.versions = [r.versions EXCEPT ![NextVersion(r)] = x] /\ s.deleted = r.deleted
      BY <3>1 DEF WithPut, Record
    <3> HIDE DEF r, s
    <3>5. KeepsClaims(r, s)
      BY <3>1, <3>3, <3>4, AssignmentKeepsClaims
    <3>6. \A u \in Live(r) : s.versions[u] = r.versions[u]
      BY <3>1, <3>3, <3>4 DEF Live, IsClaimed, Record
    <3>7. s.versions[NextVersion(r)] = x
      BY <3>1, <3>4 DEF Record
    <3>8. WellFormed' /\ AcknowledgedKept'
      BY <2>3, <3>1, <3>3, <3>6, <3>7, SaveKeepsPromises DEF r, s
    <3>9. s.latest >= r.latest
      BY <1>b, <3>1, <3>3
    <3> QED
      BY <1>a, <2>3, <3>1, <3>5, <3>8, <3>9 DEF r, s, Save
  <2> QED
    BY <1>2, <2>1, <2>2, <2>3 DEF Put
<1>3. ASSUME NEW n \in Names, NEW v \in Version, NEW x \in Values, CreateVersion(n, v, x)
      PROVE  WellFormed' /\ AcknowledgedKept' /\ \A m \in Names : StepKeeps(m)
  <2>1. CASE ~Exists(n) /\ Save(n, NewRecord(v, x), Assigned(n, v, x))
    BY <1>1, <1>3, <2>1 DEF CreateVersion
  <2>2. CASE /\ Exists(n) /\ MayCreate(vault[n], v)
             /\ Save(n, WithVersion(vault[n], v, x), Assigned(n, v, x))
    <3> DEFINE r == vault[n]
               s == WithVersion(r, v, x)
    <3>1. r \in Record /\ RecordOK(r) /\ s \in Record /\ v # 0 /\ ~IsClaimed(r, v)
      BY <1>0, <1>3, <2>2, OperatorTypes DEF Exists, WellFormed, CreateVersion, MayCreate
    <3>2. RecordOK(s) /\ s.latest >= r.latest
      BY <3>1, CreateOK
    <3>3. s.versions = [r.versions EXCEPT ![v] = x] /\ s.deleted = r.deleted
      BY <3>1 DEF WithVersion, Record
    <3> HIDE DEF r, s
    <3>4. KeepsClaims(r, s)
      BY <3>1, <3>3, AssignmentKeepsClaims
    <3>5. \A u \in Live(r) : s.versions[u] = r.versions[u]
      BY <3>1, <3>3 DEF Live, IsClaimed, Record
    <3>6. s.versions[v] = x
      BY <3>1, <3>3 DEF Record
    <3>7. WellFormed' /\ AcknowledgedKept'
      BY <2>2, <3>1, <3>2, <3>5, <3>6, SaveKeepsPromises DEF r, s
    <3> QED
      BY <1>a, <2>2, <3>1, <3>2, <3>4, <3>7 DEF r, s, Save
  <2> QED
    BY <1>3, <2>1, <2>2 DEF CreateVersion
<1>4. ASSUME NEW n \in Names, NEW v \in Version, Activate(n, v)
      PROVE  WellFormed' /\ AcknowledgedKept' /\ \A m \in Names : StepKeeps(m)
  <2> DEFINE r == vault[n]
             s == WithActive(r, v)
  <2>1. r \in Record /\ RecordOK(r) /\ v \in Live(r) /\ s \in Record
    BY <1>0, <1>4 DEF Exists, WellFormed, Activate, WithActive, Record
  <2>2. RecordOK(s) /\ s.versions = r.versions /\ s.latest = r.latest /\ s.deleted = r.deleted
    BY <2>1, ActivateOK
  <2>3. vault' = [vault EXCEPT ![n] = s] /\ told' = told
    BY <1>4 DEF Activate, Save
  <2> HIDE DEF r, s
  <2>4. KeepsClaims(r, s)
    BY <2>1, <2>2 DEF KeepsClaims, IsClaimed, Live, RecordOK
  <2>5. WellFormed'
    BY <1>0, <2>1, <2>2, <2>3 DEF WellFormed, Exists
  <2>6. AcknowledgedKept'
    BY <1>0, <2>1, <2>2, <2>3 DEF AcknowledgedKept, Exists, Promise, r
  <2>7. s.latest >= r.latest
    BY <1>b, <2>1, <2>2
  <2> QED
    BY <1>a, <2>1, <2>3, <2>4, <2>5, <2>6, <2>7 DEF r
<1>5. ASSUME NEW n \in Names, NEW v \in Version, DeleteVersion(n, v)
      PROVE  WellFormed' /\ AcknowledgedKept' /\ \A m \in Names : StepKeeps(m)
  <2> DEFINE r == vault[n]
             s == WithoutVersion(r, v)
  <2>1. r \in Record /\ RecordOK(r) /\ MayDelete(r, v) /\ s \in Record
    BY <1>0, <1>5 DEF Exists, WellFormed, DeleteVersion, WithoutVersion, Record
  <2>2. RecordOK(s) /\ s.latest = r.latest /\ \A u \in Version : IsClaimed(s, u) <=> IsClaimed(r, u)
    BY <2>1, DeleteVersionOK DEF MayDelete
  <2>3. s.versions = [r.versions EXCEPT ![v] = NoValue] /\ s.deleted = r.deleted \cup {v}
    BY <2>1 DEF WithoutVersion, Record
  <2>4. /\ vault' = [vault EXCEPT ![n] = s]
        /\ told' = {t \in told : ~(t.name = n /\ t.version = v)}
    BY <1>5 DEF DeleteVersion
  <2> HIDE DEF r, s
  <2>5. KeepsClaims(r, s)
    BY <2>1, <2>2, <2>3 DEF KeepsClaims, Live, RecordOK, Record
  <2>6. WellFormed'
    BY <1>0, <2>1, <2>2, <2>4 DEF WellFormed, Exists
  <2>7. AcknowledgedKept'
    BY <1>0, <2>1, <2>3, <2>4 DEF AcknowledgedKept, Exists, Promise, Record, r
  <2>8. s.latest >= r.latest
    BY <1>b, <2>1, <2>2
  <2> QED
    BY <1>a, <2>1, <2>4, <2>5, <2>6, <2>7, <2>8 DEF r
<1>6. ASSUME NEW n \in Names, Delete(n)
      PROVE  WellFormed' /\ AcknowledgedKept' /\ \A m \in Names : StepKeeps(m)
  <2>1. vault' = [vault EXCEPT ![n] = Absent] /\ told' = {t \in told : t.name # n}
    BY <1>6 DEF Delete
  <2>2. WellFormed' /\ AcknowledgedKept'
    BY <1>0, <2>1 DEF WellFormed, AcknowledgedKept, Exists, Promise
  <2>3. ASSUME NEW m \in Names, Exists(m), Exists(m)'
        PROVE  KeepsClaims(vault[m], vault'[m]) /\ vault'[m].latest >= vault[m].latest
    <3>1. vault'[m] = vault[m] /\ vault[m] \in Record /\ RecordOK(vault[m])
      BY <1>0, <2>1, <2>3 DEF Exists, WellFormed
    <3>2. KeepsClaims(vault[m], vault[m])
      BY <3>1 DEF KeepsClaims, RecordOK
    <3> QED
      BY <1>b, <3>1, <3>2
  <2> QED
    BY <2>2, <2>3 DEF StepKeeps
<1> QED
  BY <1>2, <1>3, <1>4, <1>5, <1>6 DEF Next

\* Inv is inductive over a validating backend.
LEMMA InvInductive == ASSUME Validates PROVE Spec => []Inv
<1>1. Init => Inv
  BY DEF Init, Inv, TypeOK, WellFormed, AcknowledgedKept, Exists
<1>2. Inv /\ [Next]_vars => WellFormed' /\ AcknowledgedKept'
  <2>1. CASE Next
    BY <2>1, Step
  <2>2. ASSUME Inv, UNCHANGED vars PROVE WellFormed' /\ AcknowledgedKept'
    BY <2>2 DEF Inv, vars, WellFormed, AcknowledgedKept, Exists
  <2> QED
    BY <2>1, <2>2, Step
<1> QED
  BY <1>1, <1>2, TypeCorrect, PTL DEF Spec, Inv

\* Over 1Password every stored record stays well formed, whatever versions the
\* callers of CreateVersion choose.
THEOREM RecordsStayWellFormed == ASSUME Validates PROVE Spec => []WellFormed
BY InvInductive, PTL DEF Inv

\* Over 1Password an acknowledged assignment is readable until it is deleted.
THEOREM AcknowledgedWritesAreKept == ASSUME Validates PROVE Spec => []AcknowledgedKept
BY InvInductive, PTL DEF Inv

\* Over 1Password no step takes a claim or changes the value of a live version.
THEOREM ClaimsAreForever == ASSUME Validates PROVE Spec => ClaimedForever
<1>1. Inv /\ Next => \A n \in Names : Exists(n) /\ Exists(n)' => KeepsClaims(vault[n], vault'[n])
  BY Step DEF StepKeeps
<1>2. Inv /\ [Next]_vars =>
        [\A n \in Names : Exists(n) /\ Exists(n)' => KeepsClaims(vault[n], vault'[n])]_vars
  BY <1>1
<1> QED
  BY <1>2, InvInductive, PTL DEF Spec, ClaimedForever

\* Over 1Password Latest never decreases: the wrap of the uint32 is refused.
THEOREM LatestIsMonotone == ASSUME Validates PROVE Spec => LatestNeverDecreases
<1>1. Inv /\ Next =>
        \A n \in Names : Exists(n) /\ Exists(n)' => vault'[n].latest >= vault[n].latest
  BY Step DEF StepKeeps
<1>2. Inv /\ [Next]_vars =>
        [\A n \in Names : Exists(n) /\ Exists(n)' => vault'[n].latest >= vault[n].latest]_vars
  BY <1>1
<1> QED
  BY <1>2, InvInductive, PTL DEF Spec, LatestNeverDecreases
=============================================================================
