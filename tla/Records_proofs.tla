--------------------------- MODULE Records_proofs ---------------------------
(***************************************************************************)
(* What the changes of a record yield, for every set of values and every   *)
(* width of a version.                                                     *)
(***************************************************************************)
EXTENDS Records, TLAPS

USE RecordAssumption

----------------------------------------------------------------------------
\* The increment of a uint32 is a uint32.
LEMMA NextVersionType ==
    ASSUME NEW r \in Record
    PROVE  /\ NextVersion(r) \in Version
           /\ r.latest < MaxVersion => NextVersion(r) = r.latest + 1
           /\ r.latest = MaxVersion => NextVersion(r) = 0
<1>1. r.latest \in 0 .. MaxVersion
  BY DEF Record, Version
<1>2. CASE r.latest = MaxVersion
  BY <1>1, <1>2 DEF NextVersion, Version
<1>3. CASE r.latest < MaxVersion
  BY <1>1, <1>3 DEF NextVersion, Version
<1> QED
  BY <1>1, <1>2, <1>3

\* A record for a name that has none.
LEMMA NewRecordType ==
    ASSUME NEW v \in Version, NEW x \in Values
    PROVE  NewRecord(v, x) \in Record
BY DEF NewRecord, Record

\* The changes that assign no value.
LEMMA ChangeTypes ==
    ASSUME NEW r \in Record, NEW v \in Version
    PROVE  WithActive(r, v) \in Record /\ WithoutVersion(r, v) \in Record
<1>1. WithActive(r, v) \in Record
  BY DEF WithActive, Record
<1>2. WithoutVersion(r, v) \in Record
  BY DEF WithoutVersion, Record
<1> QED
  BY <1>1, <1>2

\* Every change the store makes to a record yields a record.
LEMMA OperatorTypes ==
    ASSUME NEW r \in Record, NEW v \in Version, NEW x \in Values
    PROVE  /\ NewRecord(v, x) \in Record
           /\ WithPut(r, x) \in Record
           /\ WithVersion(r, v, x) \in Record
           /\ WithActive(r, v) \in Record
           /\ WithoutVersion(r, v) \in Record
<1>1. WithPut(r, x) \in Record
  BY NextVersionType DEF WithPut, Record
<1>2. WithVersion(r, v, x) \in Record
  BY DEF WithVersion, Record
<1> QED
  BY <1>1, <1>2, NewRecordType, ChangeTypes

\* 1 is a version: the one Put gives to a new name.
LEMMA OneIsAVersion == 1 \in Version /\ 1 # 0
BY DEF Version
----------------------------------------------------------------------------
(* The record invariant.  Its one delicate step is Put: the increment may   *)
(* wrap to 0, and only the validation of an encoded record refuses that.    *)

\* A record with a live version other than 0 is refused once Put has wrapped.
LEMMA ValidPutDoesNotWrap ==
    ASSUME NEW r \in Record, NEW x \in Values, RecordOK(r), ValidRecord(WithPut(r, x))
    PROVE  r.latest < MaxVersion /\ NextVersion(r) = r.latest + 1
<1> DEFINE s == WithPut(r, x)
<1>1. r.latest \in 0 .. MaxVersion /\ r.active \in 0 .. MaxVersion
  BY DEF Record, Version
<1>2. r.active \in Live(r) /\ r.active # 0
  BY DEF RecordOK, IsClaimed
<1>3. SUFFICES ASSUME r.latest = MaxVersion PROVE FALSE
  BY <1>1, NextVersionType
<1>4. NextVersion(r) = 0
  BY <1>3, NextVersionType
<1>5. s = [r EXCEPT !.latest = 0, !.versions[0] = x]
  BY <1>4 DEF WithPut
<1>6. s.latest = 0 /\ r.active \in Live(s)
  BY <1>2, <1>5 DEF Record, Live
<1>7. r.active <= s.latest
  BY <1>6 DEF ValidRecord
<1> QED
  BY <1>1, <1>2, <1>6, <1>7

\* A new record is well formed.
LEMMA NewRecordOK ==
    ASSUME NEW v \in Version, v # 0, NEW x \in Values
    PROVE  RecordOK(NewRecord(v, x)) /\ Live(NewRecord(v, x)) = {v}
<1>1. v \in 0 .. MaxVersion /\ v <= v
  BY DEF Version
<1>2. Live(NewRecord(v, x)) = {v}
  BY DEF NewRecord, Live
<1>3. NewRecord(v, x).deleted = {} /\ NewRecord(v, x).latest = v /\ NewRecord(v, x).active = v
  BY DEF NewRecord
<1> QED
  BY <1>1, <1>2, <1>3 DEF RecordOK, IsClaimed

\* Giving a value to a version adds it to the live ones.
LEMMA LiveAfterAssignment ==
    ASSUME NEW r \in Record, NEW s \in Record, NEW v \in Version, NEW x \in Values,
           s.versions = [r.versions EXCEPT ![v] = x]
    PROVE  Live(s) = Live(r) \cup {v}
BY DEF Record, Live

\* A Put that the backend accepts keeps the record well formed, assigns a
\* version that was never claimed and raises Latest by one.
LEMMA PutOK ==
    ASSUME NEW r \in Record, NEW x \in Values, RecordOK(r), ValidRecord(WithPut(r, x))
    PROVE  /\ RecordOK(WithPut(r, x))
           /\ ~IsClaimed(r, NextVersion(r))
           /\ WithPut(r, x).latest > r.latest
<1> DEFINE s == WithPut(r, x)
           w == NextVersion(r)
<1>1. r.latest \in 0 .. MaxVersion
  BY DEF Record, Version
<1>2. w = r.latest + 1 /\ w \in Version
  BY ValidPutDoesNotWrap, NextVersionType
<1>3. s \in Record
  BY OperatorTypes, OneIsAVersion
<1>4. /\ s.versions = [r.versions EXCEPT ![w] = x]
      /\ s.latest = w /\ s.active = r.active /\ s.deleted = r.deleted
  BY DEF WithPut, Record
<1> HIDE DEF s, w
<1>5. Live(s) = Live(r) \cup {w}
  BY <1>2, <1>3, <1>4, LiveAfterAssignment
<1>6. \A v \in Version : IsClaimed(r, v) => v <= r.latest
  BY DEF RecordOK
<1>7. ~IsClaimed(r, w)
  BY <1>1, <1>2, <1>6
<1>8. w # 0
  BY <1>1, <1>2
<1>9. \A v \in Version : IsClaimed(s, v) <=> IsClaimed(r, v) \/ v = w
  BY <1>4, <1>5 DEF IsClaimed
<1>10. \A v \in Version : IsClaimed(s, v) => v <= w
  BY <1>1, <1>2, <1>6, <1>9 DEF Version
<1>11. s.active \in Live(s) /\ Live(s) \cap s.deleted = {}
  BY <1>4, <1>5, <1>7 DEF RecordOK, IsClaimed
<1>12. ~IsClaimed(s, 0) /\ IsClaimed(s, s.latest)
  BY <1>4, <1>5, <1>8 DEF RecordOK, IsClaimed
<1>13. RecordOK(s)
  BY <1>4, <1>10, <1>11, <1>12 DEF RecordOK
<1> QED
  BY <1>1, <1>2, <1>4, <1>7, <1>13 DEF s, w

\* CreateVersion of an unclaimed version keeps the record well formed and never
\* lowers Latest.
LEMMA CreateOK ==
    ASSUME NEW r \in Record, NEW v \in Version, NEW x \in Values,
           RecordOK(r), v # 0, ~IsClaimed(r, v)
    PROVE  /\ RecordOK(WithVersion(r, v, x))
           /\ WithVersion(r, v, x).latest >= r.latest
<1> DEFINE s == WithVersion(r, v, x)
<1>1. r.latest \in 0 .. MaxVersion /\ v \in 0 .. MaxVersion
  BY DEF Record, Version
<1>2. s \in Record
  BY OperatorTypes
<1>3. /\ s.versions = [r.versions EXCEPT ![v] = x]
      /\ s.latest = IF v > r.latest THEN v ELSE r.latest
      /\ s.active = v /\ s.deleted = r.deleted
  BY DEF WithVersion, Record
<1> HIDE DEF s
<1>4. Live(s) = Live(r) \cup {v}
  BY <1>2, <1>3, LiveAfterAssignment
<1>5. \A u \in Version : IsClaimed(s, u) <=> IsClaimed(r, u) \/ u = v
  BY <1>3, <1>4 DEF IsClaimed
<1>6. \A u \in Version : IsClaimed(r, u) => u <= r.latest
  BY DEF RecordOK
<1>7. s.latest >= r.latest /\ s.latest >= v /\ s.latest \in {v, r.latest}
  BY <1>1, <1>3
<1>8. \A u \in Version : IsClaimed(s, u) => u <= s.latest
  BY <1>1, <1>5, <1>6, <1>7 DEF Version
<1>9. s.active \in Live(s) /\ Live(s) \cap s.deleted = {} /\ ~IsClaimed(s, 0)
  BY <1>3, <1>4 DEF RecordOK, IsClaimed
<1>10. IsClaimed(s, s.latest)
  BY <1>3, <1>4, <1>7 DEF RecordOK, IsClaimed
<1>11. RecordOK(s)
  BY <1>8, <1>9, <1>10 DEF RecordOK
<1> QED
  BY <1>7, <1>11 DEF s

\* DeleteVersion of a live version that is not active keeps the record well
\* formed and every claim.
LEMMA DeleteVersionOK ==
    ASSUME NEW r \in Record, NEW v \in Version, RecordOK(r),
           v \in Live(r), v # r.active
    PROVE  /\ RecordOK(WithoutVersion(r, v))
           /\ WithoutVersion(r, v).latest = r.latest
           /\ \A u \in Version : IsClaimed(WithoutVersion(r, v), u) <=> IsClaimed(r, u)
<1> DEFINE s == WithoutVersion(r, v)
<1>1. /\ s.versions = [r.versions EXCEPT ![v] = NoValue]
      /\ s.latest = r.latest /\ s.active = r.active /\ s.deleted = r.deleted \cup {v}
  BY DEF WithoutVersion, Record
<1> HIDE DEF s
<1>2. Live(s) = Live(r) \ {v}
  BY <1>1 DEF Live, Record
<1>3. \A u \in Version : IsClaimed(s, u) <=> IsClaimed(r, u)
  BY <1>1, <1>2 DEF IsClaimed
<1>4. 0 \in Version /\ r.latest \in Version
  BY DEF Version, Record
<1>5. RecordOK(s)
  BY <1>1, <1>2, <1>3, <1>4 DEF RecordOK
<1> QED
  BY <1>1, <1>3, <1>5 DEF s

\* Activate of a live version keeps the record well formed.
LEMMA ActivateOK ==
    ASSUME NEW r \in Record, NEW v \in Live(r), RecordOK(r)
    PROVE  RecordOK(WithActive(r, v)) /\ WithActive(r, v).versions = r.versions
           /\ WithActive(r, v).latest = r.latest /\ WithActive(r, v).deleted = r.deleted
<1> DEFINE s == WithActive(r, v)
<1>1. s.versions = r.versions /\ s.latest = r.latest /\ s.active = v /\ s.deleted = r.deleted
  BY DEF WithActive, Record
<1> HIDE DEF s
<1>2. Live(s) = Live(r) /\ \A u \in Version : IsClaimed(s, u) <=> IsClaimed(r, u)
  BY <1>1 DEF Live, IsClaimed
<1>3. 0 \in Version /\ r.latest \in Version
  BY DEF Version, Record
<1>4. RecordOK(s)
  BY <1>1, <1>2, <1>3 DEF RecordOK
<1> QED
  BY <1>1, <1>4 DEF s
=============================================================================
