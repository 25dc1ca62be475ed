------------------------- MODULE OnePassword_proofs -------------------------
(***************************************************************************)
(* The backend of OnePassword answers as its vault does, and never gives a *)
(* title to two items, as long as writes do not overlap.                   *)
(***************************************************************************)
EXTENDS OnePassword, TLAPS

Answers == Content \cup {OK, Absent, Duplicate, Failed}

ItemsType == items \in [Ids -> Item \cup {Unborn, Gone}]
MemosType == memo \in [Instances -> [Names -> Ids \cup {None}]]
OpsType == op \in [Procs -> Op] /\ \A p \in Procs : OpOK(op[p])

LEMMA IdleType == Idle \in Op /\ OpOK(Idle)
BY DEF Idle, Op, NoTitles, OpOK

LEMMA GoesType ==
    ASSUME TypeOK, NEW p \in Procs, NEW k \in Op, OpOK(k), Goes(p, k)
    PROVE  OpsType'
BY DEF TypeOK, Goes, OpsType, OpOK

\* A call that answers keeps what was asked of it.
LEMMA AnsweredFields ==
    ASSUME TypeOK, NEW p \in Procs, NEW r \in Answers
    PROVE  /\ Answered(p, r) \in Op
           /\ Answered(p, r).kind = op[p].kind
           /\ Answered(p, r).pc = "done"
           /\ Answered(p, r).name = op[p].name
           /\ Answered(p, r).val = op[p].val
           /\ Answered(p, r).got = r
<1>1. op[p] \in Op /\ Idle \in Op
  BY IdleType DEF TypeOK
<1>2. Answered(p, r) \in Op
  BY <1>1 DEF Op, Answered, Answers
<1> QED BY <1>1, <1>2 DEF Op, Answered

LEMMA AnsweredType ==
    ASSUME TypeOK, NEW p \in Procs, op[p].pc # "idle", NEW r \in Answers
    PROVE  Answered(p, r) \in Op /\ OpOK(Answered(p, r))
<1>1. OpOK(op[p])
  BY DEF TypeOK
<1>2. r # None
  BY OnePasswordAssumption DEF Answers
<1> QED BY <1>1, <1>2, AnsweredFields DEF OpOK

LEMMA AnswerType ==
    ASSUME TypeOK, NEW p \in Procs, op[p].pc # "idle", NEW r \in Answers, Answer(p, r)
    PROVE  OpsType'
BY AnsweredType, GoesType DEF Answer

LEMMA SetMemoType ==
    ASSUME TypeOK, NEW p \in Procs, NEW m \in [Names -> Ids \cup {None}], SetMemo(p, m)
    PROVE  MemosType'
BY OnePasswordAssumption DEF TypeOK, SetMemo, MemosType

LEMMA RememberType ==
    ASSUME TypeOK, NEW p \in Procs, Remember(p)
    PROVE  MemosType'
<1> DEFINE m == [n \in Names |-> IF \E i \in Ids : Listed(p, n) = {i}
                                   THEN CHOOSE i \in Ids : Listed(p, n) = {i}
                                   ELSE None]
<1>1. ASSUME NEW n \in Names, \E i \in Ids : Listed(p, n) = {i}
      PROVE  (CHOOSE i \in Ids : Listed(p, n) = {i}) \in Ids
  BY <1>1
<1>2. m \in [Names -> Ids \cup {None}]
  BY <1>1
<1> QED BY <1>2, SetMemoType DEF Remember

LEMMA EntryType ==
    ASSUME TypeOK, NEW p \in Procs, NEW i \in Ids \cup {None},
           SetMemo(p, [Memo(p) EXCEPT ![op[p].name] = i])
    PROVE  MemosType'
<1>1. Memo(p) \in [Names -> Ids \cup {None}]
  BY OnePasswordAssumption DEF TypeOK, Memo
<1> QED BY <1>1, SetMemoType

LEMMA WatchType ==
    ASSUME TypeOK, ItemsType', Watch
    PROVE  seen' \in [Procs -> SUBSET (Content \cup {Absent, Duplicate})]
<1>1. ASSUME NEW p \in Procs
      PROVE  View(op[p].name)' \subseteq Content \cup {Absent, Duplicate}
  <2>1. \A i \in Ids : Exists(i)' => items'[i].content \in Content
    BY DEF ItemsType, Exists, Item
  <2> QED BY <2>1 DEF View, Titled
<1> QED BY <1>1 DEF Watch, TypeOK

LEMMA StartType ==
    ASSUME TypeOK, NEW p \in Procs, Starts(p)
    PROVE  OpsType'
<1>1. PICK kind \in {"load", "save", "delete", "list"}, n \in Names, x \in Values \cup {None} :
         Start(p, kind, n, x) /\ (kind = "save" => x \in Values)
  <2>1. PICK n \in Names : \/ Start(p, "load", n, None)
                           \/ \E x \in Values : Start(p, "save", n, x)
                           \/ Start(p, "delete", n, None)
                           \/ Start(p, "list", n, None)
    BY DEF Starts
  <2> QED BY <2>1
<1> DEFINE k == [Idle EXCEPT !.kind = kind, !.name = n, !.val = x]
           kf == [k EXCEPT !.pc = "found", !.id = Memo(p)[n]]
           kl == [k EXCEPT !.pc = "list"]
<1>2. Memo(p)[n] \in Ids \cup {None}
  BY OnePasswordAssumption DEF TypeOK, Memo
<1>3. kl \in Op /\ OpOK(kl)
  <2>1. kl \in Op
    BY <1>1, IdleType DEF Op
  <2>2. kl.kind = kind /\ kl.pc = "list" /\ kl.name = n /\ kl.val = x
    BY IdleType DEF Op
  <2> HIDE DEF kl
  <2> QED BY <1>1, <2>1, <2>2 DEF OpOK
<1>4. kind # "list" /\ Memo(p)[n] # None => kf \in Op /\ OpOK(kf)
  <2>1. kf \in Op
    BY <1>1, <1>2, IdleType DEF Op
  <2>2. kf.kind = kind /\ kf.pc = "found" /\ kf.name = n /\ kf.val = x /\ kf.id = Memo(p)[n]
    BY IdleType DEF Op
  <2> HIDE DEF kf
  <2> QED BY <1>1, <2>1, <2>2 DEF OpOK
<1>5. Goes(p, IF kind # "list" /\ Memo(p)[n] # None THEN kf ELSE kl)
  BY <1>1 DEF Start
<1> QED BY <1>3, <1>4, <1>5, GoesType

LEMMA ListingType ==
    ASSUME TypeOK, NEW p \in Procs, ListItems(p)
    PROVE  OpsType'
<1> DEFINE k == [op[p] EXCEPT !.pc = "listed",
                              !.titles = [i \in Ids |-> IF Exists(i) THEN items[i].title
                                                                     ELSE None]]
<1>1. [i \in Ids |-> IF Exists(i) THEN items[i].title ELSE None] \in [Ids -> Names \cup {None}]
  BY DEF TypeOK, Exists, Item
<1>2. k \in Op /\ OpOK(k)
  BY <1>1 DEF TypeOK, ListItems, OpOK, Op, At
<1> QED BY <1>2, GoesType DEF ListItems

LEMMA ResolvingType ==
    ASSUME TypeOK, NEW p \in Procs, ResolvesToNone(p) \/ ResolvesToOne(p) \/ ResolvesToMany(p)
    PROVE  OpsType'
<1>1. op[p] \in Op /\ OpOK(op[p]) /\ op[p].pc = "listed"
  BY DEF TypeOK, ResolvesToNone, ResolvesToOne, ResolvesToMany, Resolving, At
<1>2. {OK, Absent, Duplicate, Failed} \subseteq Answers
  BY DEF Answers
<1>3. CASE ResolvesToNone(p)
  <2> DEFINE k == [op[p] EXCEPT !.pc = "create", !.titles = NoTitles]
  <2>1. op[p].kind = "save" => k \in Op /\ OpOK(k)
    BY <1>1 DEF Op, OpOK, NoTitles
  <2>2. op[p].kind \in {"load", "save", "delete"}
    BY <1>1, <1>3 DEF Op, OpOK, ResolvesToNone, Resolving
  <2>3. Answer(p, Absent) \/ Answer(p, OK) \/ (op[p].kind = "save" /\ Goes(p, k))
    BY <1>3, <2>2 DEF ResolvesToNone
  <2> QED BY <1>1, <1>2, <2>1, <2>3, AnswerType, GoesType
<1>4. CASE ResolvesToOne(p)
  <2> DEFINE k(i) == [op[p] EXCEPT !.pc = "found", !.id = i, !.titles = NoTitles]
  <2>1. PICK i \in Ids : Answer(p, Failed) \/ Goes(p, k(i))
    BY <1>4 DEF ResolvesToOne
  <2>2. op[p].kind \in {"load", "save", "delete"}
    BY <1>1, <1>4 DEF Op, OpOK, ResolvesToOne, Resolving
  <2>3. k(i) \in Op
    BY <1>1 DEF Op, NoTitles
  <2>4. OpOK(k(i))
    BY <1>1, <2>2, OnePasswordAssumption DEF Op, OpOK
  <2> HIDE DEF k
  <2> QED BY <1>1, <1>2, <2>1, <2>3, <2>4, AnswerType, GoesType
<1>5. CASE ResolvesToMany(p)
  <2>1. Answer(p, Failed) \/ Answer(p, Duplicate)
    BY <1>5 DEF ResolvesToMany
  <2> QED BY <1>1, <1>2, <2>1, AnswerType
<1> QED BY <1>3, <1>4, <1>5

\* The other steps of a call, and the failures.
LEMMA CallType ==
    ASSUME TypeOK, NEW p \in Procs,
           \/ ListReturns(p) \/ Get(p) \/ Forget(p) \/ Put(p) \/ Create(p)
           \/ RememberCreated(p) \/ DeleteItem(p) \/ ForgetDeleted(p)
           \/ CallFails(p) \/ Return(p)
    PROVE  OpsType'
<1>1. op[p] \in Op /\ OpOK(op[p])
  BY DEF TypeOK
<1>2. {OK, Absent, Duplicate, Failed} \subseteq Answers /\ Content \subseteq Answers
  BY DEF Answers
<1>3. ASSUME NEW r \in Answers, Answer(p, r), op[p].pc # "idle"
      PROVE  OpsType'
  BY <1>3, AnswerType
<1>4. CASE ListReturns(p)
  BY <1>2, <1>3, <1>4 DEF ListReturns, At
<1>5. CASE Get(p)
  <2>1. op[p].pc = "found" /\ op[p].kind \in {"load", "save"} /\ op[p].id \in Ids
    BY <1>1, <1>5 DEF Get, At, OpOK, Op
  <2>2. items[op[p].id] \in Item /\ items[op[p].id].content \in Content
    BY <1>5, <2>1 DEF TypeOK, Get, Exists, Item
  <2>3. CASE op[p].kind = "load"
    <3>1. Reading(items[op[p].id].content) \in Answers
      BY <2>2 DEF Reading, Answers
    <3> QED BY <1>3, <1>5, <2>1, <2>3, <3>1 DEF Get
  <2>4. CASE op[p].kind = "save"
    <3> DEFINE k == [op[p] EXCEPT !.pc = "put", !.base = items[op[p].id]]
    <3>1. k \in Op
      BY <1>1, <2>2 DEF Op
    <3>2. OpOK(k)
      BY <1>1, <2>1, <2>2, <2>4, OnePasswordAssumption DEF Op, OpOK
    <3>3. Goes(p, k)
      BY <1>5, <2>4 DEF Get
    <3> QED BY <3>1, <3>2, <3>3, GoesType
  <2> QED BY <2>1, <2>3, <2>4
<1>6. CASE Forget(p)
  <2> DEFINE k == [op[p] EXCEPT !.pc = "list", !.again = TRUE]
  <2>1. k \in Op /\ OpOK(k)
    BY <1>1, <1>6 DEF Op, OpOK, Forget, At
  <2> QED BY <1>6, <2>1, GoesType DEF Forget
<1>7. CASE Put(p)
  <2>1. Answered(p, OK) \in Op /\ OpOK(Answered(p, OK))
    BY <1>2, <1>7, AnsweredType DEF Put, At
  <2> QED BY <1>2, <1>3, <1>7, <2>1, GoesType DEF Put, Applied, At
<1>8. CASE Create(p)
  <2> DEFINE k(i) == [op[p] EXCEPT !.pc = "created", !.id = i]
  <2>1. PICK i \in Ids : Goes(p, k(i)) \/ Answer(p, Failed)
    BY <1>8 DEF Create, Applied
  <2>2. k(i) \in Op
    BY <1>1 DEF Op
  <2>3. OpOK(k(i))
    BY <1>1, <1>8, OnePasswordAssumption DEF Op, OpOK, Create, At
  <2>4. op[p].pc # "idle"
    BY <1>8 DEF Create, At
  <2> HIDE DEF k
  <2> QED BY <1>2, <1>3, <2>1, <2>2, <2>3, <2>4, GoesType
<1>9. CASE RememberCreated(p) \/ ForgetDeleted(p)
  BY <1>2, <1>3, <1>9 DEF RememberCreated, ForgetDeleted, At
<1>10. CASE DeleteItem(p)
  <2> DEFINE k == [op[p] EXCEPT !.pc = "deleted"]
  <2>1. k \in Op /\ OpOK(k)
    BY <1>1, <1>10 DEF Op, OpOK, DeleteItem, At
  <2>2. Goes(p, k) \/ Answer(p, Failed)
    BY <1>10 DEF DeleteItem, Applied
  <2> QED BY <1>2, <1>3, <1>10, <2>1, <2>2, GoesType DEF DeleteItem, At
<1>11. CASE CallFails(p)
  <2> DEFINE k == [op[p] EXCEPT !.pc = "lost"]
  <2>1. op[p].pc \in {"list", "found", "put", "create"}
    BY <1>11 DEF CallFails, At
  <2>2. \/ Answer(p, Failed)
        \/ op[p].pc = "found" /\ op[p].kind # "delete" /\ Goes(p, k)
    BY <1>11 DEF CallFails, AfterFailedGet, AfterFailedList, At
  <2>3. op[p].pc = "found" /\ op[p].kind # "delete" => k \in Op /\ OpOK(k)
    BY <1>1 DEF Op, OpOK
  <2> QED BY <1>2, <1>3, <2>1, <2>2, <2>3, GoesType
<1>12. CASE Return(p)
  BY <1>12, IdleType, GoesType DEF Return
<1> QED BY <1>4, <1>5, <1>6, <1>7, <1>8, <1>9, <1>10, <1>11, <1>12

\* Whatever the program or anyone else does to the vault.
LEMMA VaultType ==
    ASSUME TypeOK, Next
    PROVE  ItemsType'
<1>1. ASSUME NEW i \in Ids, NEW w \in Item \cup {Gone}, items' = [items EXCEPT ![i] = w]
      PROVE  ItemsType'
  BY <1>1 DEF TypeOK, ItemsType
<1>2. ASSUME UNCHANGED items
      PROVE  ItemsType'
  BY <1>2 DEF TypeOK, ItemsType
<1>3. ASSUME NEW p \in Procs, Put(p)
      PROVE  ItemsType'
  <2>1. op[p].id \in Ids /\ op[p].base \in Item /\ op[p].val \in Values
    BY <1>3 DEF TypeOK, Op, OpOK, Put, At
  <2>2. [op[p].base EXCEPT !.content = op[p].val] \in Item
    BY <2>1 DEF Item, Content
  <2> QED BY <1>1, <1>3, <2>1, <2>2 DEF Put
<1>4. ASSUME NEW p \in Procs, Create(p)
      PROVE  ItemsType'
  <2>1. [title |-> op[p].name, content |-> op[p].val] \in Item
    BY <1>4 DEF TypeOK, Op, OpOK, Create, At, Item, Content
  <2> QED BY <1>1, <1>4, <2>1 DEF Create
<1>5. ASSUME NEW p \in Procs, DeleteItem(p)
      PROVE  ItemsType'
  <2>1. op[p].id \in Ids
    BY <1>5 DEF TypeOK, Op, OpOK, DeleteItem, At
  <2> QED BY <1>1, <1>5, <2>1 DEF DeleteItem
<1>6. ASSUME NEW n \in Names, NEW x \in Values, Plant(n, x)
      PROVE  ItemsType'
  <2>1. [title |-> n, content |-> x] \in Item
    BY DEF Item, Content
  <2> QED BY <1>1, <1>6, <2>1 DEF Plant
<1>7. ASSUME NEW i \in Ids, Trash(i)
      PROVE  ItemsType'
  BY <1>1, <1>7 DEF Trash
<1>8. ASSUME NEW i \in Ids, NEW c \in {Foreign, Mangled}, Spoil(i, c)
      PROVE  ItemsType'
  <2>1. items[i] \in Item
    BY <1>8 DEF TypeOK, Spoil, Exists
  <2>2. [items[i] EXCEPT !.content = c] \in Item
    BY <2>1 DEF Item, Content
  <2> QED BY <1>1, <1>8, <2>2 DEF Spoil
<1>9. ASSUME NEW p \in Procs, ProcNext(p)
      PROVE  ItemsType'
  <2>1. Put(p) \/ Create(p) \/ DeleteItem(p) \/ UNCHANGED items
    BY <1>9 DEF ProcNext, Starts, Start, ListItems, ListReturns, ResolvesToNone, ResolvesToOne,
                ResolvesToMany, Resolving, Get, Forget, RememberCreated, ForgetDeleted, CallFails, Return
  <2> QED BY <1>2, <1>3, <1>4, <1>5, <2>1
<1> QED BY <1>6, <1>7, <1>8, <1>9 DEF Next

LEMMA MemoStepType ==
    ASSUME TypeOK, Next
    PROVE  MemosType'
<1>1. ASSUME UNCHANGED memo
      PROVE  MemosType'
  BY <1>1 DEF TypeOK, MemosType
<1>2. ASSUME NEW p \in Procs, ProcNext(p)
      PROVE  MemosType'
  <2>1. \/ Remember(p)
        \/ Forget(p) \/ RememberCreated(p) \/ ForgetDeleted(p)
        \/ UNCHANGED memo
    BY <1>2 DEF ProcNext, Starts, Start, ListItems, ListReturns, ResolvesToNone, ResolvesToOne,
                ResolvesToMany, Resolving, Get, Put, Create, DeleteItem, CallFails, Return
  <2>2. op[p].id \in Ids \cup {None}
    BY DEF TypeOK, Op
  <2>3. CASE Forget(p) \/ RememberCreated(p) \/ ForgetDeleted(p)
    BY <2>2, <2>3, EntryType DEF Forget, RememberCreated, ForgetDeleted
  <2> QED BY <1>1, <2>1, <2>3, RememberType
<1> QED BY <1>1, <1>2 DEF Next, Plant, Trash, Spoil

LEMMA TypeStep ==
    ASSUME TypeOK, Next
    PROVE  TypeOK'
<1>1. ItemsType' /\ MemosType'
  BY VaultType, MemoStepType
<1>2. OpsType'
  <2>1. ASSUME NEW p \in Procs, ProcNext(p)
        PROVE  OpsType'
    BY <2>1, StartType, ListingType, ResolvingType, CallType DEF ProcNext
  <2>2. ASSUME UNCHANGED op
        PROVE  OpsType'
    BY <2>2 DEF TypeOK, OpsType, OpOK
  <2> QED BY <2>1, <2>2 DEF Next, Plant, Trash, Spoil
<1>3. Watch
  BY DEF Next
<1> QED BY <1>1, <1>2, <1>3, WatchType DEF TypeOK, ItemsType, MemosType, OpsType

LEMMA TypeInit == Init => TypeOK
<1> SUFFICES ASSUME Init
             PROVE  TypeOK
  OBVIOUS
<1>1. op \in [Procs -> Op] /\ \A p \in Procs : OpOK(op[p])
  BY IdleType DEF Init
<1> QED BY <1>1 DEF Init, TypeOK

LEMMA TypeStutter ==
    ASSUME TypeOK, UNCHANGED vars
    PROVE  TypeOK'
BY DEF TypeOK, vars, OpOK

\* The vault, the memos and the calls keep their types, and a call knows at each of
\* its steps what that step needs: a title, an ID, the item to update (Backend).
THEOREM TypeCorrect == Spec => []TypeOK
<1>1. Init => TypeOK
  BY TypeInit
<1>2. TypeOK /\ [Next]_vars => TypeOK'
  BY TypeStep, TypeStutter
<1> QED BY <1>1, <1>2, PTL DEF Spec

----------------------------------------------------------------------------
\* A step either keeps the items that there are, or removes them, and their titles,
\* or makes one for a title that has none.
Keeps == \A i \in Ids :
            \/ items'[i] = items[i]
            \/ /\ Exists(i)
               /\ items'[i] = Gone \/ (items'[i] \in Item /\ items'[i].title = items[i].title)

Bears(n) == /\ Titled(n) = {}
            /\ \E i \in Ids : /\ items[i] = Unborn
                              /\ items'[i] \in Item /\ items'[i].title = n
                              /\ \A j \in Ids \ {i} : items'[j] = items[j]

LEMMA Sentinels == \A w \in Item : w \notin {Unborn, Gone}
BY OnePasswordAssumption

LEMMA ItemExists ==
    ASSUME TypeOK, NEW i \in Ids, Exists(i)
    PROVE  items[i] \in Item /\ items[i].title \in Names /\ items[i].title # None
           /\ items[i].content \in Content
BY OnePasswordAssumption DEF TypeOK, Exists, Item

LEMMA KeepsTitles ==
    ASSUME TypeOK, Keeps, NEW n
    PROVE  Titled(n)' \subseteq Titled(n)
BY DEF Keeps, Titled, Exists

LEMMA KeepsUnique ==
    ASSUME TypeOK, Keeps, OneItemPerTitle
    PROVE  OneItemPerTitle'
<1>1. ASSUME NEW n \in Names
      PROVE  Titled(n)' \subseteq Titled(n)
  BY KeepsTitles
<1> QED BY <1>1 DEF OneItemPerTitle, Several

LEMMA BearsUnique ==
    ASSUME TypeOK, NEW n \in Names, Bears(n), OneItemPerTitle
    PROVE  OneItemPerTitle'
<1>1. PICK i \in Ids : /\ items[i] = Unborn
                       /\ items'[i] \in Item /\ items'[i].title = n
                       /\ \A j \in Ids \ {i} : items'[j] = items[j]
  BY DEF Bears
<1>2. ASSUME NEW m \in Names, m # n
      PROVE  Titled(m)' \subseteq Titled(m)
  BY <1>1, <1>2 DEF Titled, Exists
<1>3. Titled(n)' \subseteq {i}
  BY <1>1 DEF Bears, Titled, Exists
<1> QED BY <1>2, <1>3 DEF OneItemPerTitle, Several

LEMMA RightStays ==
    ASSUME TypeOK, NEW i \in Ids, NEW n, Right(i, n), Keeps \/ \E m \in Names : Bears(m)
    PROVE  Right(i, n)'
<1>1. CASE Keeps
  BY <1>1, OnePasswordAssumption DEF Keeps, Right, Exists
<1>2. CASE \E m \in Names : Bears(m)
  BY <1>2 DEF Bears, Right, Exists
<1> QED BY <1>1, <1>2

\* A call that a step does not concern stays right, unless it is a save and an item
\* is made meanwhile.
LEMMA OtherCall ==
    ASSUME TypeOK, NEW q \in Procs, CallIsRight(q), op'[q] = op[q], Watch,
           Keeps \/ (op[q].kind # "save" /\ \E m \in Names : Bears(m))
    PROVE  CallIsRight(q)'
<1>1. ASSUME NEW i \in Ids, NEW n, Right(i, n)
      PROVE  Right(i, n)'
  BY <1>1, RightStays
<1>2. op[q].pc # "idle" => seen[q] \subseteq seen'[q]
  BY DEF Watch
<1>3. op[q] \in Op /\ OpOK(op[q])
  BY DEF TypeOK
<1>4. AnswerIsCurrent(q)'
  BY <1>2 DEF CallIsRight, AnswerIsCurrent, At
<1>5. HandleIsRight(q)'
  BY <1>1, <1>3 DEF CallIsRight, HandleIsRight, At, OpOK, Op
<1>6. ListingIsRight(q)'
  <2>1. SUFFICES ASSUME At(q, "listed")
                 PROVE  /\ \A i \in Ids : op[q].titles[i] # None => Right(i, op[q].titles[i])'
                        /\ Listed(q, op[q].name) = {} => Absent \in seen'[q]
                        /\ Several(Listed(q, op[q].name)) => Duplicate \in seen'[q]
    BY DEF ListingIsRight, Listed, Several, At, Right
  <2> QED BY <1>1, <1>2, <2>1 DEF CallIsRight, ListingIsRight, At
<1>7. EffectIsSeen(q)'
  BY <1>2 DEF CallIsRight, EffectIsSeen, At
<1>8. SaveKnowsTheVault(q)'
  <2>1. SUFFICES ASSUME op[q].kind = "save"
                 PROVE  SaveKnowsTheVault(q)'
    BY DEF SaveKnowsTheVault
  <2>2. Titled(op[q].name)' \subseteq Titled(op[q].name)
    BY <2>1, KeepsTitles
  <2>3. \A i \in Ids : Exists(i)' => Exists(i)
    BY <2>1 DEF Keeps, Exists
  <2> QED BY <2>1, <2>2, <2>3 DEF CallIsRight, SaveKnowsTheVault, At
<1> QED BY <1>4, <1>5, <1>6, <1>7, <1>8 DEF CallIsRight

----------------------------------------------------------------------------
\* A goroutine moves alone, and a call stays of its kind until it returns.
Turned(p, kinds) == /\ \A q \in Procs \ {p} : op'[q] = op[q]
                    /\ op'[p].kind \in kinds

LEMMA GoesTurned ==
    ASSUME TypeOK, NEW p \in Procs, NEW k, NEW kinds, k.kind \in kinds, Goes(p, k)
    PROVE  Turned(p, kinds)
BY DEF TypeOK, Goes, Turned

LEMMA KindStays ==
    ASSUME TypeOK, NEW p \in Procs, ProcNext(p), ~Starts(p)
    PROVE  Turned(p, {op[p].kind, "none"})
<1>1. op[p] \in Op /\ OpOK(op[p]) /\ Idle.kind = "none"
  BY DEF TypeOK, Idle
<1>2. ASSUME NEW r \in Answers, Answer(p, r)
      PROVE  Turned(p, {op[p].kind, "none"})
  <2>1. Answered(p, r).kind \in {op[p].kind, "none"}
    BY AnsweredFields
  <2> QED BY <1>2, <2>1, GoesTurned DEF Answer
<1>3. {OK, Absent, Duplicate, Failed} \subseteq Answers
  BY DEF Answers
<1>4. CASE ListItems(p)
  <2> DEFINE k == [op[p] EXCEPT !.pc = "listed",
                                !.titles = [i \in Ids |-> IF Exists(i) THEN items[i].title
                                                                       ELSE None]]
  <2>1. k.kind \in {op[p].kind, "none"} /\ Goes(p, k)
    BY <1>1, <1>4 DEF ListItems, Op
  <2> QED BY <2>1, GoesTurned
<1>5. CASE Forget(p)
  <2> DEFINE k == [op[p] EXCEPT !.pc = "list", !.again = TRUE]
  <2>1. k.kind \in {op[p].kind, "none"} /\ Goes(p, k)
    BY <1>1, <1>5 DEF Forget, Op
  <2> QED BY <2>1, GoesTurned
<1>6. CASE Return(p)
  BY <1>1, <1>6, GoesTurned DEF Return
<1>7. CASE ListReturns(p) \/ RememberCreated(p) \/ ForgetDeleted(p)
  BY <1>2, <1>3, <1>7 DEF ListReturns, RememberCreated, ForgetDeleted
<1>8. CASE ResolvesToNone(p)
  <2> DEFINE k == [op[p] EXCEPT !.pc = "create", !.titles = NoTitles]
  <2>1. op[p].kind \in {"load", "save", "delete"}
    BY <1>1, <1>8 DEF ResolvesToNone, Resolving, At, Op, OpOK
  <2>2. Answer(p, Absent) \/ Answer(p, OK) \/ Goes(p, k)
    BY <1>8, <2>1 DEF ResolvesToNone
  <2>3. k.kind \in {op[p].kind, "none"}
    BY <1>1 DEF Op
  <2> QED BY <1>2, <1>3, <2>2, <2>3, GoesTurned
<1>9. CASE ResolvesToOne(p)
  <2> DEFINE k(i) == [op[p] EXCEPT !.pc = "found", !.id = i, !.titles = NoTitles]
  <2>1. PICK i \in Ids : Answer(p, Failed) \/ Goes(p, k(i))
    BY <1>9 DEF ResolvesToOne
  <2>2. k(i).kind \in {op[p].kind, "none"}
    BY <1>1 DEF Op
  <2> QED BY <1>2, <1>3, <2>1, <2>2, GoesTurned
<1>10. CASE ResolvesToMany(p)
  BY <1>2, <1>3, <1>10 DEF ResolvesToMany
<1>11. CASE Get(p)
  <2> DEFINE k == [op[p] EXCEPT !.pc = "put", !.base = items[op[p].id]]
  <2>1. op[p].id \in Ids
    BY <1>1, <1>11 DEF Get, At, Op, OpOK
  <2>2. Reading(items[op[p].id].content) \in Answers
    BY <1>11, <2>1, ItemExists DEF Get, Reading, Answers
  <2>3. Answer(p, Reading(items[op[p].id].content)) \/ Goes(p, k)
    BY <1>11 DEF Get
  <2>4. k.kind \in {op[p].kind, "none"}
    BY <1>1 DEF Op
  <2> QED BY <1>2, <2>2, <2>3, <2>4, GoesTurned
<1>12. CASE Put(p)
  <2>1. Answer(p, OK) \/ Answer(p, Failed)
    BY <1>12 DEF Put, Applied, Answer
  <2> QED BY <1>2, <1>3, <2>1
<1>13. CASE Create(p)
  <2> DEFINE k(i) == [op[p] EXCEPT !.pc = "created", !.id = i]
  <2>1. PICK i \in Ids : Answer(p, Failed) \/ Goes(p, k(i))
    BY <1>13 DEF Create, Applied
  <2>2. k(i).kind \in {op[p].kind, "none"}
    BY <1>1 DEF Op
  <2> QED BY <1>2, <1>3, <2>1, <2>2, GoesTurned
<1>14. CASE DeleteItem(p)
  <2> DEFINE k == [op[p] EXCEPT !.pc = "deleted"]
  <2>1. Answer(p, Failed) \/ Goes(p, k)
    BY <1>14 DEF DeleteItem, Applied
  <2>2. k.kind \in {op[p].kind, "none"}
    BY <1>1 DEF Op
  <2> QED BY <1>2, <1>3, <2>1, <2>2, GoesTurned
<1>15. CASE CallFails(p)
  <2> DEFINE k == [op[p] EXCEPT !.pc = "lost"]
  <2>1. Answer(p, Failed) \/ Goes(p, k)
    BY <1>15 DEF CallFails, AfterFailedGet, AfterFailedList
  <2>2. k.kind \in {op[p].kind, "none"}
    BY <1>1 DEF Op
  <2> QED BY <1>2, <1>3, <2>1, <2>2, GoesTurned
<1> QED BY <1>4, <1>5, <1>6, <1>7, <1>8, <1>9, <1>10, <1>11, <1>12, <1>13, <1>14, <1>15
        DEF ProcNext

LEMMA StartsAs ==
    ASSUME TypeOK, NEW p \in Procs, Starts(p)
    PROVE  \E kind \in {"load", "save", "delete", "list"}, n \in Names,
              x \in Values \cup {None} :
              Start(p, kind, n, x) /\ Turned(p, {kind})
<1>1. PICK n \in Names : \/ Start(p, "load", n, None)
                         \/ \E x \in Values : Start(p, "save", n, x)
                         \/ Start(p, "delete", n, None)
                         \/ Start(p, "list", n, None)
  BY DEF Starts
<1>2. PICK kind \in {"load", "save", "delete", "list"}, x \in Values \cup {None} :
         Start(p, kind, n, x)
  BY <1>1
<1> DEFINE k == [Idle EXCEPT !.kind = kind, !.name = n, !.val = x]
           kf == [k EXCEPT !.pc = "found", !.id = Memo(p)[n]]
           kl == [k EXCEPT !.pc = "list"]
<1>3. kf.kind \in {kind} /\ kl.kind \in {kind}
  BY IdleType DEF Op
<1>4. Goes(p, kf) \/ Goes(p, kl)
  BY <1>2 DEF Start
<1> HIDE DEF kf, kl
<1>5. Turned(p, {kind})
  BY <1>3, <1>4, GoesTurned
<1> QED BY <1>2, <1>5

LEMMA OthersStay ==
    ASSUME TypeOK, NEW p \in Procs, ProcNext(p)
    PROVE  \A q \in Procs \ {p} : op'[q] = op[q]
BY KindStays, StartsAs DEF Turned

\* Writes do not overlap.
LEMMA OneWriterStays ==
    ASSUME TypeOK, ~Overlap, OneWriter, NEW p \in Procs, ProcNext(p)
    PROVE  OneWriter'
<1>1. CASE Starts(p)
  <2>1. PICK kind \in {"load", "save", "delete", "list"}, n \in Names, x \in Values \cup {None} :
           Start(p, kind, n, x) /\ Turned(p, {kind})
    BY <1>1, StartsAs
  <2>2. op'[p].kind = kind
    BY <2>1 DEF Turned
  <2>3. Writing(p)' => \A q \in Procs : ~Writing(q)
    BY <2>1, <2>2 DEF Start, MayWrite, Writing
  <2> QED BY <2>3, OthersStay DEF OneWriter, Writing
<1>2. CASE ~Starts(p)
  <2>1. op'[p].kind \in {op[p].kind, "none"}
    BY <1>2, KindStays DEF Turned
  <2> QED BY <2>1, OthersStay DEF OneWriter, Writing
<1> QED BY <1>1, <1>2

\* What a step of the program does to the vault.
LEMMA VaultMoves ==
    ASSUME TypeOK, Inductive, NEW p \in Procs, ProcNext(p)
    PROVE  Keeps \/ (Create(p) /\ \E n \in Names : Bears(n))
<1>1. ASSUME UNCHANGED items
      PROVE  Keeps
  BY <1>1 DEF Keeps
<1>2. op[p] \in Op /\ OpOK(op[p]) /\ CallIsRight(p)
  BY DEF TypeOK, Inductive
<1>3. CASE Put(p)
  <2>1. op[p].id \in Ids /\ op[p].base \in Item /\ op[p].val \in Values /\ op[p].name \in Names
    BY <1>2, <1>3 DEF Op, OpOK, Put, At
  <2>2. items[op[p].id].title = op[p].name /\ op[p].base.title = op[p].name
    BY <1>2, <1>3 DEF CallIsRight, HandleIsRight, Right, Put, At
  <2> DEFINE w == [op[p].base EXCEPT !.content = op[p].val]
  <2>3. w \in Item /\ w.title = op[p].name
    BY <2>1, <2>2 DEF Item, Content
  <2>4. items' = [items EXCEPT ![op[p].id] = w] /\ Exists(op[p].id)
    BY <1>3 DEF Put
  <2> HIDE DEF w
  <2> QED BY <2>1, <2>2, <2>3, <2>4 DEF Keeps, TypeOK
<1>4. CASE Create(p)
  <2>1. op[p].name \in Names /\ op[p].val \in Values /\ Titled(op[p].name) = {}
    BY <1>2, <1>4 DEF Op, OpOK, Create, At, CallIsRight, SaveKnowsTheVault
  <2> DEFINE w == [title |-> op[p].name, content |-> op[p].val]
  <2>2. w \in Item /\ w.title = op[p].name
    BY <2>1 DEF Item, Content
  <2>3. PICK i \in Ids : items[i] = Unborn /\ items' = [items EXCEPT ![i] = w]
    BY <1>4 DEF Create
  <2> HIDE DEF w
  <2>4. Bears(op[p].name)
    BY <2>1, <2>2, <2>3 DEF Bears, TypeOK
  <2> QED BY <1>4, <2>1, <2>4
<1>5. CASE DeleteItem(p)
  BY <1>2, <1>5 DEF DeleteItem, Keeps, TypeOK, Op, OpOK, At
<1>6. Put(p) \/ Create(p) \/ DeleteItem(p) \/ UNCHANGED items
  BY DEF ProcNext, Starts, Start, ListItems, ListReturns, ResolvesToNone, ResolvesToOne,
         ResolvesToMany, Resolving, Get, Forget, RememberCreated, ForgetDeleted, CallFails, Return
<1> QED BY <1>1, <1>3, <1>4, <1>5, <1>6

----------------------------------------------------------------------------
\* What the ghost has seen after a step.
LEMMA SeenAfter ==
    ASSUME TypeOK, Watch, NEW p \in Procs, op'[p].pc # "idle"
    PROVE  seen[p] \subseteq seen'[p] /\ View(op[p].name)' \subseteq seen'[p]
BY DEF Watch

LEMMA AnswerRight ==
    ASSUME TypeOK, NEW p \in Procs, NEW r \in Answers, Answer(p, r),
           r # Failed => /\ op[p].kind = "load" => r \in {Reading(c) : c \in seen'[p]}
                         /\ op[p].kind = "save" /\ r = OK => op[p].val \in seen'[p]
                         /\ op[p].kind = "delete" /\ r = OK => Absent \in seen'[p]
    PROVE  CallIsRight(p)'
<1>1. /\ op'[p].kind = op[p].kind /\ op'[p].pc = "done" /\ op'[p].val = op[p].val
      /\ op'[p].got = r
  BY AnsweredFields DEF Answer, Goes, TypeOK
<1>2. AnswerIsCurrent(p)'
  BY <1>1 DEF AnswerIsCurrent
<1> QED BY <1>1, <1>2 DEF CallIsRight, HandleIsRight, ListingIsRight, EffectIsSeen,
                          SaveKnowsTheVault, At

LEMMA FailedRight ==
    ASSUME TypeOK, NEW p \in Procs, Answer(p, Failed)
    PROVE  CallIsRight(p)'
BY AnswerRight DEF Answers

\* Steps that know nothing of the vault.
LEMMA PlainRight ==
    ASSUME TypeOK, NEW p \in Procs, NEW k \in Op, Goes(p, k), k.pc \in {"idle", "list", "lost"}
    PROVE  CallIsRight(p)'
<1>1. op'[p] = k
  BY DEF Goes, TypeOK
<1> QED BY <1>1 DEF CallIsRight, AnswerIsCurrent, HandleIsRight, ListingIsRight, EffectIsSeen,
                    SaveKnowsTheVault, At

\* Steps that find an item.
LEMMA FoundRight ==
    ASSUME TypeOK, NEW p \in Procs, NEW k \in Op, Goes(p, k), k.pc = "found",
           NEW i, NEW n, k.id = i, k.name = n, Right(i, n)'
    PROVE  CallIsRight(p)'
<1>1. op'[p] = k
  BY DEF Goes, TypeOK
<1> QED BY <1>1 DEF CallIsRight, AnswerIsCurrent, HandleIsRight, ListingIsRight, EffectIsSeen,
                    SaveKnowsTheVault, At, Right, Exists

LEMMA StartRight ==
    ASSUME TypeOK, MemoIsRight, NEW p \in Procs, Starts(p)
    PROVE  CallIsRight(p)'
<1>1. PICK kind \in {"load", "save", "delete", "list"}, n \in Names, x \in Values \cup {None} :
         Start(p, kind, n, x)
  BY StartsAs
<1> DEFINE k == [Idle EXCEPT !.kind = kind, !.name = n, !.val = x]
           kf == [k EXCEPT !.pc = "found", !.id = Memo(p)[n]]
           kl == [k EXCEPT !.pc = "list"]
<1>2. PICK i \in Ids \cup {None} : i = Memo(p)[n]
  BY OnePasswordAssumption DEF TypeOK, Memo
<1>3. kl \in Op /\ kl.pc = "list"
  BY <1>1, IdleType DEF Op
<1>4. kf \in Op
  BY <1>1, <1>2, IdleType DEF Op
<1>5. kf.pc = "found" /\ kf.id = i /\ kf.name = n
  BY <1>2, IdleType DEF Op
<1>6. i # None => Right(i, n)'
  BY <1>1, <1>2, OnePasswordAssumption DEF MemoIsRight, Memo, Start, Right, Exists
<1>7. (Goes(p, kf) /\ i # None) \/ Goes(p, kl)
  BY <1>1, <1>2 DEF Start
<1> HIDE DEF kf, kl
<1> QED BY <1>3, <1>4, <1>5, <1>6, <1>7, PlainRight, FoundRight

LEMMA ListItemsRight ==
    ASSUME TypeOK, NEW p \in Procs, ListItems(p), Watch
    PROVE  CallIsRight(p)'
<1> DEFINE t == [i \in Ids |-> IF Exists(i) THEN items[i].title ELSE None]
           k == [op[p] EXCEPT !.pc = "listed", !.titles = t]
<1>1. op[p] \in Op
  BY DEF TypeOK
<1>2. k.pc = "listed" /\ k.titles = t /\ k.name = op[p].name /\ k.kind = op[p].kind
  BY <1>1 DEF Op
<1>3. op'[p] = k /\ items' = items
  BY DEF ListItems, Goes, TypeOK
<1>4. \A i \in Ids : t[i] = IF Exists(i) THEN items[i].title ELSE None
  OBVIOUS
<1> HIDE DEF t, k
<1>5. \A i \in Ids : (Exists(i) <=> t[i] # None) /\ (t[i] # None => t[i] = items[i].title)
  BY <1>4, ItemExists
<1>6. op[p].name \in Names
  BY DEF TypeOK, OpOK, ListItems, At
<1>7. View(op[p].name)' = View(op[p].name)
  BY <1>2, <1>3 DEF View, Titled, Exists
<1>8. View(op[p].name) \subseteq seen'[p]
  BY <1>2, <1>3, <1>7, SeenAfter
<1>9. {i \in Ids : t[i] = op[p].name} = Titled(op[p].name)
  BY <1>5, <1>6, OnePasswordAssumption DEF Titled
<1>10. ListingIsRight(p)'
  <2>1. Listed(p, op[p].name)' = Titled(op[p].name)
    BY <1>2, <1>3, <1>9 DEF Listed
  <2>2. \A i \in Ids : t[i] # None => items'[i] # Unborn /\ (Exists(i)' => items'[i].title = t[i])
    BY <1>3, <1>5 DEF Exists
  <2>3. Titled(op[p].name) = {} => Absent \in seen'[p]
    BY <1>8 DEF View
  <2>4. Several(Titled(op[p].name)) => Duplicate \in seen'[p]
    BY <1>8 DEF View, Several
  <2>5. \A i \in Ids : op'[p].titles[i] # None => Right(i, op[p].titles[i])'
    BY <1>2, <1>3, <2>2 DEF Right, Exists
  <2> QED BY <2>1, <2>3, <2>4, <2>5 DEF ListingIsRight, Several
<1>11. SaveKnowsTheVault(p)'
  BY <1>2, <1>3, <1>5 DEF SaveKnowsTheVault, At, Exists
<1> QED BY <1>2, <1>3, <1>10, <1>11 DEF CallIsRight, AnswerIsCurrent, HandleIsRight, EffectIsSeen, At

LEMMA ResolvesRight ==
    ASSUME TypeOK, NEW p \in Procs, CallIsRight(p), Watch,
           ResolvesToNone(p) \/ ResolvesToOne(p) \/ ResolvesToMany(p)
    PROVE  CallIsRight(p)'
<1>1. /\ op[p] \in Op /\ op[p].pc = "listed" /\ op[p].name \in Names /\ op[p].name # None
      /\ op[p].kind \in {"load", "save", "delete"} /\ items' = items
  BY OnePasswordAssumption DEF TypeOK, OpOK, Op, ResolvesToNone, ResolvesToOne, ResolvesToMany,
                               Resolving, At
<1>2. Absent \in Answers /\ Duplicate \in Answers /\ OK \in Answers
  BY DEF Answers
<1>3. Reading(Absent) = Absent /\ Reading(Duplicate) = Duplicate /\ OK # Duplicate
  BY OnePasswordAssumption DEF Reading, Content
<1>4. ASSUME op'[p].pc # "idle"
      PROVE  seen[p] \subseteq seen'[p]
  BY <1>4, SeenAfter
<1>5. ASSUME NEW r \in Answers, Answer(p, r)
      PROVE  seen[p] \subseteq seen'[p]
  <2>1. op'[p].pc = "done"
    BY <1>5, AnsweredFields DEF Answer, Goes, TypeOK
  <2> QED BY <1>4, <2>1
<1>6. CASE ResolvesToNone(p)
  <2>1. Listed(p, op[p].name) = {}
    BY <1>6 DEF ResolvesToNone
  <2>2. Absent \in seen[p]
    BY <1>1, <2>1 DEF CallIsRight, ListingIsRight, At
  <2>3. CASE op[p].kind = "load"
    BY <1>2, <1>3, <1>5, <1>6, <2>2, <2>3, AnswerRight DEF ResolvesToNone
  <2>4. CASE op[p].kind = "delete"
    BY <1>2, <1>5, <1>6, <2>2, <2>4, AnswerRight DEF ResolvesToNone
  <2>5. CASE op[p].kind = "save"
    <3> DEFINE k == [op[p] EXCEPT !.pc = "create", !.titles = NoTitles]
    <3>1. k.pc = "create" /\ k.name = op[p].name
      BY <1>1 DEF Op
    <3>2. Goes(p, k)
      BY <1>6, <2>5 DEF ResolvesToNone
    <3> HIDE DEF k
    <3>3. op'[p] = k
      BY <3>2 DEF Goes, TypeOK
    <3>4. ASSUME NEW i \in Ids, Exists(i)
          PROVE  items[i].title # op[p].name
      <4>1. op[p].titles[i] # None /\ op[p].titles[i] # op[p].name
        BY <1>1, <2>1, <2>5, <3>4 DEF CallIsRight, SaveKnowsTheVault, At, Listed
      <4>2. Right(i, op[p].titles[i])
        BY <1>1, <4>1 DEF CallIsRight, ListingIsRight, At
      <4> QED BY <3>4, <4>1, <4>2 DEF Right
    <3>5. Titled(op[p].name)' = {}
      BY <1>1, <3>1, <3>3, <3>4 DEF Titled, Exists
    <3> QED BY <3>1, <3>3, <3>5 DEF CallIsRight, AnswerIsCurrent, HandleIsRight, ListingIsRight,
                                    EffectIsSeen, SaveKnowsTheVault, At
  <2> QED BY <1>1, <2>3, <2>4, <2>5
<1>7. CASE ResolvesToOne(p)
  <2> DEFINE k(i) == [op[p] EXCEPT !.pc = "found", !.id = i, !.titles = NoTitles]
  <2>1. PICK i \in Ids : /\ Listed(p, op[p].name) = {i}
                         /\ Answer(p, Failed) \/ Goes(p, k(i))
    BY <1>7 DEF ResolvesToOne
  <2>2. Right(i, op[p].name)
    BY <1>1, <2>1 DEF Listed, CallIsRight, ListingIsRight, At
  <2>3. k(i) \in Op
    BY <1>1 DEF Op, NoTitles
  <2>4. k(i).pc = "found" /\ k(i).id = i /\ k(i).name = op[p].name
    BY <1>1 DEF Op
  <2> HIDE DEF k
  <2>5. PICK n \in Names : n = op[p].name
    BY <1>1
  <2>6. Right(i, n)'
    BY <1>1, <2>2, <2>5 DEF Right, Exists
  <2> QED BY <2>1, <2>3, <2>4, <2>5, <2>6, FoundRight, FailedRight
<1>8. CASE ResolvesToMany(p)
  <2>1. Duplicate \in seen[p]
    BY <1>1, <1>8 DEF ResolvesToMany, CallIsRight, ListingIsRight, At
  <2>2. CASE Answer(p, Failed)
    BY <2>2, FailedRight
  <2>3. CASE Answer(p, Duplicate)
    BY <1>2, <1>3, <1>5, <2>1, <2>3, AnswerRight, OnePasswordAssumption
  <2> QED BY <1>8, <2>2, <2>3 DEF ResolvesToMany
<1> QED BY <1>6, <1>7, <1>8

LEMMA GetRight ==
    ASSUME TypeOK, NEW p \in Procs, CallIsRight(p), Watch, Get(p)
    PROVE  CallIsRight(p)'
<1>1. /\ op[p] \in Op /\ op[p].pc = "found" /\ op[p].id \in Ids
      /\ op[p].kind \in {"load", "save"} /\ items' = items
  BY DEF TypeOK, OpOK, Op, Get, At
<1> DEFINE w == items[op[p].id]
<1>2. Exists(op[p].id) /\ w \in Item /\ w.content \in Content /\ w.title = op[p].name
  BY <1>1, ItemExists DEF Get, CallIsRight, HandleIsRight, Right, At
<1>3. CASE op[p].kind = "load"
  <2>1. Reading(w.content) \in Answers
    BY <1>2 DEF Reading, Answers
  <2>2. Answer(p, Reading(w.content))
    BY <1>3 DEF Get
  <2>3. op'[p].pc = "done" /\ op'[p].name = op[p].name
    BY <2>1, <2>2, AnsweredFields DEF Answer, Goes, TypeOK
  <2>4. w.content \in View(op[p].name)'
    BY <1>1, <1>2, <2>3 DEF View, Titled, Exists
  <2>5. w.content \in seen'[p]
    BY <2>3, <2>4, SeenAfter
  <2> HIDE DEF w
  <2> QED BY <1>3, <2>1, <2>2, <2>5, AnswerRight
<1>4. CASE op[p].kind = "save"
  <2> DEFINE k == [op[p] EXCEPT !.pc = "put", !.base = w]
  <2>1. k.pc = "put" /\ k.id = op[p].id /\ k.name = op[p].name /\ k.base = w
    BY <1>1 DEF Op
  <2>2. Goes(p, k)
    BY <1>4 DEF Get
  <2>3. op'[p] = k
    BY <2>2 DEF Goes, TypeOK
  <2>4. items'[op[p].id] = w /\ w # Unborn
    BY <1>1, <1>2, Sentinels
  <2> HIDE DEF k, w
  <2> QED BY <1>2, <2>1, <2>3, <2>4 DEF CallIsRight, AnswerIsCurrent, HandleIsRight,
             ListingIsRight, EffectIsSeen, SaveKnowsTheVault, At, Right
<1> QED BY <1>1, <1>3, <1>4

\* The steps that change an item see their effect.
LEMMA PutRight ==
    ASSUME TypeOK, NEW p \in Procs, CallIsRight(p), Watch, Put(p)
    PROVE  CallIsRight(p)'
<1>1. /\ op[p] \in Op /\ op[p].pc = "put" /\ op[p].kind = "save" /\ op[p].id \in Ids
      /\ op[p].base \in Item /\ op[p].val \in Values
  BY DEF TypeOK, OpOK, Op, Put, At
<1>2. op[p].base.title = op[p].name
  BY <1>1 DEF CallIsRight, HandleIsRight, At
<1> DEFINE w == [op[p].base EXCEPT !.content = op[p].val]
<1>3. w \in Item /\ w.title = op[p].name /\ w.content = op[p].val
  BY <1>1, <1>2 DEF Item, Content
<1>4. items'[op[p].id] = w
  BY <1>1 DEF Put, TypeOK
<1>5. Goes(p, Answered(p, OK)) \/ Answer(p, Failed)
  BY DEF Put, Applied
<1> HIDE DEF w
<1>6. ASSUME Goes(p, Answered(p, OK))
      PROVE  op[p].val \in seen'[p]
  <2>1. op'[p].pc = "done" /\ op'[p].name = op[p].name
    BY <1>6, AnsweredFields DEF Answers, Goes, TypeOK
  <2>2. op[p].val \in View(op[p].name)'
    BY <1>1, <1>3, <1>4, <2>1, Sentinels DEF View, Titled, Exists
  <2> QED BY <2>1, <2>2, SeenAfter
<1> QED BY <1>1, <1>5, <1>6, FailedRight, AnswerRight DEF Answer, Answers

LEMMA CreateRight ==
    ASSUME TypeOK, NEW p \in Procs, Watch, Create(p)
    PROVE  CallIsRight(p)'
<1>1. /\ op[p] \in Op /\ op[p].pc = "create" /\ op[p].kind = "save"
      /\ op[p].name \in Names /\ op[p].val \in Values
  BY DEF TypeOK, OpOK, Op, Create, At
<1> DEFINE w == [title |-> op[p].name, content |-> op[p].val]
           k(i) == [op[p] EXCEPT !.pc = "created", !.id = i]
<1>2. PICK i \in Ids : items' = [items EXCEPT ![i] = w] /\ (Goes(p, k(i)) \/ Answer(p, Failed))
  BY DEF Create, Applied
<1>3. w \in Item /\ w.title = op[p].name /\ w.content = op[p].val
  BY <1>1 DEF Item, Content
<1>4. items'[i] = w
  BY <1>2 DEF TypeOK
<1>5. /\ k(i).pc = "created" /\ k(i).id = i /\ k(i).name = op[p].name /\ k(i).val = op[p].val
  BY <1>1 DEF Op
<1> HIDE DEF w, k
<1>6. CASE Goes(p, k(i))
  <2>1. op'[p] = k(i)
    BY <1>6 DEF Goes, TypeOK
  <2>2. op[p].val \in View(op[p].name)'
    BY <1>1, <1>3, <1>4, <1>5, <2>1, Sentinels DEF View, Titled, Exists
  <2>3. op[p].val \in seen'[p]
    BY <1>5, <2>1, <2>2, SeenAfter
  <2> QED BY <1>3, <1>4, <1>5, <2>1, <2>3, Sentinels DEF CallIsRight, AnswerIsCurrent,
             HandleIsRight, ListingIsRight, EffectIsSeen, SaveKnowsTheVault, At, Right
<1> QED BY <1>2, <1>6, FailedRight

LEMMA DeleteItemRight ==
    ASSUME TypeOK, OneItemPerTitle, NEW p \in Procs, CallIsRight(p), Watch, DeleteItem(p)
    PROVE  CallIsRight(p)'
<1>1. /\ op[p] \in Op /\ op[p].pc = "found" /\ op[p].kind = "delete" /\ op[p].id \in Ids
      /\ op[p].name \in Names
  BY DEF TypeOK, OpOK, Op, DeleteItem, At
<1>2. op[p].id \in Titled(op[p].name)
  BY <1>1 DEF DeleteItem, CallIsRight, HandleIsRight, At, Right, Titled
<1> DEFINE k == [op[p] EXCEPT !.pc = "deleted"]
<1>3. k.pc = "deleted" /\ k.id = op[p].id /\ k.name = op[p].name /\ k.kind = "delete"
  BY <1>1 DEF Op
<1>4. Goes(p, k) \/ Answer(p, Failed)
  BY DEF DeleteItem, Applied
<1>5. items' = [items EXCEPT ![op[p].id] = Gone]
  BY DEF DeleteItem
<1> HIDE DEF k
<1>6. CASE Goes(p, k)
  <2>1. op'[p] = k
    BY <1>6 DEF Goes, TypeOK
  <2>2. \A i \in Ids : i # op[p].id => i \notin Titled(op[p].name)
    BY <1>1, <1>2 DEF OneItemPerTitle, Several
  <2>3. Titled(op[p].name)' = {}
    BY <1>1, <1>3, <1>5, <2>1, <2>2 DEF Titled, Exists, TypeOK
  <2>4. Absent \in seen'[p]
    BY <1>3, <2>1, <2>3, SeenAfter DEF View
  <2>5. items'[op[p].id] = Gone
    BY <1>1, <1>5 DEF TypeOK
  <2> QED BY <1>3, <2>1, <2>4, <2>5, OnePasswordAssumption DEF CallIsRight, AnswerIsCurrent,
             HandleIsRight, ListingIsRight, EffectIsSeen, SaveKnowsTheVault, At, Right, Exists
<1> QED BY <1>4, <1>6, FailedRight

LEMMA RestRight ==
    ASSUME TypeOK, NEW p \in Procs, CallIsRight(p), Watch,
           \/ ListReturns(p) \/ Forget(p) \/ RememberCreated(p) \/ ForgetDeleted(p)
           \/ CallFails(p) \/ Return(p)
    PROVE  CallIsRight(p)'
<1>1. op[p] \in Op /\ OpOK(op[p]) /\ OK \in Answers
  BY DEF TypeOK, Answers
<1>2. CASE ListReturns(p)
  BY <1>1, <1>2, AnswerRight DEF ListReturns
<1>3. CASE RememberCreated(p) \/ ForgetDeleted(p)
  <2>1. Answer(p, OK)
    BY <1>3 DEF RememberCreated, ForgetDeleted
  <2>2. seen[p] \subseteq seen'[p]
    <3>1. op'[p].pc = "done"
      BY <1>1, <2>1, AnsweredFields DEF Answer, Goes, TypeOK
    <3> QED BY <3>1, SeenAfter
  <2>3. \/ op[p].kind = "save" /\ op[p].val \in seen[p]
        \/ op[p].kind = "delete" /\ Absent \in seen[p]
    BY <1>1, <1>3 DEF RememberCreated, ForgetDeleted, CallIsRight, EffectIsSeen, At, OpOK
  <2> QED BY <1>1, <2>1, <2>2, <2>3, AnswerRight
<1>4. CASE Forget(p)
  <2> DEFINE k == [op[p] EXCEPT !.pc = "list", !.again = TRUE]
  <2>1. k \in Op /\ k.pc = "list" /\ Goes(p, k)
    BY <1>1, <1>4 DEF Op, Forget
  <2> QED BY <2>1, PlainRight
<1>5. CASE CallFails(p)
  <2> DEFINE k == [op[p] EXCEPT !.pc = "lost"]
  <2>1. Answer(p, Failed) \/ Goes(p, k)
    BY <1>5 DEF CallFails, AfterFailedGet, AfterFailedList
  <2>2. k \in Op /\ k.pc = "lost"
    BY <1>1 DEF Op
  <2> QED BY <2>1, <2>2, PlainRight, FailedRight
<1>6. CASE Return(p)
  <2>1. Idle.pc = "idle" /\ Goes(p, Idle)
    BY <1>6 DEF Return, Idle
  <2> QED BY <2>1, IdleType, PlainRight
<1> QED BY <1>2, <1>3, <1>4, <1>5, <1>6

\* The memo holds what a right listing or a right call has put there.
LEMMA MemoRight ==
    ASSUME TypeOK, Inductive, NEW p \in Procs, ProcNext(p)
    PROVE  \A h \in Instances, n \in Names :
              memo'[h][n] # None => memo'[h][n] \in Ids /\ Right(memo'[h][n], n)
<1>1. /\ \A h \in Instances, n \in Names :
            memo[h][n] # None => memo[h][n] \in Ids /\ Right(memo[h][n], n)
      /\ CallIsRight(p) /\ op[p] \in Op /\ OpOK(op[p]) /\ Home[p] \in Instances
  BY OnePasswordAssumption DEF TypeOK, Inductive, MemoIsRight
<1>2. CASE Remember(p) /\ At(p, "listed")
  <2> DEFINE m == [n \in Names |-> IF \E i \in Ids : Listed(p, n) = {i}
                                     THEN CHOOSE i \in Ids : Listed(p, n) = {i}
                                     ELSE None]
  <2>1. memo' = [memo EXCEPT ![Home[p]] = m]
    BY <1>2 DEF Remember, SetMemo
  <2>2. ASSUME NEW n \in Names, m[n] # None
        PROVE  m[n] \in Ids /\ Right(m[n], n)
    <3>1. PICK i \in Ids : Listed(p, n) = {i}
      BY <2>2
    <3>2. m[n] = i
      BY <3>1
    <3>3. op[p].titles[i] = n /\ n # None
      BY <3>1, OnePasswordAssumption DEF Listed
    <3> QED BY <1>1, <1>2, <3>2, <3>3 DEF CallIsRight, ListingIsRight
  <2> HIDE DEF m
  <2> QED BY <1>1, <2>1, <2>2 DEF TypeOK
<1>3. CASE RememberCreated(p)
  <2>1. op[p].id \in Ids /\ Right(op[p].id, op[p].name)
    BY <1>1, <1>3 DEF RememberCreated, At, OpOK, Op, CallIsRight, HandleIsRight
  <2> QED BY <1>1, <1>3, <2>1 DEF RememberCreated, SetMemo, Memo, TypeOK
<1>4. CASE Forget(p) \/ ForgetDeleted(p)
  BY <1>1, <1>4 DEF Forget, ForgetDeleted, SetMemo, Memo, TypeOK
<1>5. CASE UNCHANGED memo
  BY <1>1, <1>5
<1>6. \/ Remember(p) /\ At(p, "listed")
      \/ RememberCreated(p) \/ Forget(p) \/ ForgetDeleted(p) \/ UNCHANGED memo
  BY DEF ProcNext, Starts, Start, ListItems, ListReturns, ResolvesToNone, ResolvesToOne,
         ResolvesToMany, Resolving, Get, Put, Create, DeleteItem, CallFails, Return
<1> QED BY <1>2, <1>3, <1>4, <1>5, <1>6

LEMMA MemoStays ==
    ASSUME TypeOK, Keeps \/ \E m \in Names : Bears(m),
           \A h \in Instances, n \in Names :
              memo'[h][n] # None => memo'[h][n] \in Ids /\ Right(memo'[h][n], n)
    PROVE  MemoIsRight'
<1>1. ASSUME NEW h \in Instances, NEW n \in Names, memo'[h][n] # None
      PROVE  Right(memo[h][n], n)'
  <2>1. PICK i \in Ids : i = memo'[h][n]
    BY <1>1
  <2>2. Right(i, n)'
    BY <1>1, <2>1, RightStays
  <2> QED BY <2>1, <2>2 DEF Right, Exists
<1> QED BY <1>1 DEF MemoIsRight

LEMMA ProcStep ==
    ASSUME TypeOK, Inductive, ~Overlap, NEW p \in Procs, ProcNext(p), Watch
    PROVE  Inductive'
<1>1. Keeps \/ (Create(p) /\ \E n \in Names : Bears(n))
  BY VaultMoves
<1>2. OneItemPerTitle'
  BY <1>1, KeepsUnique, BearsUnique DEF Inductive
<1>3. MemoIsRight'
  BY <1>1, MemoRight, MemoStays
<1>4. OneWriter'
  BY OneWriterStays DEF Inductive
<1>5. CallIsRight(p)'
  BY StartRight, ListItemsRight, ResolvesRight, GetRight, PutRight, CreateRight, DeleteItemRight,
     RestRight DEF Inductive, ProcNext
<1>6. ASSUME NEW q \in Procs, q # p
      PROVE  CallIsRight(q)'
  <2>1. op'[q] = op[q]
    BY <1>6, OthersStay
  <2>2. Create(p) => op[q].kind # "save"
    BY <1>6 DEF Inductive, OneWriter, Writing, Create, TypeOK, OpOK, At
  <2> QED BY <1>1, <2>1, <2>2, OtherCall DEF Inductive
<1> QED BY <1>2, <1>3, <1>4, <1>5, <1>6 DEF Inductive

\* Other instances and humans.
LEMMA VaultStep ==
    ASSUME TypeOK, Inductive, UNCHANGED <<memo, op>>, Watch,
           Keeps \/ ((\A q \in Procs : ~Writing(q)) /\ \E n \in Names : Bears(n))
    PROVE  Inductive'
<1>1. OneItemPerTitle'
  BY KeepsUnique, BearsUnique DEF Inductive
<1>2. MemoIsRight'
  <2>1. \A h \in Instances, n \in Names :
           memo'[h][n] # None => memo'[h][n] \in Ids /\ Right(memo'[h][n], n)
    BY DEF Inductive, MemoIsRight, TypeOK
  <2> QED BY <2>1, MemoStays
<1>3. ASSUME NEW q \in Procs
      PROVE  CallIsRight(q)'
  BY OtherCall DEF Inductive, Writing
<1>4. OneWriter'
  BY DEF Inductive, OneWriter, Writing
<1> QED BY <1>1, <1>2, <1>3, <1>4 DEF Inductive

LEMMA InductiveStep ==
    ASSUME TypeOK, Inductive, ~Overlap, Next
    PROVE  Inductive'
<1>1. CASE \E p \in Procs : ProcNext(p)
  BY <1>1, ProcStep DEF Next
<1>2. ASSUME NEW n \in Names, NEW x \in Values, Plant(n, x)
      PROVE  Inductive'
  <2> DEFINE w == [title |-> n, content |-> x]
  <2>1. w \in Item /\ w.title = n
    BY DEF Item, Content
  <2>2. PICK i \in Ids : items[i] = Unborn /\ items' = [items EXCEPT ![i] = w]
    BY <1>2 DEF Plant
  <2> HIDE DEF w
  <2>3. Bears(n)
    BY <1>2, <2>1, <2>2 DEF Plant, Bears, TypeOK
  <2> QED BY <1>2, <2>3, VaultStep DEF Plant, Next
<1>3. ASSUME NEW i \in Ids, Trash(i)
      PROVE  Inductive'
  <2>1. Keeps
    BY <1>3 DEF Trash, Keeps, TypeOK
  <2> QED BY <1>3, <2>1, VaultStep DEF Trash, Next
<1>4. ASSUME NEW i \in Ids, NEW c \in {Foreign, Mangled}, Spoil(i, c)
      PROVE  Inductive'
  <2> DEFINE w == [items[i] EXCEPT !.content = c]
  <2>1. items[i] \in Item
    BY <1>4, ItemExists DEF Spoil
  <2>2. w \in Item /\ w.title = items[i].title
    BY <2>1 DEF Item, Content
  <2>3. items' = [items EXCEPT ![i] = w] /\ Exists(i)
    BY <1>4 DEF Spoil
  <2> HIDE DEF w
  <2>4. Keeps
    BY <2>2, <2>3 DEF Keeps, TypeOK
  <2> QED BY <1>4, <2>4, VaultStep DEF Spoil, Next
<1> QED BY <1>1, <1>2, <1>3, <1>4 DEF Next

LEMMA InductiveInit == Init => Inductive
<1> SUFFICES ASSUME Init
             PROVE  Inductive
  OBVIOUS
<1>1. \A p \in Procs : op[p].pc = "idle" /\ op[p].kind = "none"
  BY DEF Init, Idle
<1>2. \A n \in Names : Titled(n) = {}
  BY DEF Init, Titled, Exists
<1>3. \A p \in Procs : CallIsRight(p)
  BY <1>1 DEF CallIsRight, AnswerIsCurrent, HandleIsRight, ListingIsRight, EffectIsSeen,
              SaveKnowsTheVault, At
<1>4. OneItemPerTitle /\ MemoIsRight /\ OneWriter
  BY <1>1, <1>2 DEF Init, OneItemPerTitle, MemoIsRight, OneWriter, Writing, Several
<1> QED BY <1>3, <1>4 DEF Inductive

LEMMA InductiveStutter ==
    ASSUME TypeOK, Inductive, UNCHANGED vars
    PROVE  Inductive'
BY DEF vars, Inductive, OneItemPerTitle, MemoIsRight, OneWriter, CallIsRight, AnswerIsCurrent,
       HandleIsRight, ListingIsRight, EffectIsSeen, SaveKnowsTheVault, At, Right, Exists, Titled,
       Several, Listed, Writing

\* While writes do not overlap, IDs in hand are of the title they are used for, and
\* a save that creates knows that its title is free (Backend, and store.Store's mutex).
THEOREM InductiveInvariant ==
    ASSUME ~Overlap
    PROVE  Spec => []Inductive
<1>1. Init => TypeOK /\ Inductive
  BY TypeInit, InductiveInit
<1>2. TypeOK /\ Inductive /\ [Next]_vars => (TypeOK /\ Inductive)'
  BY TypeStep, TypeStutter, InductiveStep, InductiveStutter
<1> QED BY <1>1, <1>2, PTL DEF Spec

\* While writes do not overlap, no title is ever given to two items, whatever fails
\* and whoever edits the vault (onepassword.go Save, create).
THEOREM TitlesStayUnique ==
    ASSUME ~Overlap
    PROVE  Spec => []OneItemPerTitle
<1>1. Inductive => OneItemPerTitle
  BY DEF Inductive
<1> QED BY <1>1, InductiveInvariant, PTL

\* While writes do not overlap, every call answers as the vault did at some moment
\* while it ran (onepassword.go Load, Save, Delete).
THEOREM CallsAnswerAsTheVault ==
    ASSUME ~Overlap
    PROVE  Spec => []AnswersAreCurrent
<1>1. Inductive => AnswersAreCurrent
  BY DEF Inductive, AnswersAreCurrent, CallIsRight
<1> QED BY <1>1, InductiveInvariant, PTL

----------------------------------------------------------------------------
(* Every call acts at one moment on the map from titles to records *)

\* A title that is free, and one that has an item.
LEMMA FreeTitle ==
    ASSUME NEW n \in Names, Titled(n) = {}
    PROVE  Stored[n] = Absent
<1>1. View(n) = {Absent}
  BY DEF View
<1>2. (CHOOSE c \in View(n) : TRUE) = Absent
  BY <1>1
<1>3. Absent # Foreign
  BY OnePasswordAssumption DEF Content
<1> QED BY <1>2, <1>3 DEF Stored, Reading

LEMMA TakenTitle ==
    ASSUME OneItemPerTitle, NEW n \in Names, NEW i \in Titled(n)
    PROVE  Stored[n] = Reading(items[i].content)
<1>1. Titled(n) = {i} /\ ~Several(Titled(n))
  BY DEF OneItemPerTitle, Several
<1>2. View(n) = {items[i].content}
  BY <1>1 DEF View
<1>3. (CHOOSE c \in View(n) : TRUE) = items[i].content
  BY <1>2
<1> QED BY <1>3 DEF Stored

\* The same of the state after a step.
LEMMA FreeTitleAfter ==
    ASSUME NEW n \in Names, Titled(n)' = {}
    PROVE  Stored'[n] = Absent
<1>1. View(n)' = {Absent}
  BY DEF View
<1>2. (CHOOSE c \in View(n)' : TRUE) = Absent
  BY <1>1
<1>3. Absent # Foreign
  BY OnePasswordAssumption DEF Content
<1> QED BY <1>2, <1>3 DEF Stored, Reading

LEMMA TakenTitleAfter ==
    ASSUME OneItemPerTitle', NEW n \in Names, NEW i \in Ids, i \in Titled(n)'
    PROVE  Stored'[n] = Reading(items'[i].content)
<1>1. Titled(n)' = {i} /\ ~Several(Titled(n)')
  BY DEF OneItemPerTitle, Several
<1>2. View(n)' = {items'[i].content}
  BY <1>1 DEF View
<1>3. (CHOOSE c \in View(n)' : TRUE) = items'[i].content
  BY <1>2
<1> QED BY <1>3 DEF Stored, Reading

\* A title whose items a step leaves alone keeps its record.
LEMMA SameView ==
    ASSUME NEW m \in Names, Titled(m)' = Titled(m),
           {items'[j].content : j \in Titled(m)} = {items[j].content : j \in Titled(m)}
    PROVE  Stored'[m] = Stored[m]
<1>1. PICK T : T = Titled(m)
  OBVIOUS
<1>2. PICK C : C = {items[j].content : j \in T}
  OBVIOUS
<1> DEFINE V == IF T = {} THEN {Absent} ELSE C \cup {d \in {Duplicate} : Several(T)}
<1>3. View(m) = V
  BY <1>1, <1>2 DEF View
<1>4. View(m)' = V
  <2>1. Titled(m)' = T /\ {items'[j].content : j \in Titled(m)'} = C
    BY <1>1, <1>2
  <2>2. Several(T)' <=> Several(T)
    BY DEF Several
  <2> QED BY <2>1, <2>2 DEF View
<1> HIDE DEF V
<1>5. Stored[m] = Reading(CHOOSE c \in V : TRUE)
  BY <1>3 DEF Stored
<1>6. Stored'[m] = Reading(CHOOSE c \in V : TRUE)
  BY <1>4 DEF Stored, Reading
<1> QED BY <1>5, <1>6

LEMMA StoredAt ==
    ASSUME NEW n \in Names, NEW x, Stored'[n] = x,
           \A m \in Names : m # n => Stored'[m] = Stored[m]
    PROVE  Stored' = [Stored EXCEPT ![n] = x]
<1>1. Stored = [m \in Names |-> Stored[m]] /\ Stored' = [m \in Names |-> Stored'[m]]
  BY DEF Stored
<1> QED BY <1>1

\* A change of one item changes the map at its title only.
LEMMA StoredChange ==
    ASSUME TypeOK, OneItemPerTitle, OneItemPerTitle', NEW n \in Names, NEW i \in Ids,
           NEW w \in Item \cup {Gone}, items' = [items EXCEPT ![i] = w],
           Exists(i) => items[i].title = n,
           w \in Item => w.title = n,
           w = Gone => Exists(i)
    PROVE  Stored' = [Stored EXCEPT ![n] = IF w = Gone THEN Absent ELSE Reading(w.content)]
<1>1. items'[i] = w /\ \A j \in Ids : j # i => items'[j] = items[j]
  BY DEF TypeOK
<1>2. ASSUME NEW m \in Names, m # n
      PROVE  Stored'[m] = Stored[m]
  <2>1. Titled(m)' = Titled(m) /\ i \notin Titled(m)
    BY <1>1, <1>2, Sentinels DEF Titled, Exists
  <2>2. {items'[j].content : j \in Titled(m)} = {items[j].content : j \in Titled(m)}
    BY <1>1, <2>1 DEF Titled
  <2> QED BY <2>1, <2>2, SameView
<1>3. CASE w \in Item
  <2>1. i \in Titled(n)' /\ w # Gone
    BY <1>1, <1>3, Sentinels DEF Titled, Exists
  <2>2. Stored'[n] = Reading(w.content)
    BY <1>1, <2>1, TakenTitleAfter
  <2> QED BY <1>2, <2>1, <2>2, StoredAt
<1>4. CASE w = Gone
  <2>1. i \in Titled(n)
    BY <1>4 DEF Titled
  <2>2. \A j \in Ids : j # i => j \notin Titled(n)
    BY <2>1 DEF OneItemPerTitle, Several
  <2>3. Titled(n)' = {}
    BY <1>1, <1>4, <2>2 DEF Titled, Exists
  <2> QED BY <1>2, <1>4, <2>3, FreeTitleAfter, StoredAt
<1> QED BY <1>3, <1>4

LEMMA StoredStays ==
    ASSUME UNCHANGED items
    PROVE  Stored' = Stored
<1>1. ASSUME NEW n \in Names
      PROVE  Stored'[n] = Stored[n]
  BY SameView DEF Titled, Exists
<1>2. Stored = [m \in Names |-> Stored[m]] /\ Stored' = [m \in Names |-> Stored'[m]]
  BY DEF Stored
<1> QED BY <1>1, <1>2

----------------------------------------------------------------------------
\* What the goroutines are doing, as Backend sees it.
Sees == [p \in Procs |-> Seen(p)]

\* The call of p goes on, and no other moves.
GoesOn(p) == /\ \A q \in Procs \ {p} : op'[q] = op[q]
             /\ op'[p].kind = op[p].kind /\ op'[p].name = op[p].name /\ op'[p].val = op[p].val

Calling(p) == op[p].kind \in {"load", "save", "delete"}

LEMMA OthersSeen ==
    ASSUME NEW p \in Procs, \A q \in Procs \ {p} : op'[q] = op[q]
    PROVE  \A q \in Procs \ {p} : Seen(q)' = Seen(q)
<1>1. ASSUME NEW q \in Procs, op'[q] = op[q]
      PROVE  Seen(q)' = Seen(q)
  <2>1. Listed(q, op[q].name)' = Listed(q, op[q].name)
    BY <1>1 DEF Listed
  <2>2. Took(q)' = Took(q)
    BY <1>1, <2>1 DEF Took, At
  <2> QED BY <1>1, <2>2 DEF Seen
<1> QED BY <1>1

LEMMA SeesOne ==
    ASSUME NEW p \in Procs, \A q \in Procs \ {p} : op'[q] = op[q]
    PROVE  Sees' = [Sees EXCEPT ![p] = Seen(p)']
BY OthersSeen DEF Sees

\* What the call of p took is all that Backend sees of its steps.
LEMMA SeesTaking ==
    ASSUME NEW p \in Procs, GoesOn(p), Calling(p)
    PROVE  /\ Sees[p].kind = op[p].kind /\ Sees[p].name = op[p].name
           /\ Sees[p].val = op[p].val /\ Sees[p].took = Took(p)
           /\ Sees' = [Sees EXCEPT ![p].took = Took(p)']
<1>1. Seen(p) = [kind |-> op[p].kind, name |-> op[p].name, val |-> op[p].val, took |-> Took(p)]
  BY DEF Calling, Seen
<1>2. Seen(p)' = [kind |-> op[p].kind, name |-> op[p].name, val |-> op[p].val, took |-> Took(p)']
  BY DEF Calling, Seen, GoesOn
<1>3. Seen(p)' = [Seen(p) EXCEPT !.took = Took(p)']
  BY <1>1, <1>2
<1>4. Sees[p] = Seen(p)
  BY DEF Sees
<1>5. Sees' = [Sees EXCEPT ![p] = Seen(p)']
  BY SeesOne DEF GoesOn
<1> QED BY <1>1, <1>3, <1>4, <1>5

LEMMA UnseenStep ==
    ASSUME NEW p \in Procs, \A q \in Procs \ {p} : op'[q] = op[q],
           Seen(p)' = Seen(p), UNCHANGED items
    PROVE  UNCHANGED Map!vars
<1>1. Stored' = Stored
  BY StoredStays
<1>2. Sees' = Sees
  BY SeesOne DEF Sees
<1> QED BY <1>1, <1>2 DEF Map!vars, Sees

\* A step that takes nothing from the vault, or is of a listing.
LEMMA Stutters ==
    ASSUME NEW p \in Procs, GoesOn(p), UNCHANGED items,
           Calling(p) => Took(p)' = Took(p), op[p].kind \in {"none", "load", "save", "delete", "list"}
    PROVE  UNCHANGED Map!vars
<1>1. Seen(p)' = Seen(p)
  BY DEF Seen, GoesOn, Calling
<1> QED BY <1>1, UnseenStep DEF GoesOn

LEMMA LoadMoment ==
    ASSUME NEW p \in Procs, GoesOn(p), op[p].kind = "load", UNCHANGED items,
           Took(p) = None, Took(p)' = Stored[op[p].name]
    PROVE  Map!Next
<1>1. Stored' = Stored
  BY StoredStays
<1>2. /\ Sees[p].kind = "load" /\ Sees[p].took = None
      /\ Sees' = [Sees EXCEPT ![p].took = Stored[Sees[p].name]]
  BY SeesTaking DEF Calling
<1>3. Map!Load(p)
  BY <1>1, <1>2 DEF Map!Load, Map!Pending, Map!Takes, Sees
<1> QED BY <1>3 DEF Map!Next

LEMMA FailMoment ==
    ASSUME NEW p \in Procs, GoesOn(p), Calling(p), UNCHANGED items,
           Took(p) = None, Took(p)' = Failed
    PROVE  Map!Next
<1>1. Stored' = Stored
  BY StoredStays
<1>2. /\ Sees[p].kind # "none" /\ Sees[p].took = None
      /\ Sees' = [Sees EXCEPT ![p].took = Failed]
  BY SeesTaking DEF Calling
<1>3. Sees[p] # Map!Idle
  BY <1>2 DEF Map!Idle
<1>4. Map!Fails(p)
  BY <1>1, <1>2, <1>3 DEF Map!Fails, Map!Takes, Sees
<1> QED BY <1>4 DEF Map!Next

LEMMA ChangeMoment ==
    ASSUME NEW p \in Procs, GoesOn(p), Took(p) = None, Took(p)' \in {OK, Failed},
           \/ op[p].kind = "save" /\ Stored' = [Stored EXCEPT ![op[p].name] = op[p].val]
           \/ op[p].kind = "delete" /\ Stored' = [Stored EXCEPT ![op[p].name] = Absent]
    PROVE  Map!Next
<1>1. /\ Sees[p].kind = op[p].kind /\ Sees[p].took = None
      /\ Sees[p].name = op[p].name /\ Sees[p].val = op[p].val
      /\ \/ Sees' = [Sees EXCEPT ![p].took = OK]
         \/ Sees' = [Sees EXCEPT ![p].took = Failed]
  BY SeesTaking DEF Calling
<1>2. CASE op[p].kind = "save" /\ Stored' = [Stored EXCEPT ![op[p].name] = op[p].val]
  <2>1. Map!Save(p)
    BY <1>1, <1>2 DEF Map!Save, Map!Changes, Map!Pending, Map!Takes, Sees
  <2> QED BY <2>1 DEF Map!Next
<1>3. CASE op[p].kind = "delete" /\ Stored' = [Stored EXCEPT ![op[p].name] = Absent]
  <2>1. Map!Delete(p)
    BY <1>1, <1>3 DEF Map!Delete, Map!Changes, Map!Pending, Map!Takes, Sees
  <2> QED BY <2>1 DEF Map!Next
<1> QED BY <1>2, <1>3

----------------------------------------------------------------------------
\* Each step of a call, and its moment.
LEMMA GoesGoesOn ==
    ASSUME TypeOK, NEW p \in Procs, NEW k, Goes(p, k),
           k.kind = op[p].kind, k.name = op[p].name, k.val = op[p].val
    PROVE  GoesOn(p) /\ op'[p] = k
BY DEF TypeOK, Goes, GoesOn

LEMMA AnswerTakes ==
    ASSUME TypeOK, NEW p \in Procs, NEW r \in Answers, Answer(p, r)
    PROVE  GoesOn(p) /\ Took(p)' = (IF r = Duplicate THEN Failed ELSE r)
<1>1. GoesOn(p) /\ op'[p] = Answered(p, r)
  BY AnsweredFields, GoesGoesOn DEF Answer
<1>2. op'[p].pc = "done" /\ op'[p].got = r
  BY <1>1, AnsweredFields
<1> QED BY <1>1, <1>2 DEF Took, At

\* The answers are told apart.
LEMMA Distinct ==
    /\ OK # Duplicate /\ Failed \in Answers /\ OK \in Answers /\ Absent \in Answers
    /\ Duplicate \in Answers /\ Absent # Foreign /\ Absent # Duplicate
    /\ Failed # None /\ OK # None /\ Absent # None
    /\ \A c \in Content : c # Duplicate /\ c # None /\ Reading(c) \in Answers
    /\ \A x \in Values : Reading(x) = x
BY OnePasswordAssumption DEF Answers, Content, Reading

\* A call that fails before its moment.
LEMMA FailsUnseen ==
    ASSUME TypeOK, NEW p \in Procs, Answer(p, Failed), UNCHANGED items, Took(p) = None,
           op[p].pc # "idle"
    PROVE  Map!Next \/ UNCHANGED Map!vars
<1>1. GoesOn(p) /\ Took(p)' = Failed
  BY AnswerTakes, Distinct
<1>2. op[p].kind \in {"load", "save", "delete", "list"}
  BY DEF TypeOK, Op, OpOK
<1> QED BY <1>1, <1>2, FailMoment, Stutters DEF Calling

LEMMA StartSteps ==
    ASSUME TypeOK, NEW p \in Procs, Starts(p)
    PROVE  Map!Next \/ UNCHANGED Map!vars
<1>1. PICK n \in Names : \/ Start(p, "load", n, None)
                         \/ \E x \in Values : Start(p, "save", n, x)
                         \/ Start(p, "delete", n, None)
                         \/ Start(p, "list", n, None)
  BY DEF Starts
<1>2. PICK kind \in {"load", "save", "delete", "list"}, x \in Values \cup {None} :
         Start(p, kind, n, x) /\ (IF kind = "save" THEN x \in Values ELSE x = None)
  BY <1>1
<1> DEFINE k == [Idle EXCEPT !.kind = kind, !.name = n, !.val = x]
           kf == [k EXCEPT !.pc = "found", !.id = Memo(p)[n]]
           kl == [k EXCEPT !.pc = "list"]
<1>3. kf.kind = kind /\ kf.name = n /\ kf.val = x /\ kf.pc = "found"
  BY IdleType DEF Op
<1>4. kl.kind = kind /\ kl.name = n /\ kl.val = x /\ kl.pc = "list"
  BY IdleType DEF Op
<1>5. Goes(p, kf) \/ Goes(p, kl)
  BY <1>2 DEF Start
<1> HIDE DEF kf, kl
<1>6. /\ \A q \in Procs \ {p} : op'[q] = op[q]
      /\ op'[p].kind = kind /\ op'[p].name = n /\ op'[p].val = x
      /\ op'[p].pc \in {"found", "list"}
  BY <1>3, <1>4, <1>5 DEF Goes, TypeOK
<1>7. UNCHANGED items
  BY <1>2 DEF Start
<1>8. op[p].kind = "none"
  BY <1>2 DEF Start, At, TypeOK, OpOK
<1>9. Seen(p) = [kind |-> "none", name |-> None, val |-> None, took |-> None]
  BY <1>8 DEF Seen
<1>10. CASE kind = "list"
  <2>1. Seen(p)' = Seen(p)
    BY <1>6, <1>9, <1>10 DEF Seen
  <2> QED BY <1>6, <1>7, <2>1, UnseenStep
<1>11. CASE kind # "list"
  <2> DEFINE c == [kind |-> kind, name |-> n, val |-> x, took |-> None]
  <2>1. Took(p)' = None
    BY <1>6 DEF Took, At
  <2>2. Seen(p)' = c
    BY <1>2, <1>6, <1>11, <2>1 DEF Seen
  <2>3. c \in Map!Calls
    BY <1>2, <1>11 DEF Map!Calls
  <2>4. Sees[p] = Map!Idle
    BY <1>9 DEF Sees, Map!Idle
  <2>5. Stored' = Stored
    BY <1>7, StoredStays
  <2> HIDE DEF c
  <2>6. Sees' = [Sees EXCEPT ![p] = c]
    BY <1>6, <2>2, SeesOne
  <2>7. Map!Invoke(p)
    BY <2>3, <2>4, <2>5, <2>6 DEF Map!Invoke, Sees
  <2> QED BY <2>7 DEF Map!Next
<1> QED BY <1>10, <1>11

\* A load or a delete that lists no item has its moment at the listing.
LEMMA ListItemsSteps ==
    ASSUME TypeOK, NEW p \in Procs, ListItems(p)
    PROVE  Map!Next \/ UNCHANGED Map!vars
<1> DEFINE t == [i \in Ids |-> IF Exists(i) THEN items[i].title ELSE None]
           k == [op[p] EXCEPT !.pc = "listed", !.titles = t]
<1>1. op[p] \in Op /\ OpOK(op[p]) /\ op[p].pc = "list" /\ Goes(p, k) /\ UNCHANGED items
  BY DEF TypeOK, ListItems, At
<1>2. /\ k.pc = "listed" /\ k.titles = t /\ k.name = op[p].name /\ k.kind = op[p].kind
      /\ k.val = op[p].val
  BY <1>1 DEF Op
<1>3. \A i \in Ids : t[i] = IF Exists(i) THEN items[i].title ELSE None
  OBVIOUS
<1> HIDE DEF t, k
<1>4. GoesOn(p) /\ op'[p] = k
  BY <1>1, <1>2, GoesGoesOn
<1>5. op[p].name \in Names /\ op[p].name # None
  BY <1>1, OnePasswordAssumption DEF OpOK
<1>6. Listed(p, op[p].name)' = Titled(op[p].name)
  <2>1. {i \in Ids : t[i] = op[p].name} = Titled(op[p].name)
    BY <1>3, <1>5 DEF Titled
  <2> QED BY <1>2, <1>4, <2>1 DEF Listed
<1>7. Took(p) = None
  BY <1>1 DEF Took, At
<1>8. Took(p)' = IF Titled(op[p].name) = {} /\ op[p].kind = "load" THEN Absent
                 ELSE IF Titled(op[p].name) = {} /\ op[p].kind = "delete" THEN OK
                 ELSE None
  BY <1>2, <1>4, <1>6 DEF Took, At
<1>9. CASE Titled(op[p].name) = {} /\ op[p].kind = "load"
  <2>1. Took(p)' = Stored[op[p].name]
    BY <1>5, <1>8, <1>9, FreeTitle
  <2> QED BY <1>1, <1>4, <1>7, <1>9, <2>1, LoadMoment
<1>10. CASE Titled(op[p].name) = {} /\ op[p].kind = "delete"
  <2>1. Took(p)' = OK
    BY <1>8, <1>10
  <2>2. Stored[op[p].name] = Absent /\ Stored' = Stored
    BY <1>1, <1>5, <1>10, FreeTitle, StoredStays
  <2>3. Stored' = [Stored EXCEPT ![op[p].name] = Absent]
    BY <1>5, <2>2 DEF Stored
  <2> QED BY <1>4, <1>7, <1>10, <2>1, <2>3, ChangeMoment
<1>11. CASE ~(Titled(op[p].name) = {} /\ op[p].kind \in {"load", "delete"})
  <2>1. Took(p)' = Took(p)
    BY <1>7, <1>8, <1>11
  <2> QED BY <1>1, <1>4, <2>1, Stutters DEF Op
<1> QED BY <1>9, <1>10, <1>11

LEMMA ResolvesSteps ==
    ASSUME TypeOK, NEW p \in Procs,
           ResolvesToNone(p) \/ ResolvesToOne(p) \/ ResolvesToMany(p)
    PROVE  Map!Next \/ UNCHANGED Map!vars
<1>1. /\ op[p] \in Op /\ op[p].pc = "listed" /\ UNCHANGED items
      /\ op[p].kind \in {"load", "save", "delete"}
  BY DEF TypeOK, OpOK, Op, ResolvesToNone, ResolvesToOne, ResolvesToMany, Resolving, At
<1>2. CASE ResolvesToNone(p)
  <2>1. Listed(p, op[p].name) = {}
    BY <1>2 DEF ResolvesToNone
  <2>2. CASE op[p].kind = "load"
    <3>1. Answer(p, Absent) /\ Took(p) = Absent
      BY <1>1, <1>2, <2>1, <2>2 DEF ResolvesToNone, Took, At
    <3> QED BY <1>1, <3>1, AnswerTakes, Distinct, Stutters
  <2>3. CASE op[p].kind = "delete"
    <3>1. Answer(p, OK) /\ Took(p) = OK
      BY <1>1, <1>2, <2>1, <2>3 DEF ResolvesToNone, Took, At
    <3> QED BY <1>1, <3>1, AnswerTakes, Distinct, Stutters
  <2>4. CASE op[p].kind = "save"
    <3> DEFINE k == [op[p] EXCEPT !.pc = "create", !.titles = NoTitles]
    <3>1. /\ k.pc = "create" /\ k.kind = op[p].kind /\ k.name = op[p].name
          /\ k.val = op[p].val /\ Goes(p, k)
      BY <1>1, <1>2, <2>4 DEF Op, ResolvesToNone
    <3> HIDE DEF k
    <3>2. GoesOn(p) /\ op'[p] = k
      BY <3>1, GoesGoesOn
    <3>3. Took(p) = None /\ Took(p)' = None
      BY <1>1, <2>4, <3>1, <3>2 DEF Took, At
    <3> QED BY <1>1, <3>2, <3>3, Stutters
  <2> QED BY <1>1, <2>2, <2>3, <2>4
<1>3. CASE ResolvesToOne(p)
  <2> DEFINE k(i) == [op[p] EXCEPT !.pc = "found", !.id = i, !.titles = NoTitles]
  <2>1. PICK i \in Ids : /\ Listed(p, op[p].name) = {i}
                         /\ Answer(p, Failed) \/ Goes(p, k(i))
    BY <1>3 DEF ResolvesToOne
  <2>2. /\ k(i).pc = "found" /\ k(i).kind = op[p].kind /\ k(i).name = op[p].name
        /\ k(i).val = op[p].val
    BY <1>1 DEF Op
  <2>3. Took(p) = None
    BY <1>1, <2>1 DEF Took, At
  <2> HIDE DEF k
  <2>4. CASE Goes(p, k(i))
    <3>1. GoesOn(p) /\ op'[p] = k(i)
      BY <2>2, <2>4, GoesGoesOn
    <3>2. Took(p)' = None
      BY <2>2, <3>1 DEF Took, At
    <3> QED BY <1>1, <2>3, <3>1, <3>2, Stutters
  <2> QED BY <1>1, <2>1, <2>3, <2>4, FailsUnseen
<1>4. CASE ResolvesToMany(p)
  <2>1. Took(p) = None
    BY <1>1, <1>4 DEF ResolvesToMany, Several, Took, At
  <2>2. Answer(p, Failed) \/ Answer(p, Duplicate)
    BY <1>4 DEF ResolvesToMany
  <2>3. GoesOn(p) /\ Took(p)' = Failed
    BY <2>2, AnswerTakes, Distinct
  <2> QED BY <1>1, <2>1, <2>3, FailMoment DEF Calling
<1> QED BY <1>2, <1>3, <1>4

\* A load has its moment at the Get.
LEMMA GetSteps ==
    ASSUME TypeOK, Inductive, NEW p \in Procs, Get(p)
    PROVE  Map!Next \/ UNCHANGED Map!vars
<1>1. /\ op[p] \in Op /\ op[p].pc = "found" /\ op[p].id \in Ids /\ op[p].name \in Names
      /\ op[p].kind \in {"load", "save"} /\ UNCHANGED items /\ Exists(op[p].id)
  BY DEF TypeOK, OpOK, Op, Get, At
<1>2. op[p].id \in Titled(op[p].name)
  BY <1>1 DEF Inductive, CallIsRight, HandleIsRight, Right, Titled
<1>3. Took(p) = None
  BY <1>1 DEF Took, At
<1>4. CASE op[p].kind = "load"
  <2> DEFINE r == Reading(items[op[p].id].content)
  <2>1. Answer(p, r)
    BY <1>4 DEF Get
  <2>2. Stored[op[p].name] = r
    BY <1>1, <1>2, TakenTitle DEF Inductive
  <2>3. r \in Answers /\ r # Duplicate
    BY <1>1, ItemExists, Distinct DEF Reading
  <2> HIDE DEF r
  <2>4. GoesOn(p) /\ Took(p)' = r
    BY <2>1, <2>3, AnswerTakes
  <2> QED BY <1>1, <1>3, <1>4, <2>2, <2>4, LoadMoment
<1>5. CASE op[p].kind = "save"
  <2> DEFINE k == [op[p] EXCEPT !.pc = "put", !.base = items[op[p].id]]
  <2>1. /\ k.pc = "put" /\ k.kind = op[p].kind /\ k.name = op[p].name /\ k.val = op[p].val
        /\ Goes(p, k)
    BY <1>1, <1>5 DEF Op, Get
  <2> HIDE DEF k
  <2>2. GoesOn(p) /\ op'[p] = k
    BY <2>1, GoesGoesOn
  <2>3. Took(p)' = None
    BY <2>1, <2>2 DEF Took, At
  <2> QED BY <1>1, <1>3, <2>2, <2>3, Stutters
<1> QED BY <1>1, <1>4, <1>5

\* A save has its moment at the call that replaces or creates the item.
LEMMA PutSteps ==
    ASSUME TypeOK, Inductive, OneItemPerTitle', NEW p \in Procs, Put(p)
    PROVE  Map!Next
<1>1. /\ op[p] \in Op /\ op[p].pc = "put" /\ op[p].kind = "save" /\ op[p].id \in Ids
      /\ op[p].base \in Item /\ op[p].val \in Values /\ op[p].name \in Names
      /\ Exists(op[p].id)
  BY DEF TypeOK, OpOK, Op, Put, At
<1>2. op[p].base.title = op[p].name /\ items[op[p].id].title = op[p].name
  BY <1>1 DEF Inductive, CallIsRight, HandleIsRight, Right, At
<1> DEFINE w == [op[p].base EXCEPT !.content = op[p].val]
<1>3. w \in Item /\ w.title = op[p].name /\ w.content = op[p].val
  BY <1>1, <1>2 DEF Item, Content
<1>4. items' = [items EXCEPT ![op[p].id] = w]
  BY DEF Put
<1> HIDE DEF w
<1>5. Stored' = [Stored EXCEPT ![op[p].name] = op[p].val]
  <2>1. Reading(w.content) = op[p].val /\ w # Gone
    BY <1>1, <1>3, Distinct, Sentinels
  <2>2. PICK n \in Names, i \in Ids : n = op[p].name /\ i = op[p].id
    BY <1>1
  <2>3. Stored' = [Stored EXCEPT ![n] = IF w = Gone THEN Absent ELSE Reading(w.content)]
    BY <1>2, <1>3, <1>4, <2>2, <2>1, StoredChange DEF Inductive
  <2> QED BY <2>1, <2>2, <2>3
<1>6. Answer(p, OK) \/ Answer(p, Failed)
  BY DEF Put, Applied, Answer
<1>7. GoesOn(p) /\ Took(p)' \in {OK, Failed}
  BY <1>6, AnswerTakes, Distinct
<1>8. Took(p) = None
  BY <1>1 DEF Took, At
<1> QED BY <1>1, <1>5, <1>7, <1>8, ChangeMoment

LEMMA CreateSteps ==
    ASSUME TypeOK, Inductive, OneItemPerTitle', NEW p \in Procs, Create(p)
    PROVE  Map!Next
<1>1. /\ op[p] \in Op /\ op[p].pc = "create" /\ op[p].kind = "save"
      /\ op[p].val \in Values /\ op[p].name \in Names
  BY DEF TypeOK, OpOK, Op, Create, At
<1> DEFINE w == [title |-> op[p].name, content |-> op[p].val]
           k(i) == [op[p] EXCEPT !.pc = "created", !.id = i]
<1>2. PICK i \in Ids : /\ items[i] = Unborn /\ items' = [items EXCEPT ![i] = w]
                       /\ Goes(p, k(i)) \/ Answer(p, Failed)
  BY DEF Create, Applied
<1>3. w \in Item /\ w.title = op[p].name /\ w.content = op[p].val
  BY <1>1 DEF Item, Content
<1>4. /\ k(i).pc = "created" /\ k(i).kind = op[p].kind /\ k(i).name = op[p].name
      /\ k(i).val = op[p].val
  BY <1>1 DEF Op
<1> HIDE DEF w, k
<1>5. Stored' = [Stored EXCEPT ![op[p].name] = op[p].val]
  <2>1. Reading(w.content) = op[p].val /\ w # Gone
    BY <1>1, <1>3, Distinct, Sentinels
  <2>2. PICK n \in Names : n = op[p].name
    BY <1>1
  <2>3. ~Exists(i)
    BY <1>2 DEF Exists
  <2>4. Stored' = [Stored EXCEPT ![n] = IF w = Gone THEN Absent ELSE Reading(w.content)]
    BY <1>2, <1>3, <2>1, <2>2, <2>3, StoredChange DEF Inductive
  <2> QED BY <2>1, <2>2, <2>4
<1>6. GoesOn(p) /\ Took(p)' \in {OK, Failed}
  <2>1. CASE Goes(p, k(i))
    <3>1. GoesOn(p) /\ op'[p] = k(i)
      BY <1>4, <2>1, GoesGoesOn
    <3>2. Took(p)' = OK
      BY <1>4, <3>1 DEF Took, At
    <3> QED BY <3>1, <3>2
  <2>2. CASE Answer(p, Failed)
    BY <2>2, AnswerTakes, Distinct
  <2> QED BY <1>2, <2>1, <2>2
<1>7. Took(p) = None
  BY <1>1 DEF Took, At
<1> QED BY <1>1, <1>5, <1>6, <1>7, ChangeMoment

LEMMA DeleteItemSteps ==
    ASSUME TypeOK, Inductive, OneItemPerTitle', NEW p \in Procs, DeleteItem(p)
    PROVE  Map!Next
<1>1. /\ op[p] \in Op /\ op[p].pc = "found" /\ op[p].kind = "delete" /\ op[p].id \in Ids
      /\ op[p].name \in Names /\ Exists(op[p].id)
      /\ items' = [items EXCEPT ![op[p].id] = Gone]
  BY DEF TypeOK, OpOK, Op, DeleteItem, At
<1>2. items[op[p].id].title = op[p].name
  BY <1>1 DEF Inductive, CallIsRight, HandleIsRight, Right
<1> DEFINE k == [op[p] EXCEPT !.pc = "deleted"]
<1>3. k.pc = "deleted" /\ k.kind = op[p].kind /\ k.name = op[p].name /\ k.val = op[p].val
  BY <1>1 DEF Op
<1>4. Goes(p, k) \/ Answer(p, Failed)
  BY DEF DeleteItem, Applied
<1> HIDE DEF k
<1>5. Stored' = [Stored EXCEPT ![op[p].name] = Absent]
  <2>1. PICK n \in Names, i \in Ids : n = op[p].name /\ i = op[p].id
    BY <1>1
  <2>2. Gone \notin Item
    BY OnePasswordAssumption
  <2>3. PICK w \in Item \cup {Gone} : w = Gone
    OBVIOUS
  <2>4. Stored' = [Stored EXCEPT ![n] = IF w = Gone THEN Absent ELSE Reading(w.content)]
    BY <1>1, <1>2, <2>1, <2>2, <2>3, StoredChange DEF Inductive
  <2> QED BY <2>1, <2>3, <2>4
<1>6. GoesOn(p) /\ Took(p)' \in {OK, Failed}
  <2>1. CASE Goes(p, k)
    <3>1. GoesOn(p) /\ op'[p] = k
      BY <1>3, <2>1, GoesGoesOn
    <3>2. Took(p)' = OK
      BY <1>3, <3>1 DEF Took, At
    <3> QED BY <3>1, <3>2
  <2>2. CASE Answer(p, Failed)
    BY <2>2, AnswerTakes, Distinct
  <2> QED BY <1>4, <2>1, <2>2
<1>7. Took(p) = None
  BY <1>1 DEF Took, At
<1> QED BY <1>1, <1>5, <1>6, <1>7, ChangeMoment

\* The steps that only concern the memo, the failures and the return.
LEMMA RestSteps ==
    ASSUME TypeOK, NEW p \in Procs,
           \/ ListReturns(p) \/ Forget(p) \/ RememberCreated(p) \/ ForgetDeleted(p)
           \/ CallFails(p) \/ Return(p)
    PROVE  Map!Next \/ UNCHANGED Map!vars
<1>1. op[p] \in Op /\ OpOK(op[p])
  BY DEF TypeOK
<1>2. CASE ListReturns(p)
  BY <1>2, AnswerTakes, Distinct, Stutters DEF ListReturns, Calling
<1>3. CASE RememberCreated(p) \/ ForgetDeleted(p)
  <2>1. Answer(p, OK) /\ Took(p) = OK /\ UNCHANGED items
    BY <1>3 DEF RememberCreated, ForgetDeleted, Took, At
  <2> QED BY <1>1, <2>1, AnswerTakes, Distinct, Stutters DEF Op
<1>4. CASE Forget(p)
  <2> DEFINE k == [op[p] EXCEPT !.pc = "list", !.again = TRUE]
  <2>1. /\ k.pc = "list" /\ k.kind = op[p].kind /\ k.name = op[p].name /\ k.val = op[p].val
        /\ Goes(p, k) /\ UNCHANGED items
    BY <1>1, <1>4 DEF Op, Forget
  <2> HIDE DEF k
  <2>2. GoesOn(p) /\ op'[p] = k
    BY <2>1, GoesGoesOn
  <2>3. Took(p) = None /\ Took(p)' = None
    BY <1>4, <2>1, <2>2 DEF Took, At, Forget
  <2> QED BY <1>1, <2>1, <2>2, <2>3, Stutters DEF Op
<1>5. CASE CallFails(p)
  <2> DEFINE k == [op[p] EXCEPT !.pc = "lost"]
  <2>1. op[p].pc \in {"list", "found", "put", "create"} /\ UNCHANGED items
    BY <1>5 DEF CallFails, At
  <2>2. Took(p) = None
    BY <2>1 DEF Took, At
  <2>3. Answer(p, Failed) \/ Goes(p, k)
    BY <1>5 DEF CallFails, AfterFailedGet, AfterFailedList
  <2>4. k.pc = "lost" /\ k.kind = op[p].kind /\ k.name = op[p].name /\ k.val = op[p].val
    BY <1>1 DEF Op
  <2> HIDE DEF k
  <2>5. CASE Goes(p, k)
    <3>1. GoesOn(p) /\ op'[p] = k
      BY <2>4, <2>5, GoesGoesOn
    <3>2. Took(p)' = None
      BY <2>4, <3>1 DEF Took, At
    <3> QED BY <1>1, <2>1, <2>2, <3>1, <3>2, Stutters DEF Op
  <2> QED BY <2>1, <2>2, <2>3, <2>5, FailsUnseen
<1>6. CASE Return(p)
  <2>1. /\ op[p].pc = "done" /\ op[p].got # None /\ UNCHANGED items /\ op'[p] = Idle
        /\ \A q \in Procs \ {p} : op'[q] = op[q]
    BY <1>1, <1>6 DEF Return, At, OpOK, Goes, TypeOK
  <2>2. Seen(p)' = Map!Idle
    BY <2>1 DEF Seen, Idle, Map!Idle
  <2>3. CASE Calling(p)
    <3>1. Took(p) # None
      BY <2>1, Distinct DEF Took, At
    <3>2. Sees[p].took # None
      BY <2>3, <3>1 DEF Sees, Seen, Calling
    <3>3. Sees' = [Sees EXCEPT ![p] = Map!Idle] /\ Stored' = Stored
      BY <2>1, <2>2, SeesOne, StoredStays
    <3>4. Map!Answers(p)
      BY <3>2, <3>3 DEF Map!Answers, Sees
    <3> QED BY <3>4 DEF Map!Next
  <2>4. CASE ~Calling(p)
    <3>1. Seen(p) = Map!Idle
      BY <1>1, <2>4 DEF Calling, Seen, Op, Map!Idle
    <3> QED BY <2>1, <2>2, <3>1, UnseenStep
  <2> QED BY <2>3, <2>4
<1> QED BY <1>2, <1>3, <1>4, <1>5, <1>6

\* What others do to the vault.
LEMMA ElsewhereStep ==
    ASSUME NEW n \in Names, NEW x, UNCHANGED op, Stored' = [Stored EXCEPT ![n] = x],
           x \in {Mangled, Absent} \/ (x \in Values /\ Stored[n] = Absent)
    PROVE  Map!Next
<1>1. Sees' = Sees
  <2>1. ASSUME NEW p \in Procs
        PROVE  Seen(p)' = Seen(p)
    BY DEF Seen, Took, At, Listed
  <2> QED BY <2>1 DEF Sees
<1>2. Map!Elsewhere
  BY <1>1 DEF Map!Elsewhere, Sees
<1> QED BY <1>2 DEF Map!Next

LEMMA OthersSteps ==
    ASSUME TypeOK, Inductive, OneItemPerTitle',
           \/ \E n \in Names, x \in Values : Plant(n, x)
           \/ \E i \in Ids : Trash(i) \/ \E c \in {Foreign, Mangled} : Spoil(i, c)
    PROVE  Map!Next
<1>1. ASSUME NEW n \in Names, NEW x \in Values, Plant(n, x)
      PROVE  Map!Next
  <2> DEFINE w == [title |-> n, content |-> x]
  <2>1. w \in Item /\ w.title = n /\ w.content = x
    BY DEF Item, Content
  <2>2. PICK i \in Ids : items[i] = Unborn /\ items' = [items EXCEPT ![i] = w]
    BY <1>1 DEF Plant
  <2> HIDE DEF w
  <2>3. w # Gone /\ ~Exists(i) /\ Reading(w.content) = x
    BY <2>1, <2>2, Sentinels, Distinct DEF Exists
  <2>4. Stored' = [Stored EXCEPT ![n] = IF w = Gone THEN Absent ELSE Reading(w.content)]
    BY <2>1, <2>2, <2>3, StoredChange DEF Inductive
  <2>5. Stored[n] = Absent
    BY <1>1, FreeTitle DEF Plant
  <2> QED BY <1>1, <2>3, <2>4, <2>5, ElsewhereStep DEF Plant
<1>2. ASSUME NEW i \in Ids, Trash(i)
      PROVE  Map!Next
  <2>1. PICK n \in Names : n = items[i].title
    BY <1>2, ItemExists DEF Trash
  <2>2. PICK w \in Item \cup {Gone} : w = Gone
    OBVIOUS
  <2>3. w \notin Item
    BY <2>2, OnePasswordAssumption
  <2>4. Stored' = [Stored EXCEPT ![n] = IF w = Gone THEN Absent ELSE Reading(w.content)]
    BY <1>2, <2>1, <2>2, <2>3, StoredChange DEF Inductive, Trash
  <2>5. Stored' = [Stored EXCEPT ![n] = Absent]
    BY <2>2, <2>4
  <2> QED BY <1>2, <2>5, ElsewhereStep DEF Trash
<1>3. ASSUME NEW i \in Ids, NEW c \in {Foreign, Mangled}, Spoil(i, c)
      PROVE  Map!Next
  <2> DEFINE w == [items[i] EXCEPT !.content = c]
  <2>1. PICK n \in Names : n = items[i].title
    BY <1>3, ItemExists DEF Spoil
  <2>2. items[i] \in Item
    BY <1>3, ItemExists DEF Spoil
  <2>3. w \in Item /\ w.title = n /\ w.content = c
    BY <2>1, <2>2 DEF Item, Content
  <2>4. items' = [items EXCEPT ![i] = w]
    BY <1>3 DEF Spoil
  <2> HIDE DEF w
  <2>5. w # Gone /\ Reading(w.content) \in {Mangled, Absent}
    BY <2>3, Sentinels DEF Reading
  <2>6. Stored' = [Stored EXCEPT ![n] = IF w = Gone THEN Absent ELSE Reading(w.content)]
    BY <1>3, <2>1, <2>3, <2>4, <2>5, StoredChange DEF Inductive, Spoil
  <2> QED BY <1>3, <2>5, <2>6, ElsewhereStep DEF Spoil
<1> QED BY <1>1, <1>2, <1>3

LEMMA MapStep ==
    ASSUME TypeOK, Inductive, ~Overlap, Next
    PROVE  Map!Next \/ UNCHANGED Map!vars
<1>1. OneItemPerTitle'
  BY InductiveStep DEF Inductive
<1>2. ASSUME NEW p \in Procs, ProcNext(p)
      PROVE  Map!Next \/ UNCHANGED Map!vars
  BY <1>1, <1>2, StartSteps, ListItemsSteps, ResolvesSteps, GetSteps, PutSteps, CreateSteps,
     DeleteItemSteps, RestSteps DEF ProcNext
<1> QED BY <1>1, <1>2, OthersSteps DEF Next

LEMMA MapStutter ==
    ASSUME UNCHANGED vars
    PROVE  UNCHANGED Map!vars
<1>1. Stored' = Stored
  BY StoredStays DEF vars
<1>2. ASSUME NEW p \in Procs
      PROVE  Seen(p)' = Seen(p)
  BY DEF vars, Seen, Took, At, Listed
<1> QED BY <1>1, <1>2 DEF Map!vars

LEMMA MapInit == Init => Map!Init
<1> SUFFICES ASSUME Init
             PROVE  Map!Init
  OBVIOUS
<1>1. Stored = [n \in Names |-> Absent]
  <2>1. \A n \in Names : Titled(n) = {}
    BY DEF Init, Titled, Exists
  <2>2. \A n \in Names : Stored[n] = Absent
    BY <2>1, FreeTitle
  <2>3. Stored = [n \in Names |-> Stored[n]]
    BY DEF Stored
  <2> QED BY <2>2, <2>3
<1>2. \A p \in Procs : Seen(p) = Map!Idle
  BY DEF Init, Seen, Idle, Map!Idle
<1> QED BY <1>1, <1>2 DEF Map!Init

\* While writes do not overlap, every Load, Save and Delete acts at one moment on a map
\* from titles to records, whatever fails and whoever else edits the vault: what
\* backend.Backend promises to the cache and the store, and backend/mem does.
THEOREM CallsActAtOneMoment ==
    ASSUME ~Overlap
    PROVE  Spec => ActsAtOneMoment
<1>1. Init => Map!Init
  BY MapInit
<1>2. TypeOK /\ Inductive /\ [Next]_vars => [Map!Next]_(Map!vars)
  BY MapStep, MapStutter
<1> QED BY <1>1, <1>2, TypeCorrect, InductiveInvariant, PTL DEF Spec, ActsAtOneMoment, Map!Spec
=============================================================================
