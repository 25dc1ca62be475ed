---------------------------- MODULE OnePassword ----------------------------
(***************************************************************************)
(* backend/onepassword: records kept as the items of a 1Password vault.    *)
(*                                                                         *)
(* The vault knows items by ID; titles are not unique.  An instance finds  *)
(* the item of a name in its memo, or else in a listing of the vault, and  *)
(* then acts on the ID in calls of their own.  In between anything may     *)
(* happen to the vault and to the memo: other goroutines of the instance,  *)
(* another instance over the same vault, a human in the 1Password app.     *)
(*                                                                         *)
(* Every SDK call is atomic in the vault; it may fail without effect, and  *)
(* one that changes an item may be applied and yet fail.  The retries of   *)
(* reads inside Backend.call are part of the one call here.                *)
(***************************************************************************)
CONSTANTS Names,      \* titles
          Values,     \* records
          Ids,        \* item IDs; bound: no item is created once all are used
          Instances,  \* processes of ts1p
          Procs,      \* the goroutines that call the backend
          Home,       \* the instance of each goroutine
          Failing,    \* TRUE iff calls may fail for reasons of their own
          Overlap,    \* TRUE iff instances write at the same time
          Foreign,    \* the content of an item without the ts1p-meta field
          Mangled,    \* the content of one whose ts1p-meta is unreadable
          Absent,     \* the answer ErrNotFound
          Duplicate,  \* the answer errDuplicateTitles
          Failed,     \* any other failure
          OK, None, Unborn, Gone

Content == Values \cup {Foreign, Mangled}

VARIABLES items,  \* the vault
          memo,   \* Backend.ids of each instance
          op,     \* the call each goroutine is in
          seen    \* ghost: what the vault held for its name while it ran

vars == <<items, memo, op, seen>>

Item == [title : Names, content : Content]

ASSUME OnePasswordAssumption ==
    /\ Home \in [Procs -> Instances]
    /\ Failing \in BOOLEAN /\ Overlap \in BOOLEAN
    /\ None \notin Ids \cup Names \cup Values \cup Item
    /\ Foreign \notin Values
    /\ Item \cap {Unborn, Gone} = {} /\ Unborn # Gone
    /\ Content \cap {None, OK, Absent, Duplicate, Failed} = {}
    /\ {OK, None} \cap {Absent, Duplicate, Failed} = {} /\ OK # None /\ Absent # Duplicate

Op == [kind   : {"none", "load", "save", "delete", "list"},
       pc     : {"idle", "list", "listed", "found", "lost", "put", "create",
                 "created", "deleted", "done"},
       name   : Names \cup {None},
       val    : Values \cup {None},          \* what a save is to write
       id     : Ids \cup {None},
       titles : [Ids -> Names \cup {None}],  \* the listing
       again  : BOOLEAN,                     \* the memo or the Get proved wrong
       base   : Item \cup {None},            \* the item an update starts from
       got    : Content \cup {None, OK, Absent, Duplicate, Failed}]

NoTitles == [i \in Ids |-> None]

Idle == [kind |-> "none", pc |-> "idle", name |-> None, val |-> None, id |-> None,
         titles |-> NoTitles, again |-> FALSE, base |-> None, got |-> None]

\* What a call knows where it is.
OpOK(k) == /\ k.pc = "idle" <=> k.kind = "none"
           /\ k.pc # "idle" => k.name \in Names
           /\ k.kind = "save" => k.val \in Values
           /\ k.pc = "lost" => k.kind \in {"load", "save"}
           /\ k.pc = "found" => k.kind \in {"load", "save", "delete"} /\ k.id # None
           /\ k.pc = "put" => k.kind = "save" /\ k.id # None /\ k.base # None
           /\ k.pc = "create" => k.kind = "save"
           /\ k.pc = "created" => k.kind = "save" /\ k.id # None
           /\ k.pc = "deleted" => k.kind = "delete" /\ k.id # None
           /\ k.pc = "done" => k.got # None

TypeOK == /\ items \in [Ids -> Item \cup {Unborn, Gone}]
          /\ memo \in [Instances -> [Names -> Ids \cup {None}]]
          /\ op \in [Procs -> Op]
          /\ \A p \in Procs : OpOK(op[p])
          /\ seen \in [Procs -> SUBSET (Content \cup {Absent, Duplicate})]

Init == /\ items = [i \in Ids |-> Unborn]
        /\ memo = [h \in Instances |-> [n \in Names |-> None]]
        /\ op = [p \in Procs |-> Idle]
        /\ seen = [p \in Procs |-> {}]

----------------------------------------------------------------------------
At(p, pc) == op[p].pc = pc

Exists(i) == items[i] \notin {Unborn, Gone}

Titled(n) == {i \in Ids : Exists(i) /\ items[i].title = n}

Several(S) == \E i, j \in S : i # j

\* What the vault holds for a title.
View(n) == LET T == Titled(n)
           IN  IF T = {} THEN {Absent}
               ELSE {items[i].content : i \in T} \cup {d \in {Duplicate} : Several(T)}

\* recordFromItem: an item without the field is not one of ours.
Reading(c) == IF c = Foreign THEN Absent ELSE c

Goes(p, k) == op' = [op EXCEPT ![p] = k]
Answered(p, r) == [Idle EXCEPT !.kind = op[p].kind, !.pc = "done", !.name = op[p].name,
                               !.val = op[p].val, !.got = r]
Answer(p, r) == Goes(p, Answered(p, r))

Memo(p) == memo[Home[p]]
SetMemo(p, m) == memo' = [memo EXCEPT ![Home[p]] = m]

Writing(p) == op[p].kind \in {"save", "delete"}

\* The mutex of store.Store, and writes routed through one instance at a time.
MayWrite(p) == \A q \in Procs : Home[q] = Home[p] \/ ~Overlap => ~Writing(q)

\* A call begins, with findID's look at the memo.  List has no name of its own;
\* the one it carries stands for nothing.
Start(p, kind, n, x) ==
    /\ At(p, "idle")
    /\ kind \in {"save", "delete"} => MayWrite(p)
    /\ LET k == [Idle EXCEPT !.kind = kind, !.name = n, !.val = x]
       IN  Goes(p, IF kind # "list" /\ Memo(p)[n] # None
                     THEN [k EXCEPT !.pc = "found", !.id = Memo(p)[n]]
                     ELSE [k EXCEPT !.pc = "list"])
    /\ UNCHANGED <<items, memo>>

\* items.List
ListItems(p) ==
    /\ At(p, "list")
    /\ Goes(p, [op[p] EXCEPT !.pc = "listed",
                             !.titles = [i \in Ids |-> IF Exists(i) THEN items[i].title ELSE None]])
    /\ UNCHANGED <<items, memo>>

\* A Save that takes a failed listing for one without the item.
AfterFailedListCreating(p) == IF op[p].kind = "save" /\ op[p].again
                                THEN Goes(p, [op[p] EXCEPT !.pc = "create"])
                                ELSE Answer(p, Failed)
\* Whoever asked for the listing gives up.
AfterFailedList(p) == Answer(p, Failed)

Listed(p, n) == {i \in Ids : op[p].titles[i] = n}

\* rememberIDs: the memo becomes the listing, less the titles that it has twice.
Remember(p) ==
    SetMemo(p, [n \in Names |-> IF \E i \in Ids : Listed(p, n) = {i}
                                  THEN CHOOSE i \in Ids : Listed(p, n) = {i}
                                  ELSE None])

Resolving(p) == At(p, "listed") /\ op[p].kind # "list" /\ Remember(p) /\ UNCHANGED items

\* List ends with the memo.
ListReturns(p) ==
    /\ At(p, "listed")
    /\ op[p].kind = "list"
    /\ Remember(p)
    /\ Answer(p, OK)
    /\ UNCHANGED items

\* The three outcomes of resolveID.
ResolvesToNone(p) ==
    /\ Resolving(p)
    /\ Listed(p, op[p].name) = {}
    /\ CASE op[p].kind = "load"   -> Answer(p, Absent)
         [] op[p].kind = "save"   -> Goes(p, [op[p] EXCEPT !.pc = "create", !.titles = NoTitles])
         [] op[p].kind = "delete" -> Answer(p, OK)

\* After a failed Get, a load tries another item once, a save gives up.
ResolvesToOne(p) ==
    /\ Resolving(p)
    /\ \E i \in Ids :
          /\ Listed(p, op[p].name) = {i}
          /\ IF op[p].again /\ (op[p].kind = "save" \/ op[p].id = i)
               THEN Answer(p, Failed)
               ELSE Goes(p, [op[p] EXCEPT !.pc = "found", !.id = i, !.titles = NoTitles])

ResolvesToMany(p) ==
    /\ Resolving(p)
    /\ Several(Listed(p, op[p].name))
    /\ Answer(p, IF op[p].kind = "save" /\ op[p].again THEN Failed ELSE Duplicate)

----------------------------------------------------------------------------
\* items.Get, for a load and for an update.
Get(p) ==
    /\ At(p, "found")
    /\ op[p].kind # "delete"
    /\ Exists(op[p].id)
    /\ IF op[p].kind = "load"
         THEN Answer(p, Reading(items[op[p].id].content))
         ELSE Goes(p, [op[p] EXCEPT !.pc = "put", !.base = items[op[p].id]])
    /\ UNCHANGED <<items, memo>>

\* A Get that takes every failure for a missing item, and one that overlooks it.
AfterFailedGetAbsent(p) == IF op[p].kind = "load" THEN Answer(p, Absent)
                                                  ELSE Goes(p, [op[p] EXCEPT !.pc = "create"])
AfterFailedGetIgnored(p) == IF op[p].kind = "load" THEN Answer(p, Failed)
                                                   ELSE Goes(p, [op[p] EXCEPT !.pc = "put"])
\* The item may be gone: ask again, but only once.
AfterFailedGet(p) == IF op[p].again THEN Answer(p, Failed)
                                    ELSE Goes(p, [op[p] EXCEPT !.pc = "lost"])

\* forgetID, before the listing that follows.
Forget(p) ==
    /\ At(p, "lost")
    /\ SetMemo(p, [Memo(p) EXCEPT ![op[p].name] = None])
    /\ Goes(p, [op[p] EXCEPT !.pc = "list", !.again = TRUE])
    /\ UNCHANGED items

\* A write whose answer was lost and that is made again.
AppliedAgain(p, k) == Goes(p, k) \/ (Failing /\ Goes(p, op[p]))
\* The answer to a call that changed an item may be lost.
Applied(p, k) == Goes(p, k) \/ (Failing /\ Answer(p, Failed))

\* items.Put replaces the item that Get returned but for the two fields.
Put(p) ==
    /\ At(p, "put")
    /\ Exists(op[p].id)
    /\ items' = [items EXCEPT ![op[p].id] = [op[p].base EXCEPT !.content = op[p].val]]
    /\ Applied(p, Answered(p, OK))
    /\ UNCHANGED memo

Create(p) ==
    /\ At(p, "create")
    /\ \E i \in Ids :
          /\ items[i] = Unborn
          /\ items' = [items EXCEPT ![i] = [title |-> op[p].name, content |-> op[p].val]]
          /\ Applied(p, [op[p] EXCEPT !.pc = "created", !.id = i])
    /\ UNCHANGED memo

\* rememberID
RememberCreated(p) ==
    /\ At(p, "created")
    /\ SetMemo(p, [Memo(p) EXCEPT ![op[p].name] = op[p].id])
    /\ Answer(p, OK)
    /\ UNCHANGED items

DeleteItem(p) ==
    /\ At(p, "found")
    /\ op[p].kind = "delete"
    /\ Exists(op[p].id)
    /\ items' = [items EXCEPT ![op[p].id] = Gone]
    /\ Applied(p, [op[p] EXCEPT !.pc = "deleted"])
    /\ UNCHANGED memo

ForgetDeleted(p) ==
    /\ At(p, "deleted")
    /\ SetMemo(p, [Memo(p) EXCEPT ![op[p].name] = None])
    /\ Answer(p, OK)
    /\ UNCHANGED items

\* Any call may fail.  The SDK refuses to act on an item that is gone, and may
\* refuse to update one that has changed.  A failed delete keeps its memo.
CallFails(p) ==
    /\ \/ Failing /\ op[p].pc \in {"list", "found", "put", "create"}
       \/ At(p, "found") /\ ~Exists(op[p].id)
       \/ At(p, "put") /\ items[op[p].id] # op[p].base
    /\ CASE At(p, "list")                             -> AfterFailedList(p)
         [] At(p, "found") /\ op[p].kind # "delete"    -> AfterFailedGet(p)
         [] OTHER                                      -> Answer(p, Failed)
    /\ UNCHANGED <<items, memo>>

Return(p) == At(p, "done") /\ Goes(p, Idle) /\ UNCHANGED <<items, memo>>

----------------------------------------------------------------------------
\* Another instance that writes in between creates an item, in one step here.
Plant(n, x) ==
    /\ Titled(n) = {}
    /\ \A p \in Procs : ~Writing(p)
    /\ \E i \in Ids : /\ items[i] = Unborn
                     /\ items' = [items EXCEPT ![i] = [title |-> n, content |-> x]]
    /\ UNCHANGED <<memo, op>>

\* Another instance or a human removes an item; a human spoils its fields.
Trash(i) ==
    /\ Exists(i)
    /\ items' = [items EXCEPT ![i] = Gone]
    /\ UNCHANGED <<memo, op>>

Spoil(i, c) ==
    /\ Exists(i)
    /\ items' = [items EXCEPT ![i].content = c]
    /\ UNCHANGED <<memo, op>>

Starts(p) == \E n \in Names :
                \/ Start(p, "load", n, None)
                \/ \E x \in Values : Start(p, "save", n, x)
                \/ Start(p, "delete", n, None)
                \/ Start(p, "list", n, None)

ProcNext(p) == \/ Starts(p)
               \/ ListItems(p) \/ ListReturns(p)
               \/ ResolvesToNone(p) \/ ResolvesToOne(p) \/ ResolvesToMany(p)
               \/ Get(p) \/ Forget(p) \/ Put(p)
               \/ Create(p) \/ RememberCreated(p)
               \/ DeleteItem(p) \/ ForgetDeleted(p)
               \/ CallFails(p) \/ Return(p)

\* The ghost: what each goroutine that is in a call might have been told.
Watch == seen' = [p \in Procs |-> IF op'[p].pc = "idle" THEN {}
                                  ELSE seen[p] \cup View(op[p].name)']

Next == /\ \/ \E p \in Procs : ProcNext(p)
           \/ \E n \in Names, x \in Values : Plant(n, x)
           \/ \E i \in Ids : Trash(i) \/ \E c \in {Foreign, Mangled} : Spoil(i, c)
        /\ Watch

Spec == Init /\ [][Next]_vars

----------------------------------------------------------------------------
AnswerIsCurrent(p) ==
    At(p, "done") /\ op[p].got # Failed =>
        CASE op[p].kind = "load"   -> op[p].got \in {Reading(c) : c \in seen[p]}
          [] op[p].kind = "save"   -> op[p].got = OK => op[p].val \in seen[p]
          [] op[p].kind = "delete" -> op[p].got = OK => Absent \in seen[p]
          [] OTHER                 -> TRUE

\* Every call answers as the vault did at some moment while it ran: a load with
\* the record, or the absence, or the ambiguity of its title, a save after its
\* record was there, a delete after the title was free.  No failure of a call and
\* no stale memo is ever taken for an answer (onepassword.go Load, Save, Delete).
AnswersAreCurrent == \A p \in Procs : AnswerIsCurrent(p)

\* No title is ever given to two items: no failed, repeated or stale call of one
\* instance creates an item that exists (onepassword.go Save, create).
OneItemPerTitle == \A n \in Names : ~Several(Titled(n))

\* Why they hold while no two writes overlap.  An ID in a memo, a call or a listing
\* is of an item that had that title, and has it unless it is gone.
Right(i, n) == items[i] # Unborn /\ (Exists(i) => items[i].title = n)

MemoIsRight == \A h \in Instances, n \in Names : memo[h][n] # None => Right(memo[h][n], n)

HandleIsRight(p) ==
    /\ op[p].pc \in {"found", "put", "created", "deleted"} => Right(op[p].id, op[p].name)
    /\ At(p, "put") => op[p].base.title = op[p].name

ListingIsRight(p) == At(p, "listed") =>
    /\ \A i \in Ids : op[p].titles[i] # None => Right(i, op[p].titles[i])
    /\ Listed(p, op[p].name) = {} => Absent \in seen[p]
    /\ Several(Listed(p, op[p].name)) => Duplicate \in seen[p]

EffectIsSeen(p) == /\ At(p, "created") => op[p].val \in seen[p]
                   /\ At(p, "deleted") => Absent \in seen[p]

\* Nobody else creates while a save is under way, so its listing stays complete.
SaveKnowsTheVault(p) == op[p].kind = "save" =>
    /\ At(p, "listed") => \A i \in Ids : Exists(i) => op[p].titles[i] # None
    /\ At(p, "create") => Titled(op[p].name) = {}

CallIsRight(p) == /\ AnswerIsCurrent(p) /\ HandleIsRight(p) /\ ListingIsRight(p)
                  /\ EffectIsSeen(p) /\ SaveKnowsTheVault(p)

OneWriter == \A p, q \in Procs : Writing(p) /\ Writing(q) => p = q

\* The inductive invariant.
Inductive == /\ OneItemPerTitle
             /\ MemoIsRight
             /\ \A p \in Procs : CallIsRight(p)
             /\ OneWriter

----------------------------------------------------------------------------
(* The vault of items is a map from titles to records, to whoever calls it *)

\* The record of a title, while no title has two items.
Stored == [n \in Names |-> Reading(CHOOSE c \in View(n) : TRUE)]

\* What the call of p has taken from the vault, once nothing can change it any more.  A
\* load or a delete that lists no item of its title has it from the listing.
Took(p) == CASE At(p, "done")                          -> IF op[p].got = Duplicate THEN Failed
                                                          ELSE op[p].got
             [] op[p].pc \in {"created", "deleted"}     -> OK
             [] At(p, "listed") /\ Listed(p, op[p].name) = {}
                                /\ op[p].kind = "load"   -> Absent
             [] At(p, "listed") /\ Listed(p, op[p].name) = {}
                                /\ op[p].kind = "delete" -> OK
             [] OTHER                                  -> None

\* A list tells more than the map holds, and is no call here.
Seen(p) == IF op[p].kind \in {"none", "list"}
             THEN [kind |-> "none", name |-> None, val |-> None, took |-> None]
             ELSE [kind |-> op[p].kind, name |-> op[p].name, val |-> op[p].val,
                   took |-> Took(p)]

Map == INSTANCE Backend WITH vault <- Stored, call <- [p \in Procs |-> Seen(p)]

\* Every Load, Save and Delete takes effect at one moment while it runs, or not at all:
\* through the memo, the listing, the Get and the calls that change an item, with
\* failures before and after each, and with other users of the vault, it behaves like
\* the map of backend/mem (onepassword.go Load, Save, Delete; mem.go: "the reference
\* the differential conformance test compares the 1Password backend against").
ActsAtOneMoment == Map!Spec

\* backend.Backend: "Deleting a missing secret is not an error."
DeletingMissingIsNoError ==
    \A p \in Procs : At(p, "done") /\ op[p].kind = "delete" /\ seen[p] = {Absent}
                        => op[p].got = OK
=============================================================================
