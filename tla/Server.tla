------------------------------- MODULE Server -------------------------------
(***************************************************************************)
(* server: one request of the API, from its arrival to its answer: the     *)
(* transport checks, the identity, the ACL check with its audit entry, the *)
(* call of the store and the HTTP status.  Several requests run at once    *)
(* and share the audit writer; any of them can lose its caller.            *)
(*                                                                         *)
(* The store answers as modules VersionStore and StoreCache have it; kept  *)
(* here is what of its answers the handlers tell apart, and which secrets  *)
(* exist.  Module Lifecycle says when requests arrive and when the audit   *)
(* log is closed.                                                          *)
(***************************************************************************)
EXTENDS Naturals

CONSTANTS Requests, \* goroutines that serve requests
          Names,    \* secrets
          Whole,    \* what a listing and a flush are about, the ACL's "*"
          Asked,    \* the operations that each of them is asked for, of which secrets
          Stored,   \* secrets that the vault holds at first
          NoOne

Named == {"put", "create-version", "activate"} \* they refuse the empty name
Writes == Named \cup {"delete", "delete-version"}
Operations == Writes \cup {"list", "get", "conditional", "get-version", "info", "flush"}

ASSUME ServerAssumption == /\ Whole \notin Names /\ Stored \subseteq Names
                           /\ NoOne \notin Requests
                           /\ Asked \in [Requests -> SUBSET (Operations \X (Names \cup {Whole}))]
                           /\ \A r \in Requests : \A a \in Asked[r] :
                                  a[2] = Whole <=> a[1] \in {"list", "flush"}

VARIABLES req,       \* what each goroutine is doing
          auditor,   \* holder of auditMu
          auditOpen, \* the audit log's file is open
          secrets    \* the secrets that exist

serverVars == <<req, auditor, auditOpen, secrets>>

Statuses == {0, 200, 304, 400, 403, 404, 412, 500, 503} \* 0: nothing is sent
Results == {"ok", "denied", "notfound", "unchanged", "claimed", "invalid", "cancelled",
            "unavailable", "error"}

Request == [pc      : {"idle", "arrived", "known", "auditing", "granted", "listing", "fresh", "done"},
            kind    : Operations,
            name    : Names \cup {Whole},
            grants  : SUBSET (Names \cup {Whole}), \* where the caller may do this
            gone    : BOOLEAN,                     \* the caller has left
            entry   : {"none", "denied", "allowed"}, \* ghost: its entry in the audit log
            applied : BOOLEAN,                     \* ghost: the write is in the vault
            todo    : SUBSET Names,                \* a listing: names still to load,
            out     : SUBSET Names,                \* what it will answer with, and
            kept    : SUBSET Names,                \* ghost: what it must not leave out
            status  : Statuses]

Idle == [pc |-> "idle", kind |-> "list", name |-> Whole, grants |-> {}, gone |-> FALSE,
         entry |-> "none", applied |-> FALSE, todo |-> {}, out |-> {}, kept |-> {}, status |-> 0]

ServerTypeOK == /\ req \in [Requests -> Request]
                /\ auditor \in Requests \cup {NoOne}
                /\ \A r \in Requests : req[r].pc = "auditing" <=> auditor = r
                /\ auditOpen \in BOOLEAN
                /\ secrets \subseteq Names

ServerInit == /\ req = [r \in Requests |-> Idle]
              /\ auditor = NoOne /\ auditOpen = FALSE
              /\ secrets = Stored

----------------------------------------------------------------------------
At(r, pc) == req[r].pc = pc
Becomes(r, k) == req' = [req EXCEPT ![r] = k]
BecomesOneOf(r, ks) == \E k \in ks : Becomes(r, k)
Quietly == UNCHANGED <<auditor, auditOpen, secrets>>

\* serveJSON's switch: what is not the store's decision is a failure ...
\* (the same that takes every context.Canceled for the caller's own)
FailureStatusSilent(gone, result) == IF gone \/ result = "cancelled" THEN 0
                                     ELSE IF result = "unavailable" THEN 503 ELSE 500
FailureStatus(gone, result) == IF gone THEN 0
                               ELSE IF result \in {"cancelled", "unavailable"} THEN 503 ELSE 500

\* ... and the decisions come first, whether the caller is still there or not.
StatusOf(gone, result) == CASE result = "ok"        -> 200
                            [] result = "denied"    -> 403
                            [] result = "notfound"  -> 404
                            [] result = "unchanged" -> 304
                            [] result = "invalid"   -> 400
                            [] result = "claimed"   -> 412
                            [] OTHER                -> FailureStatus(gone, result)

Failures == {"unavailable", "error", "cancelled"}

\* A caller may leave at any time; whether it did shows when a failure is answered.
\* It need not have, for a context.Canceled may come from somebody else's context.
Gone(result) == IF result \in Failures THEN BOOLEAN ELSE {FALSE}

Sent(k, status) == [k EXCEPT !.pc = "done", !.status = status]
Answers(k, result) == {Sent([k EXCEPT !.gone = gone], StatusOf(gone, result)) : gone \in Gone(result)}

----------------------------------------------------------------------------
(* Before the handler *)

Arrive(r, kind, name) ==
    /\ At(r, "idle") /\ <<kind, name>> \in Asked[r]
    /\ Becomes(r, [Idle EXCEPT !.pc = "arrived", !.kind = kind, !.name = name])
    /\ Quietly

\* The wrong method or type, or no anti-CSRF header.
Refuse(r) == /\ At(r, "arrived")
             /\ \E status \in IF req[r].kind = "flush" THEN {403} ELSE {400, 403} :
                    Becomes(r, Sent(req[r], status))
             /\ Quietly

\* getIdentity: WhoIs names the caller and its grants ...
Identify(r) == /\ At(r, "arrived")
               /\ \E g \in SUBSET (IF req[r].kind = "list" THEN Names ELSE {req[r].name}) :
                      Becomes(r, [req[r] EXCEPT !.pc = "known", !.grants = g])
               /\ Quietly

\* ... or does not answer, or answers with nobody.
IdentifyFails(r) == /\ At(r, "arrived")
                    /\ \E result \in IF req[r].kind = "flush" THEN {"unavailable"}
                                                             ELSE {"unavailable", "error"} :
                           BecomesOneOf(r, Answers(req[r], result))
                    /\ Quietly

BadBody(r) == /\ At(r, "known") /\ req[r].kind # "flush"
              /\ Becomes(r, Sent(req[r], 400))
              /\ Quietly

\* An empty name, and version 0 of CreateVersion: before the ACL check, as setec.
BadArguments(r) == /\ At(r, "known") /\ req[r].kind \in Named
                   /\ \E result \in {"error"} \cup (IF req[r].kind = "create-version"
                                                    THEN {"invalid"} ELSE {}) :
                          BecomesOneOf(r, Answers(req[r], result))
                   /\ Quietly

----------------------------------------------------------------------------
(* The ACL check and its audit entry *)

\* A listing is always allowed, and filtered; a flush needs delete on "*".
Allowed(k) == k.kind = "list" \/ k.name \in k.grants

\* A conditional get is audited when it is denied, or has a fresh value to return.
AuditsFirst(k) == k.kind = "conditional" => ~Allowed(k)

Unaudited(r) == /\ At(r, "known") /\ ~AuditsFirst(req[r])
                /\ Becomes(r, [req[r] EXCEPT !.pc = "granted"])
                /\ Quietly

\* logAccess: auditMu ...
LockAudit(r) == /\ \/ At(r, "known") /\ AuditsFirst(req[r])
                   \/ At(r, "fresh")
                /\ auditor = NoOne
                /\ auditor' = r
                /\ Becomes(r, [req[r] EXCEPT !.pc = "auditing"])
                /\ UNCHANGED <<auditOpen, secrets>>

\* An audit log that cannot be written does not stop what is allowed.
AfterFailedAuditOpen(k) == IF Allowed(k) THEN {[k EXCEPT !.pc = "granted"]} ELSE Answers(k, "denied")
AfterFailedAudit(k) == Answers(k, IF Allowed(k) THEN "error" ELSE "denied")

AfterAudit(k) == IF ~Allowed(k)                 THEN Answers(k, "denied")
                 ELSE IF k.kind = "conditional" THEN Answers(k, "ok")
                 ELSE {[k EXCEPT !.pc = "granted"]}

\* The early return of an error keeps the mutex.
ReleasedIfWritten(written) == IF written THEN NoOne ELSE auditor
Released(written) == NoOne

\* ... and the entry, which fails on a full disk or a log that was closed.
WriteAudit(r, written) ==
    /\ At(r, "auditing")
    /\ written => auditOpen
    /\ BecomesOneOf(r, IF written
           THEN AfterAudit([req[r] EXCEPT !.entry = IF Allowed(req[r]) THEN "allowed" ELSE "denied"])
           ELSE AfterFailedAudit(req[r]))
    /\ auditor' = Released(written)
    /\ UNCHANGED <<auditOpen, secrets>>

----------------------------------------------------------------------------
(* The calls of the store *)

\* A conditional get has a fresh value; everything else is answered.
AfterStore(k, result) == IF k.kind = "conditional" /\ result = "ok"
                         THEN {[k EXCEPT !.pc = "fresh"]}
                         ELSE Answers(k, result)

Read(r) ==
    LET k == req[r]
        Found == CASE k.kind = "conditional" -> {"ok", "unchanged"}
                   [] k.kind = "get-version" -> {"ok", "notfound"}
                   [] OTHER                  -> {"ok"}
    IN  /\ At(r, "granted") /\ k.kind \in {"get", "conditional", "get-version", "info"}
        /\ \E result \in Failures \cup (IF k.name \in secrets THEN Found ELSE {"notfound"}) :
               BecomesOneOf(r, AfterStore(k, result))
        /\ Quietly

\* Put, CreateVersion, Activate, Delete and DeleteVersion that are not applied.
WriteRefused(r) ==
    LET k == req[r]
        Refusals == CASE k.name \in secrets /\ k.kind = "create-version" -> {"claimed"}
                      [] k.kind \in {"activate", "delete-version"}       -> {"notfound"}
                      [] OTHER                                           -> {}
    IN  /\ At(r, "granted") /\ k.kind \in Writes
        /\ \E result \in Failures \cup Refusals : BecomesOneOf(r, Answers(k, result))
        /\ Quietly

\* The same when they are, also if the caller is told of a failure
\* (module StoreCache: SaveLost, DeleteLost).
Write(r) ==
    LET k == req[r]
    IN  /\ At(r, "granted") /\ k.kind \in Writes
        /\ k.kind \in {"activate", "delete-version"} => k.name \in secrets
        /\ secrets' = CASE k.kind \in {"put", "create-version"} -> secrets \cup {k.name}
                        [] k.kind = "delete"                    -> secrets \ {k.name}
                        [] OTHER                                -> secrets
        /\ \E result \in {"ok", "unavailable", "cancelled"} :
               \E answer \in Answers([k EXCEPT !.applied = TRUE], result) :
                   req' = [q \in Requests |-> IF q = r THEN answer
                                              ELSE [req[q] EXCEPT !.kept = @ \cap secrets']]
        /\ UNCHANGED <<auditor, auditOpen>>

\* store.List: the names that the filter admits, loaded one by one.
ListNames(r) ==
    /\ At(r, "granted") /\ req[r].kind = "list"
    /\ LET admitted == secrets \cap req[r].grants
       IN  Becomes(r, [req[r] EXCEPT !.pc = "listing", !.todo = admitted, !.kept = admitted])
    /\ Quietly

\* An outage is skipped like everything else ...
EndsListingNever(result) == FALSE
\* ... or everything else ends the listing like an outage.
EndsListingAlways(result) == result \in Failures
EndsListing(result) == result = "unavailable"

\* One name: listed, raced with a delete, or not loaded.  The listing owes what it
\* leaves out in an outage, but not what fails by itself.
ListOne(r, n) ==
    LET k == req[r]
        rest == [k EXCEPT !.todo = @ \ {n}]
        Skipped(result) == IF result = "unavailable" THEN rest ELSE [rest EXCEPT !.kept = @ \ {n}]
    IN  /\ At(r, "listing") /\ n \in k.todo
        /\ \/ n \in secrets /\ Becomes(r, [rest EXCEPT !.out = @ \cup {n}])
           \/ n \notin secrets /\ Becomes(r, rest)
           \/ \E result \in Failures :
                  BecomesOneOf(r, IF EndsListing(result) THEN Answers(k, result) ELSE {Skipped(result)})
        /\ Quietly

ListEnds(r) == /\ At(r, "listing") /\ req[r].todo = {}
               /\ BecomesOneOf(r, Answers(req[r], "ok"))
               /\ Quietly

ListFails(r) == /\ At(r, "granted") /\ req[r].kind = "list"
                /\ \E result \in Failures : BecomesOneOf(r, Answers(req[r], result))
                /\ Quietly

\* AdminGate's next: modules Cache and Warmer have what a flush does.
Flush(r) == /\ At(r, "granted") /\ req[r].kind = "flush"
            /\ Becomes(r, Sent(req[r], 200))
            /\ Quietly

Finish(r) == At(r, "done") /\ Becomes(r, Idle) /\ Quietly

----------------------------------------------------------------------------
\* What a goroutine does by itself; LockAudit may have to wait for another one.
Serve(r) == \/ Refuse(r) \/ Identify(r) \/ IdentifyFails(r) \/ BadBody(r) \/ BadArguments(r)
            \/ Unaudited(r) \/ \E written \in BOOLEAN : WriteAudit(r, written)
            \/ Read(r) \/ WriteRefused(r) \/ Write(r)
            \/ ListNames(r) \/ ListFails(r) \/ (\E n \in Names : ListOne(r, n)) \/ ListEnds(r)
            \/ Flush(r) \/ Finish(r)

----------------------------------------------------------------------------
\* Nothing is applied and nothing is answered with that the ACL did not allow and
\* the audit log does not hold, whatever fails on the way and wherever the log is
\* closed under a request (checkAndLog: "no un-audited" access; get audits a fresh
\* conditional value before it answers with it).
NothingUnaudited ==
    \A r \in Requests :
        req[r].applied \/ req[r].out # {} \/ req[r].status = 200
            => req[r].entry = "allowed" /\ Allowed(req[r])

\* What a client may conclude: 200 is said of what was done, every other answer but
\* 503 of what was not, and a caller that is still there is answered, also when the
\* call was cancelled by somebody else, and never with the silence that net/http turns
\* into an empty 200 (serveJSON's mapping; TestForeignCancellationIs503).
StatusTellsTheTruth ==
    \A r \in Requests : At(r, "done") =>
        /\ req[r].status = 200 /\ req[r].kind \in Writes => req[r].applied
        /\ req[r].applied => req[r].status \in {200, 503} \/ req[r].gone
        /\ ~req[r].gone => req[r].status # 0

\* A listing that is answered holds what its caller may see, nothing else, and all of
\* it that was there all along but for what failed to load by itself: deletes in the
\* middle of the walk take nothing else with them, an outage ends it, and "one
\* unreadable record must not take /api/list down" (store.List).
ListingIsComplete ==
    \A r \in Requests : req[r].kind = "list" =>
        /\ req[r].out \subseteq req[r].grants
        /\ req[r].status = 200 => req[r].kept \subseteq req[r].out
        /\ req[r].todo # {} => req[r].status # 500
=============================================================================
