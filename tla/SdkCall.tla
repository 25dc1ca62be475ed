------------------------------ MODULE SdkCall ------------------------------
(***************************************************************************)
(* backend/onepassword: what surrounds every call of the 1Password SDK.    *)
(* Its WASM core is one per process, may be corrupted or hang, and is only *)
(* replaced with the process: call retries what may be retried, bounds     *)
(* every call with a deadline, counts the timeouts, and exits for systemd  *)
(* to start a process with a fresh core.                                   *)
(***************************************************************************)
EXTENDS Integers, FiniteSets

CONSTANTS Callers,      \* goroutines that call the backend
          Patient,      \* those whose context is never cancelled: the reads of the cache
          MaxTries,     \* runs of a read in one runOp (4 in the code)
          FaultRetries, \* runOps that a fault of a read is worth besides the first
          MaxTimeouts,  \* maxConsecTimeouts
          Recycling     \* TRUE iff maxAge > 0

ASSUME SdkCallAssumption == /\ IsFiniteSet(Callers)
                            /\ Patient \subseteq Callers
                            /\ MaxTries \in Nat \ {0}
                            /\ FaultRetries \in Nat
                            /\ MaxTimeouts \in Nat \ {0}
                            /\ Recycling \in BOOLEAN

VARIABLES proc,           \* the process: "starting", "up" or "down"
          core,           \* the WASM core: "ok", "wedged" or "hung"
          stale,          \* recycleAt has passed
          consecTimeouts, \* Backend.consecTimeouts
          call,           \* the call each goroutine is in
          lost            \* ghost: timeouts of live callers since the core hung

vars == <<proc, core, stale, consecTimeouts, call, lost>>

Kinds == {"read", "write"}

\* "refused" is the quota, "fault" a WASM fault, "error" every other failure.
Answers == {"ok", "error", "refused", "fault"}
Results == Answers \cup {"timeout"}

Call == [pc      : {"idle", "running", "backoff", "decide"},
         kind    : Kinds,
         gone    : BOOLEAN,           \* the caller's context is cancelled
         tries   : 0 .. MaxTries,     \* runs in this runOp
         attempt : 0 .. FaultRetries, \* runOps before this one
         runs    : Nat,               \* ghost: runs of the SDK call in all
         seen    : SUBSET Results,    \* ghost: what they ended with
         res     : Results]

Idle == [pc |-> "idle", kind |-> "read", gone |-> FALSE, tries |-> 0, attempt |-> 0,
         runs |-> 0, seen |-> {}, res |-> "ok"]

TypeOK == /\ proc \in {"starting", "up", "down"}
          /\ core \in {"ok", "wedged", "hung"}
          /\ stale \in BOOLEAN
          /\ consecTimeouts \in 0 .. MaxTimeouts - 1
          /\ call \in [Callers -> Call]
          /\ lost \in Nat
          /\ proc # "up" => \A c \in Callers : call[c] = Idle

\* A process has a core of its own and starts with nothing counted.
Blank == /\ core' = "ok" /\ stale' = FALSE /\ consecTimeouts' = 0 /\ lost' = 0
         /\ call' = [c \in Callers |-> Idle]

Init == /\ proc = "starting" /\ core = "ok" /\ stale = FALSE
        /\ consecTimeouts = 0 /\ lost = 0
        /\ call = [c \in Callers |-> Idle]

----------------------------------------------------------------------------
(* The process *)

\* start retries what may pass for as long as it takes ...
Connect == /\ proc = "starting"
           /\ proc' = "up"
           /\ UNCHANGED <<core, stale, consecTimeouts, call, lost>>

\* ... and fails on a vault that does not exist and on a bad credential.
ConnectRefused == /\ proc = "starting"
                  /\ proc' = "down"
                  /\ UNCHANGED <<core, stale, consecTimeouts, call, lost>>

\* os.Exit: whatever the other goroutines are doing ends with the process.
Exit == proc' = "down" /\ Blank

Restart == /\ proc = "down"
           /\ proc' = "starting"
           /\ UNCHANGED <<core, stale, consecTimeouts, call, lost>>

\* The core is corrupted, or stops answering while it holds the SDK's lock.
Spoil == /\ proc = "up" /\ core = "ok"
         /\ core' \in {"wedged", "hung"}
         /\ UNCHANGED <<proc, stale, consecTimeouts, call, lost>>

Age == /\ proc = "up" /\ Recycling /\ ~stale
       /\ stale' = TRUE
       /\ UNCHANGED <<proc, core, consecTimeouts, call, lost>>

----------------------------------------------------------------------------
(* call, in the order of its steps *)

At(c, pc) == call[c].pc = pc
Becomes(c, k) == call' = [call EXCEPT ![c] = k]
Ends(c) == Becomes(c, Idle)

\* A run of the SDK call in a goroutine of its own (raceCtx).
Running(k) == [k EXCEPT !.pc = "running", !.runs = @ + 1]

\* recycleIfStale, before anything else.
Recycle(c) == proc = "up" /\ At(c, "idle") /\ stale /\ Exit

Begin(c, kind) ==
    /\ proc = "up" /\ At(c, "idle") /\ ~stale
    /\ Becomes(c, Running([Idle EXCEPT !.kind = kind, !.tries = 1]))
    /\ UNCHANGED <<proc, core, stale, consecTimeouts, lost>>

\* The request's context is cancelled; the SDK's own context is not.
Disconnect(c) ==
    /\ c \notin Patient /\ ~At(c, "idle") /\ ~call[c].gone
    /\ Becomes(c, [call[c] EXCEPT !.gone = TRUE])
    /\ UNCHANGED <<proc, core, stale, consecTimeouts, lost>>

Possible == CASE core = "ok"     -> Answers
              [] core = "wedged" -> {"fault"}
              [] core = "hung"   -> {}

RetriesInside(k, r) == k.kind = "read" /\ r = "error" /\ k.tries < MaxTries

Ended(k, r) == [k EXCEPT !.pc = IF RetriesInside(k, r) THEN "backoff" ELSE "decide",
                         !.res = r, !.seen = @ \cup {r}]

\* The run ends: runOp retries an error of a read, and returns anything else.
Answer(c) ==
    /\ At(c, "running")
    /\ \E r \in Possible : Becomes(c, Ended(call[c], r))
    /\ UNCHANGED <<proc, core, stale, consecTimeouts, lost>>

Again(c) ==
    /\ At(c, "backoff")
    /\ Becomes(c, [Running(call[c]) EXCEPT !.tries = @ + 1])
    /\ UNCHANGED <<proc, core, stale, consecTimeouts, lost>>

\* A deadline that does not reach into a run.
WaitsOutBackoffOnly(c) == At(c, "backoff")
Waits(c) == call[c].pc \in {"running", "backoff"}

\* The deadline of the whole call; a run under way is abandoned.
Timeout(c) ==
    /\ Waits(c)
    /\ Becomes(c, [call[c] EXCEPT !.pc = "decide", !.res = "timeout", !.seen = @ \cup {"timeout"}])
    /\ UNCHANGED <<proc, core, stale, consecTimeouts, lost>>

\* The caller left meanwhile: nothing is retried, counted or taken for corruption.
CallerLeft(c) ==
    /\ At(c, "decide") /\ call[c].gone
    /\ Ends(c)
    /\ UNCHANGED <<proc, core, stale, consecTimeouts, lost>>

Decides(c, r) == At(c, "decide") /\ ~call[c].gone /\ call[c].res = r

\* A budget that writes have too.
FaultBudgetOfAll(k) == FaultRetries
FaultBudget(k) == IF k.kind = "read" THEN FaultRetries ELSE 0

FaultAgain(c) ==
    /\ Decides(c, "fault") /\ call[c].attempt < FaultBudget(call[c])
    /\ Becomes(c, [Running(call[c]) EXCEPT !.tries = 1, !.attempt = @ + 1])
    /\ UNCHANGED <<proc, core, stale, consecTimeouts, lost>>

FaultExits(c) ==
    /\ Decides(c, "fault") /\ call[c].attempt >= FaultBudget(call[c])
    /\ Exit

Succeeds(c) ==
    /\ Decides(c, "ok")
    /\ consecTimeouts' = 0
    /\ Ends(c)
    /\ UNCHANGED <<proc, core, stale, lost>>

\* classify: the caller is told that the backend is unavailable.
Fails(c) ==
    /\ Decides(c, "error") \/ Decides(c, "refused")
    /\ Ends(c)
    /\ UNCHANGED <<proc, core, stale, consecTimeouts, lost>>

\* One timeout too many.
HungAfterOneMore(n) == n > MaxTimeouts
Hung(n) == n >= MaxTimeouts

TimesOut(c) ==
    /\ Decides(c, "timeout")
    /\ IF Hung(consecTimeouts + 1)
         THEN Exit
         ELSE /\ consecTimeouts' = consecTimeouts + 1
              /\ lost' = IF core = "hung" THEN lost + 1 ELSE lost
              /\ Ends(c)
              /\ UNCHANGED <<proc, core, stale>>

----------------------------------------------------------------------------
Decide(c) == \/ CallerLeft(c) \/ FaultAgain(c) \/ FaultExits(c)
             \/ Succeeds(c) \/ Fails(c) \/ TimesOut(c)
Step(c) == Answer(c) \/ Again(c) \/ Timeout(c) \/ Decide(c)

Next == \/ Connect \/ ConnectRefused \/ Restart \/ Spoil \/ Age
        \/ \E c \in Callers : \/ Recycle(c) \/ Disconnect(c) \/ Step(c)
                              \/ \E kind \in Kinds : Begin(c, kind)

Spec == Init /\ [][Next]_vars

\* The warmer lists and reads for as long as the process is up, every call has a
\* deadline, and goroutines run.
Calls(c) == Recycle(c) \/ Begin(c, "read")
FairSpec == /\ Spec
            /\ \A c \in Callers : WF_vars(Step(c))
            /\ \A c \in Patient : WF_vars(Calls(c))

----------------------------------------------------------------------------
\* The two layers of retries stay within one budget whatever the runs of a call
\* end with: a write (Create, Put, Delete) runs once, a fault is worth one more
\* runOp of a read, and nothing runs again after the quota refused it or its
\* deadline passed (call and runOp).
RetriesStayInBudget == \A c \in Callers :
    LET k == call[c]
    IN  /\ k.kind = "write" => k.runs <= 1
        /\ k.runs <= MaxTries * (FaultRetries + 1)
        /\ k.seen \cap {"refused", "timeout"} # {} => k.pc = "decide" /\ k.res \in {"refused", "timeout"}
        /\ "fault" \in k.seen /\ k.res # "fault" => k.attempt > 0

\* The count of timeouts is shared, and a success that was answered before the
\* core hung may reset it afterwards: each goroutine can still do that only once,
\* so the requests that a hung core costs before the process exits are bounded.
BrownoutIsBounded ==
    proc = "up" => lost <= (MaxTimeouts - 1) * Cardinality(Callers)

\* A core that is corrupted, hung or past its age does not stay: its process ends,
\* whatever the other goroutines do and however soon their callers leave, as long as
\* one caller waits (call: "exit for a clean restart instead of browning out forever").
CoreIsReplaced == (core # "ok" \/ stale) ~> proc = "down"
=============================================================================
