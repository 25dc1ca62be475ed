----------------------------- MODULE Lifecycle -----------------------------
(***************************************************************************)
(* cmd/ts1p: the process around the server.  serve opens what it needs in  *)
(* order, with a defer for each; serves; and is stopped by a signal, by    *)
(* the end of its listener, or by the backend, which exits on a bad core   *)
(* (module SdkCall).  A signal lets the requests under way finish within   *)
(* a grace period, then the defers close everything, last opened first.    *)
(***************************************************************************)
EXTENDS Server, Sequences, SequencesExt

CONSTANT Configs \* the configurations that a process is started with

Modes == {"dev", "service", "tls"} \* chooseServeMode
Config == [mode : Modes, warm : BOOLEAN, debug : BOOLEAN]

ASSUME LifecycleAssumption == Configs \subseteq {c \in Config : c.mode = "dev" => ~c.warm /\ ~c.debug}

VARIABLES cfg,
          phase,     \* where serve is
          defers,    \* what serve has opened and will close
          signalled, \* SIGTERM has come
          drain,     \* where shutdownOnDone is
          graceOver, \* shutdownGrace has passed
          warmer,    \* the warmer's goroutine
          wcancelled,\* wcancel has been called
          failed     \* ghost: serve ended with an error

processVars == <<phase, defers, drain, graceOver, warmer, wcancelled, failed>>
lifeVars == <<cfg, processVars, signalled>>
vars == <<serverVars, lifeVars>>

Resources == {"backend", "tsnet", "audit", "debug", "warmer"}
StartUp == {"backend", "tsnet", "audit", "debug", "warmer", "listen"}

TypeOK == /\ ServerTypeOK
          /\ cfg \in Configs
          /\ phase \in StartUp \cup {"down", "serving", "closing"}
          /\ ToSet(defers) \subseteq Resources /\ IsInjective(defers)
          /\ {signalled, graceOver, wcancelled, failed} \subseteq BOOLEAN
          /\ drain \in {"none", "port80", "main", "done"}
          /\ warmer \in {"off", "running", "stopped"}
          /\ auditOpen => Contains(defers, "audit")

Init == /\ ServerInit
        /\ cfg \in Configs
        /\ phase = "down" /\ defers = <<>>
        /\ signalled = FALSE /\ drain = "none" /\ graceOver = FALSE
        /\ warmer = "off" /\ wcancelled = FALSE /\ failed = FALSE

----------------------------------------------------------------------------
(* Start-up.  A step that takes a context fails once a signal came. *)

Opens(from, what, to) == /\ phase = from
                         /\ defers' = defers \o what
                         /\ phase' = to
                         /\ UNCHANGED <<cfg, signalled, drain, graceOver, wcancelled, failed>>

Start == /\ phase = "down"
         /\ phase' = "backend"
         /\ UNCHANGED <<serverVars, cfg, defers, signalled, drain, graceOver, warmer, wcancelled, failed>>

\* buildBackend, then the tsnet server, which is closed also if it does not come up.
\* The mem backend of --dev starts empty.
BuildBackend == /\ Opens("backend", <<"backend", "tsnet">>, "tsnet")
                /\ signalled => cfg.mode = "dev"
                /\ secrets' = IF cfg.mode = "dev" THEN {} ELSE secrets
                /\ UNCHANGED <<req, auditor, auditOpen, warmer>>

Up == ~signalled /\ Opens("tsnet", <<>>, "audit") /\ UNCHANGED <<serverVars, warmer>>

OpenAudit == /\ Opens("audit", <<"audit">>, "debug")
             /\ auditOpen' = TRUE
             /\ UNCHANGED <<req, auditor, secrets, warmer>>

ServeDebugListener == /\ Opens("debug", IF cfg.debug THEN <<"debug">> ELSE <<>>, "warmer")
                      /\ UNCHANGED <<serverVars, warmer>>

StartWarmer == /\ Opens("warmer", IF cfg.warm THEN <<"warmer">> ELSE <<>>, "listen")
               /\ warmer' = IF cfg.warm THEN "running" ELSE "off"
               /\ UNCHANGED serverVars

Listen == Opens("listen", <<>>, "serving") /\ UNCHANGED <<serverVars, warmer>>

\* An error return, the invalid configurations at the top of serve included.
StartFails == /\ phase \in StartUp \ {"warmer"}
              /\ phase = "debug" => cfg.debug
              /\ phase' = "closing" /\ failed' = TRUE
              /\ UNCHANGED <<serverVars, cfg, defers, signalled, drain, graceOver, warmer, wcancelled>>

----------------------------------------------------------------------------
(* Serving and shutting down *)

Signal == /\ phase # "down" /\ ~signalled
          /\ signalled' = TRUE
          /\ UNCHANGED <<serverVars, cfg, processVars>>

Quiet == \A r \in Requests : At(r, "idle")
Accepting == drain \in {"none", "port80"}

\* shutdownOnDone: serveTLS has the server of port 80 shut down first, within
\* the same grace period, while the other one still accepts.
Drains(to) == /\ drain' = to
              /\ UNCHANGED <<serverVars, cfg, phase, defers, signalled, warmer, wcancelled, failed>>

DrainBegins == /\ phase = "serving" /\ signalled /\ drain = "none"
               /\ Drains(IF cfg.mode = "tls" THEN "port80" ELSE "main")
               /\ UNCHANGED graceOver

Port80Drained == phase = "serving" /\ drain = "port80" /\ Drains("main") /\ UNCHANGED graceOver

\* Shutdown returns when no request is left, or with the grace period.
MainDrained == /\ phase = "serving" /\ drain = "main"
               /\ Quiet \/ graceOver
               /\ Drains("done")
               /\ UNCHANGED graceOver

GraceEnds == /\ phase = "serving" /\ drain \in {"port80", "main"} /\ ~graceOver
             /\ graceOver' = TRUE
             /\ Drains(drain)

\* http.ErrServerClosed comes as soon as Shutdown has closed the listener.
DrainedAtOnce == drain \in {"main", "done"}
Drained == drain = "done"

\* From here on nothing waits for shutdownOnDone, which goes by itself.
Returns == /\ phase = "serving"
           /\ phase' = "closing" /\ drain' = "none"
           /\ UNCHANGED <<serverVars, cfg, defers, signalled, warmer, wcancelled>>

ServeReturns == Returns /\ Drained /\ UNCHANGED <<graceOver, failed>>

\* An http.ErrServerClosed is taken for a failure too.
ListenerFailsOrCloses == drain # "done"
\* Serve returns another error: nothing waits for the requests.
ListenerFails == Accepting
ServeFails == Returns /\ ListenerFails /\ failed' = TRUE /\ graceOver' = FALSE

----------------------------------------------------------------------------
(* The defers, and the end of the process *)

Closes(what) == /\ phase = "closing" /\ defers # <<>> /\ Last(defers) = what
                /\ defers' = Front(defers)
                /\ UNCHANGED <<cfg, phase, signalled, drain, graceOver, warmer, wcancelled, failed>>

Wcancel == /\ phase = "closing" /\ defers # <<>> /\ Last(defers) = "warmer" /\ ~wcancelled
           /\ wcancelled' = TRUE
           /\ UNCHANGED <<serverVars, cfg, phase, defers, signalled, drain, graceOver, warmer, failed>>

\* wctx: of the signal's context alone.
WarmerCancelledBySignal == signalled
WarmerCancelled == signalled \/ wcancelled

\* Run returns at its next look at wctx, after the call it is in (module Warmer).
WarmerReturns == /\ warmer = "running" /\ WarmerCancelled
                 /\ warmer' = "stopped"
                 /\ UNCHANGED <<serverVars, cfg, phase, defers, signalled, drain, graceOver,
                                wcancelled, failed>>

\* wcancel without Wait.
WarmerWaitedForNever == wcancelled
WarmerWaitedFor == wcancelled /\ warmer = "stopped"

CloseWarmer == Closes("warmer") /\ WarmerWaitedFor /\ UNCHANGED serverVars
StopDebug == Closes("debug") /\ UNCHANGED serverVars
CloseAudit == Closes("audit") /\ auditOpen' = FALSE /\ UNCHANGED <<req, auditor, secrets>>

\* The connections end with tsnet; the cache and the backend have nothing to close.
CloseTsnet == Closes("tsnet") /\ UNCHANGED serverVars
CloseBackend == Closes("backend") /\ UNCHANGED serverVars

Ends == /\ phase' = "down" /\ defers' = <<>>
        /\ signalled' = FALSE /\ drain' = "none" /\ graceOver' = FALSE
        /\ warmer' = "off" /\ wcancelled' = FALSE /\ failed' = FALSE
        /\ req' = [r \in Requests |-> Idle]
        /\ auditor' = NoOne /\ auditOpen' = FALSE
        /\ UNCHANGED <<cfg, secrets>>

Exit == phase = "closing" /\ defers = <<>> /\ Ends

\* os.Exit in a call of the backend: a request's, or the warmer's.
BackendExits == /\ cfg.mode # "dev"
                /\ warmer = "running" \/ \E r \in Requests : req[r].pc \in {"granted", "listing"}
                /\ Ends

----------------------------------------------------------------------------
(* Requests come by the listener, and when that has failed by the connections *)
(* that are still open.  A goroutine runs for as long as the process does.    *)
Connected == \/ phase = "serving" /\ Accepting
             \/ phase = "closing" /\ failed /\ Contains(defers, "tsnet")

Requesting == \/ \E r \in Requests : \/ LockAudit(r) \/ Serve(r)
                                     \/ \E a \in Asked[r] : Connected /\ Arrive(r, a[1], a[2])

Starting == \/ BuildBackend \/ Up \/ OpenAudit \/ ServeDebugListener \/ StartWarmer \/ Listen
            \/ StartFails
Closing == \/ Wcancel \/ CloseWarmer \/ StopDebug \/ CloseAudit \/ CloseTsnet \/ CloseBackend \/ Exit
Stopping == DrainBegins \/ Port80Drained \/ MainDrained \/ GraceEnds \/ ServeReturns \/ Closing

Next == \/ Requesting /\ UNCHANGED lifeVars
        \/ Start \/ Starting \/ Signal \/ Stopping \/ ServeFails \/ WarmerReturns \/ BackendExits

Spec == Init /\ [][Next]_vars

\* Goroutines run, Shutdown and the warmer's calls have deadlines, and start-up,
\* which waits as long as it must, ends once its context is cancelled.
FairSpec == /\ Spec
            /\ WF_vars(Starting /\ signalled) /\ WF_vars(Stopping) /\ WF_vars(WarmerReturns)

----------------------------------------------------------------------------
\* After a signal the audit log, tsnet and the backend are not torn down "under the
\* very requests the grace period exists to finish" (shutdownOnDone).
DrainsFirst == phase = "closing" /\ ~failed => Quiet \/ graceOver

\* The one exit that does not wait is that of a listener that fails by itself while it
\* still accepts, in the drain of port 80 too: once Shutdown has begun for the server of
\* the requests, no error makes serve return before they are done or their grace is over
\* ("ErrServerClosed means Shutdown began; wait for the drain", serveTLS).
GraceIsKept ==
    [][phase = "serving" /\ phase' = "closing" => Quiet \/ graceOver \/ Accepting]_vars

\* The warmer never calls a backend that serve has closed, nor reads for a process
\* whose log is closed, whichever way serve ends (the order of the defers in serve).
WarmerStopsFirst == warmer = "running" => {"backend", "tsnet", "audit"} \subseteq ToSet(defers)

\* The process ends after a signal, and after an error of its listener too ("a
\* silent zombie systemd sees as active" otherwise), whatever its requests do.
EveryStopEnds == signalled \/ failed ~> phase = "down"
=============================================================================
