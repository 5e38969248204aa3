---------------------------- MODULE ClipboardDaemon ----------------------------
(***************************************************************************)
(* The process around the /clipboard endpoint: how pastelocald ends.       *)
(*                                                                         *)
(* On SIGTERM the goroutine of handleSignals calls http.Server.Shutdown,   *)
(* which closes the listener and waits, for five seconds at most, until no *)
(* request is in flight.  But Serve returns as soon as the listener is     *)
(* closed, Start returns with it, and with the main function the process   *)
(* ends: nothing waits for Shutdown to return.                             *)
(***************************************************************************)
EXTENDS ClipboardServer

VARIABLES
  proc,     \* running, closing (in http.Server.Shutdown) or exited
  drained   \* Shutdown has returned: no requests are left, or five seconds are over

daemonVars == <<vars, proc, drained>>

DaemonInit == Init /\ proc = "running" /\ drained = FALSE

\* A closing server accepts no requests, and its goroutine for signals is busy.
Running ==
  /\ proc = "running"
  /\ Next
  /\ UNCHANGED <<proc, drained>>

Closing ==
  /\ proc = "closing"
  /\ (\E h \in Handler : Serve(h)) \/ Copy \/ Proactive
  /\ UNCHANGED <<proc, drained>>

Sigterm ==
  /\ proc = "running"
  /\ proc' = "closing"
  /\ UNCHANGED <<vars, drained>>

\* http.Server.Shutdown returns, with an error when the time is over.
Drained ==
  /\ proc = "closing"
  /\ drained' = TRUE
  /\ UNCHANGED <<vars, proc>>

\* Serve, Start and main return.
Exit ==
  /\ proc = "closing"
  /\ proc' = "exited"
  /\ UNCHANGED <<vars, drained>>

DaemonNext == Running \/ Closing \/ Sigterm \/ Drained \/ Exit

DaemonSpec == DaemonInit /\ [][DaemonNext]_daemonVars

\* "SIGTERM triggers graceful shutdown with a 5-second drain timeout inside the
\* server": the process only exits with requests in flight when that time is over.
ExitIsGraceful ==
  proc = "exited" => drained \/ \A h \in Handler : pc[h] = "idle"
=============================================================================
