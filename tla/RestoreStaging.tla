---------------------------- MODULE RestoreStaging ----------------------------
(***************************************************************************)
(* How an uploaded backup becomes a pending restore: the requests of       *)
(* api/local_restore.py as threads of the API server, with the file steps  *)
(* of services/local_backup.py between which others come, and the process  *)
(* dies. DesktopStartup has the same requests as single steps and all of   *)
(* the shell's start; here the start only takes the marker, and ends with  *)
(* finalize_restore while the API already serves.                          *)
(***************************************************************************)
EXTENDS FiniteSets

CONSTANTS Threads, Sessions, None

VARIABLES
  candidate,  \* restore-staging/<session>.sqlite
  session,    \* restore-staging/<session>.json
  pending,    \* pending-restore.json: the session it names, or None
  status,     \* restore-status.json
  request,    \* of each thread: what it does next, and for which session
  applied,    \* the session whose restore the running start applied, or None
  cancelled   \* sessions whose cancellation was accepted

vars == <<candidate, session, pending, status, request, applied, cancelled>>

Idle == [pc |-> "idle"]
At(t, pc) == request[t].pc = pc
To(t, pc, s) == request' = [request EXCEPT ![t] = [pc |-> pc, session |-> s]]
Ends(t) == request' = [request EXCEPT ![t] = Idle]

Init ==
  /\ candidate = [s \in Sessions |-> "none"]
  /\ session = [s \in Sessions |-> "none"]
  /\ pending = None /\ status = "none"
  /\ request = [t \in Threads |-> Idle]
  /\ applied = None /\ cancelled = {}
-----------------------------------------------------------------------------
\* uuid4 gives a session that no request has had.
Unused(s) ==
  /\ candidate[s] = "none" /\ session[s] = "none" /\ s \notin cancelled
  /\ \A t \in Threads : request[t] # [pc |-> "write", session |-> s]

\* validate_and_stage_restore: no marker, and a session of its own
BeginStage(t, s) ==
  /\ At(t, "idle") /\ pending = None
  /\ Unused(s)
  /\ To(t, "write", s)
  /\ UNCHANGED <<candidate, session, pending, status, applied, cancelled>>

\* validate_backup_archive refuses the upload, or its database is written to the
\* candidate, which is there before it is whole.
WriteCandidate(t) ==
  /\ At(t, "write")
  /\ LET s == request[t].session IN
     \/ Ends(t) /\ UNCHANGED candidate
     \/ To(t, "written", s) /\ candidate' = [candidate EXCEPT ![s] = "partial"]
  /\ UNCHANGED <<session, pending, status, applied, cancelled>>
WriteSession(t) ==
  /\ At(t, "written")
  /\ candidate' = [candidate EXCEPT ![request[t].session] = "whole"]
  /\ session' = [session EXCEPT ![request[t].session] = "open"]
  /\ Ends(t)
  /\ UNCHANGED <<pending, status, applied, cancelled>>

\* 1800 seconds
Expire(s) ==
  /\ session[s] = "open"
  /\ session' = [session EXCEPT ![s] = "expired"]
  /\ UNCHANGED <<candidate, pending, status, request, applied, cancelled>>

\* mutant: the candidate is taken to be what was validated
CheckConfirmTrusting(t, s) ==
  /\ At(t, "idle") /\ pending = None
  /\ session[s] = "open"
  /\ To(t, "mark", s)
  /\ UNCHANGED <<candidate, session, pending, status, applied, cancelled>>
\* confirm_restore: no marker, a session in time, and its candidate unchanged
CheckConfirm(t, s) ==
  /\ At(t, "idle") /\ pending = None
  /\ session[s] = "open" /\ candidate[s] = "whole"
  /\ To(t, "mark", s)
  /\ UNCHANGED <<candidate, session, pending, status, applied, cancelled>>
WriteMarker(t) ==
  /\ At(t, "mark")
  /\ pending' = request[t].session
  /\ To(t, "status", request[t].session)
  /\ UNCHANGED <<candidate, session, status, applied, cancelled>>
WriteStatus(t) ==
  /\ At(t, "status")
  /\ status' = "restart_required"
  /\ Ends(t)
  /\ UNCHANGED <<candidate, session, pending, applied, cancelled>>

\* cancel_restore: the session, whatever became of it, loses its candidate.
ReadCancel(t, s) ==
  /\ At(t, "idle") /\ session[s] # "none"
  /\ To(t, "cancel", s)
  /\ cancelled' = cancelled \cup {s}
  /\ UNCHANGED <<candidate, session, pending, status, applied>>
RemoveCandidate(t) ==
  /\ At(t, "cancel")
  /\ candidate' = [candidate EXCEPT ![request[t].session] = "none"]
  /\ To(t, "forget", request[t].session)
  /\ UNCHANGED <<session, pending, status, applied, cancelled>>
RemoveSession(t) ==
  /\ At(t, "forget")
  /\ session' = [session EXCEPT ![request[t].session] = "none"]
  /\ Ends(t)
  /\ UNCHANGED <<candidate, pending, status, applied, cancelled>>

\* The app ends, or dies, and starts again: every request is gone, the marker is
\* taken, and its candidate moves to the database or is left when the move fails.
Restart ==
  /\ request' = [t \in Threads |-> Idle]
  /\ pending' = None
  /\ IF pending # None /\ candidate[pending] = "whole"
       THEN \/ /\ candidate' = [candidate EXCEPT ![pending] = "none"]
               /\ applied' = pending /\ status' = "applying"
            \/ UNCHANGED candidate /\ applied' = None /\ status' = "applying"
       ELSE applied' = None /\ UNCHANGED <<candidate, status>>
  /\ UNCHANGED <<session, cancelled>>

\* finalize_restore removes by name, with the API serving: also a marker that was
\* confirmed since.
Finalize ==
  /\ applied # None
  /\ pending' = None
  /\ candidate' = [candidate EXCEPT ![applied] = "none"]
  /\ applied' = None /\ status' = "succeeded"
  /\ UNCHANGED <<session, request, cancelled>>

ThreadStep(t) ==
  \/ \E s \in Sessions : BeginStage(t, s) \/ CheckConfirm(t, s) \/ ReadCancel(t, s)
  \/ WriteCandidate(t) \/ WriteSession(t) \/ WriteMarker(t) \/ WriteStatus(t)
  \/ RemoveCandidate(t) \/ RemoveSession(t)
Next == (\E t \in Threads : ThreadStep(t)) \/ (\E s \in Sessions : Expire(s)) \/ Restart \/ Finalize
Spec == Init /\ [][Next]_vars
-----------------------------------------------------------------------------
\* A pending restore can be applied: its candidate is there, whole and as it was
\* validated, however often the session was confirmed, applied and the app started
\* again, unless that session was cancelled (cancel_restore asks for no marker).
PendingCanBeApplied ==
  pending # None => candidate[pending] = "whole" \/ pending \in cancelled
=============================================================================
