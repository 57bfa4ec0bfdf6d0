---------------------------- MODULE Background ----------------------------
(***************************************************************************)
(* The two coroutines that the client runs beside its caller: the forwarder*)
(* of a threadsafe_stream_buffer and the keepalive loop of a user stream.  *)
(* Both sleep on a timer and are ended by a call from another thread.  They*)
(* have no state in common and are looked at one at a time.                *)
(***************************************************************************)
EXTENDS ThreadsafeStreamBuffer, UserStream

VARIABLE part   \* "forwarder" or "keepalive"

backgroundVars == <<bufferVars, userVars, part>>

BackgroundInit == BufferInit /\ UserInit /\ part \in {"forwarder", "keepalive"}

OfForwarder(A) == part = "forwarder" /\ A /\ UNCHANGED <<userVars, part>>

OfKeepalive(A) == part = "keepalive" /\ A /\ UNCHANGED <<bufferVars, part>>

BackgroundNext == OfForwarder(BufferNext) \/ OfKeepalive(UserNext)

\* The fairness of ThreadsafeStreamBuffer and of UserStream.
BackgroundSpec ==
    /\ BackgroundInit /\ [][BackgroundNext]_backgroundVars
    /\ WF_backgroundVars(OfForwarder(PushEnqueue \/ PushWake))
    /\ WF_backgroundVars(OfForwarder(OwnerWake)) /\ WF_backgroundVars(OfForwarder(RunCancel))
    /\ WF_backgroundVars(OfForwarder(Forwarder)) /\ WF_backgroundVars(OfForwarder(Consumer))
    /\ WF_backgroundVars(OfKeepalive(Tick)) /\ WF_backgroundVars(OfKeepalive(Keepalive))
    /\ WF_backgroundVars(OfKeepalive(StopReturns)) /\ WF_backgroundVars(OfKeepalive(Closes))
    /\ WF_backgroundVars(OfKeepalive(Connects \/ UserConnectFails))
    /\ WF_backgroundVars(OfKeepalive(Resume \/ stop_keepalive))
    /\ SF_backgroundVars(OfKeepalive(ServerEnds))
=============================================================================
