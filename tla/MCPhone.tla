------------------------------ MODULE MCPhone -------------------------------
(***************************************************************************)
(* The threads of the telephone next to each other: the media path, which  *)
(* is extended, the service locator and the audio manager.  A behaviour is *)
(* one of the part it begins with; the other parts rest in their initial   *)
(* states.                                                                 *)
(***************************************************************************)
EXTENDS MediaPipeline

CONSTANTS Services, Callers,       \* of the locator: its services and threads
          MaxCalls, MaxCleanUps,   \* bounds of the locator
          MaxWorkers               \* bound of the audio manager

VARIABLES part,
          lock, holders, made, service, permits, binding, pc, arg, calls, cleanUps,
          toClean, failure, waited, stale, disconnected,
          worker, created, state, running, device, closed, stopped, error

-----------------------------------------------------------------------------
Locator == INSTANCE ServiceLocator WITH
    Threads <- Callers, error <- failure, lost <- disconnected
Audio == INSTANCE AudioManager

ASSUME PartsAssumption == Locator!LocatorAssumption /\ Audio!MaxWorkersAssumption

-----------------------------------------------------------------------------
locatorVars == <<lock, holders, made, service, permits, binding, pc, arg, calls,
                 cleanUps, toClean, failure, waited, stale, disconnected>>
audioVars == <<worker, created, state, running, device, closed, stopped, error>>
partVars == <<part, vars, locatorVars, audioVars>>

PartInit == /\ part \in {"pipeline", "locator", "audio"}
            /\ Init /\ Locator!Init /\ Audio!Init

PartNext ==
    /\ UNCHANGED part
    /\ \/ part = "pipeline" /\ Next /\ UNCHANGED <<locatorVars, audioVars>>
       \/ part = "locator" /\ Locator!Next /\ UNCHANGED <<vars, audioVars>>
       \/ part = "audio" /\ Audio!Next /\ UNCHANGED <<vars, locatorVars>>

\* The fairness of the parts: their threads and the call code run on, and a wait of
\* ten seconds ends.  The audio manager's workers may stay in a read or write.
PartFairness ==
    /\ WF_vars(part = "pipeline" /\ setUpSender)
    /\ WF_vars(part = "pipeline" /\ setUpReceiver)
    /\ WF_vars(part = "pipeline" /\ play)
    /\ WF_vars(part = "pipeline" /\ playLast)
    /\ \A c \in Copiers : /\ WF_vars(part = "pipeline" /\ Thread(c))
                         /\ WF_vars(part = "pipeline" /\ EndOfStream(c))
    /\ \A p \in {"sender", "receiver"} : WF_vars(part = "pipeline" /\ die(p))
    /\ \A t \in Callers : WF_locatorVars(part = "locator" /\ Locator!Getter(t))
    /\ \A s \in {"input", "output"}, i \in 1 .. MaxWorkers :
           WF_audioVars(part = "audio" /\ Audio!Run(s, i))

PartSpec == PartInit /\ [][PartNext]_partVars /\ PartFairness

-----------------------------------------------------------------------------
\* What starts early does no harm: wrapper and unwrapper never write to a pipe before
\* it is connected, and a getter gives up only after its ten seconds.
\* (SrtpProtocol.wrapStream, ServiceHolder.tryToDealWithNullService)
NothingFailsEarly == /\ TypeOK /\ PipesConnected
                     /\ Locator!TypeOK /\ Locator!GivesUpAfterWaiting

\* The microphone is off once every worker that was started has ended, however starts
\* and stops overlapped.  (AudioInput, AudioInputWorker.run)
MicrophoneOff == Audio!TypeOK /\ Audio!MicrophoneOff

\* A phone whose connection breaks ends its process instead of listening on, and a
\* worker that was started and told to stop closes its stream, unless a read or write
\* of it never returns.
\* (Connector.closeStreams, SrtpUnwrapper.run, AudioInputWorker.run)
EndsAreNoticed == LossEndsReceiver /\ Audio!StoppedCloses

\* Every call of a getter ends, with a service or with an exception, although each
\* waits holding the locator's lock.  (ServiceLocator.getAnonimityNetwork and others)
GetterEnds == Locator!GetterEnds
=============================================================================
