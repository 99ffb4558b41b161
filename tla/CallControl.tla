----------------------------- MODULE CallControl -----------------------------
(***************************************************************************)
(* The threads of one phone that set up calls and what they share:         *)
(* TorNetwork.socket, ProtocolManagementImpl.callHandler, the user         *)
(* interface's callInfo, the native SRTP contexts and AudioInput.worker.   *)
(* None of it is protected by a lock.                                      *)
(*                                                                         *)
(* A thread of Users calls ProtocolManagement.startCall once.  A thread of *)
(* Listeners is ConnectionListener.run of one instance of that service; it *)
(* accepts one connection and handles the call to its end.  The start and  *)
(* stop requests of the service are carried out later, by the main thread. *)
(*                                                                         *)
(* What the two phones say to each other is in module Handshake: here a    *)
(* protocol succeeds or throws.  An exception ends the process (no thread  *)
(* of the application catches it), and so does the end of a call, through  *)
(* the media threads (module SrtpMedia).                                   *)
(***************************************************************************)
EXTENDS Naturals, Sequences

CONSTANTS Users,      \* threads that start a call
          Callers,    \* remote phones that connect
          Listeners   \* instances of ConnectionListener that can be created

None == "none"
Threads == Users \cup Listeners
\* A connection is named by the user's thread or the caller that made it.
Connections == Users \cup Callers

ASSUME DisjointAssumption == /\ Users \cap Callers = {}
                             /\ Users \cap Listeners = {}
                             /\ None \notin Users \cup Callers \cup Listeners

VARIABLES
    process,      \* "alive", or why it ended
    socket,       \* TorNetwork.socket
    listenerStartNeeded,
    requests,     \* start and stop requests the main thread has not handled
    service,      \* the live instance of ConnectionListener, or None
    serverSocket, \* serverSocket[n] of instance n: "null", "open", "closed"
    knocking,     \* callers that have not been accepted yet
    callHandler,  \* ProtocolManagementImpl.callHandler, named by its creator
    callStatus,   \* callStatus[h] of the CallHandler created by h
    uiCallInfo,   \* UserInterfaceImpl.callInfo, named by its creator
    sendContext,  \* srtpContextSend: the thread whose call set it
    recvContext,  \* srtpContextRecv, likewise
    worker,       \* AudioInput.worker: the thread whose call it records for
    started,      \* the workers that have been started
    wrapped,      \* the CallHandlers whose SrtpProtocol has its wrapper
    pc,           \* pc[t]: the next step of thread t
    own,          \* own[t]: the connection t made or accepted
    streams,      \* streams[t]: the connections t has got its streams from
    handler,      \* handler[t]: the CallHandler t runs in
    callInfo,     \* callInfo[t]: the CallInfo t sets up its call with
    overlapped,   \* history: two calls were set up at the same time
    calledTwice   \* history: startCall passed assertNoCall during a call

listenerVars == <<listenerStartNeeded, requests, service, serverSocket, knocking>>
mediaVars == <<sendContext, recvContext, worker, started, wrapped>>
callVars == <<callHandler, callStatus, uiCallInfo>>
threadVars == <<own, streams, handler, callInfo>>
historyVars == <<overlapped, calledTwice>>
vars == <<process, socket, listenerVars, mediaVars, callVars, threadVars, pc,
          historyVars>>

Init ==
    /\ process = "alive"
    /\ socket = None
    /\ listenerStartNeeded = FALSE
    /\ requests = << "start" >>          \* MainActivity.onCreate
    /\ service = None
    /\ serverSocket = [n \in Listeners |-> "null"]
    /\ knocking = Callers
    /\ callHandler = None
    /\ callStatus = [t \in Threads |-> "NO_CALL"]
    /\ uiCallInfo = None
    /\ sendContext = None /\ recvContext = None
    /\ worker = None /\ started = {} /\ wrapped = {}
    /\ pc = [t \in Threads |-> IF t \in Users THEN "idle" ELSE "unborn"]
    /\ own = [t \in Threads |-> IF t \in Users THEN t ELSE None]
    /\ streams = [t \in Threads |-> {}]
    /\ handler = [t \in Threads |-> None]
    /\ callInfo = [t \in Threads |-> IF t \in Users THEN t ELSE None]
    /\ overlapped = FALSE /\ calledTwice = FALSE

-----------------------------------------------------------------------------
At(t, step) == process = "alive" /\ pc[t] = step
Goto(t, step) == pc' = [pc EXCEPT ![t] = step]

\* An exception leaves thread t.
Throw(why) ==
    /\ process' = why
    /\ UNCHANGED <<socket, listenerVars, mediaVars, callVars, threadVars, pc,
                   historyVars>>

\* t is setting up a call or is in one.
Busy(t) == pc[t] \notin {"idle", "unborn", "bind", "accept", "accepted",
                         "stopSelf", "done"}

-----------------------------------------------------------------------------
(* The connection listener.                                                *)

\* The main thread starts the service: onCreate starts the thread; a running
\* service is left alone.
startService ==
    /\ process = "alive" /\ requests # << >> /\ Head(requests) = "start"
    /\ requests' = Tail(requests)
    /\ IF service = None
       THEN \E n \in Listeners : /\ pc[n] = "unborn"
                                 /\ service' = n
                                 /\ Goto(n, "bind")
       ELSE UNCHANGED <<service, pc>>
    /\ UNCHANGED <<process, socket, listenerStartNeeded, serverSocket, knocking,
                   mediaVars, callVars, threadVars, historyVars>>

\* onDestroy of the live instance
CloseServerSocket == serverSocket' = [serverSocket EXCEPT ![service] =
                                        IF @ = "open" THEN "closed" ELSE @]

\* The main thread stops the service, as stopService asked for, or stopSelf of
\* the live instance; the one of an instance that is gone is ignored.
stopService ==
    /\ process = "alive" /\ requests # << >> /\ Head(requests) # "start"
    /\ requests' = Tail(requests)
    /\ IF service # None /\ Head(requests) \in {"stop", service}
       THEN CloseServerSocket /\ service' = None
       ELSE UNCHANGED <<serverSocket, service>>
    /\ UNCHANGED <<process, socket, listenerStartNeeded, knocking, mediaVars,
                   callVars, threadVars, pc, historyVars>>

\* The application asks for the listener once more (startConnectionListener);
\* one request at a time, as long as instances are left.
startConnectionListener ==
    /\ process = "alive" /\ requests = << >>
    /\ \E n \in Listeners : pc[n] = "unborn"
    /\ requests' = << "start" >>
    /\ UNCHANGED <<process, socket, listenerStartNeeded, service, serverSocket,
                   knocking, mediaVars, callVars, threadVars, pc, historyVars>>

\* new ServerSocket: an IOException when another one has the port.
bind(n) ==
    /\ At(n, "bind")
    /\ IF \E m \in Listeners : serverSocket[m] = "open"
       THEN Goto(n, "stopSelf") /\ UNCHANGED serverSocket
       ELSE Goto(n, "accept") /\ serverSocket' = [serverSocket EXCEPT ![n] = "open"]
    /\ UNCHANGED <<process, socket, listenerStartNeeded, requests, service, knocking,
                   mediaVars, callVars, threadVars, historyVars>>

\* accept returns a connection, or throws once the socket is closed.
accept(n) ==
    /\ At(n, "accept")
    /\ \/ /\ serverSocket[n] = "open"
          /\ \E c \in knocking : /\ own' = [own EXCEPT ![n] = c]
                                 /\ knocking' = knocking \ {c}
          /\ Goto(n, "accepted")
       \/ /\ serverSocket[n] = "closed"
          /\ Goto(n, "stopSelf")
          /\ UNCHANGED <<own, knocking>>
    /\ UNCHANGED <<process, socket, listenerStartNeeded, requests, service,
                   serverSocket, mediaVars, callVars, streams, handler,
                   callInfo, historyVars>>

\* handleIncomingConnection that forgets to look whether there is a call
checkSocket_unguarded(n) ==
    /\ At(n, "accepted")
    /\ overlapped' = (overlapped \/ (socket = None /\ \E t \in Threads : Busy(t)))
    /\ Goto(n, "incoming")
    /\ UNCHANGED <<process, socket, listenerVars, mediaVars, callVars, threadVars,
                   calledTwice>>

\* handleIncomingConnection: the test of socket.  A connection that comes in
\* during a call is dropped without an answer.
checkSocket(n) ==
    /\ At(n, "accepted")
    /\ overlapped' = (overlapped \/ (socket = None /\ \E t \in Threads : Busy(t)))
    /\ Goto(n, IF socket = None THEN "incoming" ELSE "stopSelf")
    /\ UNCHANGED <<process, socket, listenerVars, mediaVars, callVars, threadVars,
                   calledTwice>>

\* takeConnection that does not keep the socket
takeConnection_noSocket(n) ==
    /\ At(n, "incoming")
    /\ listenerStartNeeded' = TRUE
    /\ Goto(n, "create")
    /\ UNCHANGED <<process, socket, requests, service, serverSocket, knocking, mediaVars,
                   callVars, threadVars, historyVars>>

\* handleIncomingConnection: the assignments.
takeConnection(n) ==
    /\ At(n, "incoming")
    /\ listenerStartNeeded' = TRUE
    /\ socket' = own[n]
    /\ Goto(n, "create")
    /\ UNCHANGED <<process, requests, service, serverSocket, knocking, mediaVars,
                   callVars, threadVars, historyVars>>

\* run returns from the call, or from a connection it did not take.
stopSelf(n) ==
    /\ \/ At(n, "stopSelf") /\ Goto(n, "done")
       \/ At(n, "ongoing") /\ Goto(n, "inCall")
    /\ requests' = Append(requests, n)
    /\ UNCHANGED <<process, socket, listenerStartNeeded, service, serverSocket, knocking,
                   mediaVars, callVars, threadVars, historyVars>>

-----------------------------------------------------------------------------
(* The call code.                                                          *)

\* ProtocolManagementImpl.startCall: a new CallHandler.
startCall(u) ==
    /\ At(u, "idle")
    /\ callHandler' = u
    /\ overlapped' = (overlapped \/ \E t \in Threads : Busy(t))
    /\ Goto(u, "invoke")
    /\ UNCHANGED <<process, socket, listenerVars, mediaVars, callStatus, uiCallInfo,
                   threadVars, calledTwice>>

\* The field is read again for the call of CallHandler.startCall, which begins
\* with assertNoCall.
assertNoCall(u) ==
    /\ At(u, "invoke")
    /\ IF callStatus[callHandler] # "NO_CALL"
       THEN Throw("already_ongoing")
       ELSE /\ handler' = [handler EXCEPT ![u] = callHandler]
            /\ calledTwice' = (calledTwice \/
                                 \E t \in Threads : callStatus[t] = "ONGOING")
            /\ Goto(u, "connect")
            /\ UNCHANGED <<process, socket, listenerVars, mediaVars, callVars,
                           own, streams, callInfo, overlapped>>

\* TorNetwork.connectTo: the assignment of the connected socket, whatever the
\* field held; or a ConnectionException, which CallHandler.connectTo catches.  When
\* setSoTimeout or setTcpNoDelay throws it, the field keeps the socket.
connectTo(u) ==
    /\ At(u, "connect")
    /\ \/ socket' = u /\ (Goto(u, "stopListener") \/ Goto(u, "done"))
       \/ Goto(u, "done") /\ UNCHANGED socket
    /\ UNCHANGED <<process, listenerVars, mediaVars, callVars, threadVars, historyVars>>

\* connectTo: stopConnectionListener.
stopConnectionListener(u) ==
    /\ At(u, "stopListener")
    /\ requests' = Append(requests, "stop")
    /\ listenerStartNeeded' = TRUE
    /\ Goto(u, "getInput")
    /\ UNCHANGED <<process, socket, service, serverSocket, knocking, mediaVars, callVars,
                   threadVars, historyVars>>

\* ProtocolManagementImpl.handleIncomingCall: a new CallHandler, and the field
\* read again.
createIncoming(n) ==
    /\ At(n, "create")
    /\ callHandler' = n
    /\ Goto(n, "invoke")
    /\ UNCHANGED <<process, socket, listenerVars, mediaVars, callStatus, uiCallInfo,
                   threadVars, historyVars>>

invokeIncoming(n) ==
    /\ At(n, "invoke")
    /\ handler' = [handler EXCEPT ![n] = callHandler]
    /\ Goto(n, "getInput")
    /\ UNCHANGED <<process, socket, listenerVars, mediaVars, callVars, own, streams,
                   callInfo, historyVars>>

\* getInputStream and getOutputStream, each on the socket of the moment.  (It is
\* not null: nothing calls disconnect.)
getInputStream(t) ==
    /\ At(t, "getInput")
    /\ streams' = [streams EXCEPT ![t] = {socket}]
    /\ Goto(t, "getOutput")
    /\ UNCHANGED <<process, socket, listenerVars, mediaVars, callVars, own, handler,
                   callInfo, historyVars>>

getOutputStream(t) ==
    /\ At(t, "getOutput")
    /\ streams' = [streams EXCEPT ![t] = @ \cup {socket}]
    /\ Goto(t, IF t \in Users \/ callInfo[t] # None THEN "session" ELSE "introduction")
    /\ UNCHANGED <<process, socket, listenerVars, mediaVars, callVars, own, handler,
                   callInfo, historyVars>>

\* handleIncomingCall that does not set the status
handleIncomingCall_noStatus(n) ==
    /\ At(n, "introduction")
    /\ uiCallInfo' = n
    /\ Goto(n, "answer")
    /\ UNCHANGED <<process, socket, listenerVars, mediaVars, callHandler, callStatus,
                   threadVars, historyVars>>

\* initiateIncomingSession has returned; the user interface gets the CallInfo.
handleIncomingCall(n) ==
    /\ At(n, "introduction")
    /\ callStatus' = [callStatus EXCEPT ![handler[n]] = "INITIALIZED"]
    /\ uiCallInfo' = n
    /\ Goto(n, "answer")
    /\ UNCHANGED <<process, socket, listenerVars, mediaVars, callHandler, threadVars,
                   historyVars>>

\* UserInterfaceImpl.acceptCall hands the CallInfo it holds to the CallHandler
\* that ProtocolManagementImpl holds.
acceptCall(n) ==
    /\ At(n, "answer")
    /\ IF callStatus[callHandler] # "INITIALIZED"
       THEN Throw("not_initialized")
       ELSE /\ handler' = [handler EXCEPT ![n] = callHandler]
            /\ callInfo' = [callInfo EXCEPT ![n] = uiCallInfo]
            /\ Goto(n, "getInput")
            /\ UNCHANGED <<process, socket, listenerVars, mediaVars, callVars, own,
                           streams, historyVars>>

\* The protocols have agreed on the keys: initSender, later initReceiver.  A second
\* srtp_init in the process fails (module CryptoKernel) and initSender returns
\* before it makes a context: the one of the earlier call stays.
initSender(t) ==
    /\ At(t, "session")
    /\ sendContext' = IF sendContext = None THEN t ELSE sendContext
    /\ Goto(t, "initReceiver")
    /\ UNCHANGED <<process, socket, listenerVars, recvContext, worker, started, wrapped,
                   callVars, threadVars, historyVars>>

initReceiver(t) ==
    /\ At(t, "initReceiver")
    /\ recvContext' = t
    /\ Goto(t, "getStream")
    /\ UNCHANGED <<process, socket, listenerVars, sendContext, worker, started, wrapped,
                   callVars, threadVars, historyVars>>

\* AudioInput.createWorker: the test, then the assignment.
checkWorker(t) ==
    /\ At(t, "getStream")
    /\ IF worker # None THEN Throw("reinitialize")
       ELSE /\ Goto(t, "setWorker")
            /\ UNCHANGED <<process, socket, listenerVars, mediaVars, callVars,
                           threadVars, historyVars>>

setWorker(t) ==
    /\ At(t, "setWorker")
    /\ worker' = t
    /\ Goto(t, "wrap")
    /\ UNCHANGED <<process, socket, listenerVars, sendContext, recvContext, started,
                   wrapped, callVars, threadVars, historyVars>>

\* wrapStream and unwrapStream of the handler's SrtpProtocol
wrapStream(t) ==
    /\ At(t, "wrap")
    /\ IF handler[t] \in wrapped THEN Throw("already_wrapped")
       ELSE /\ wrapped' = wrapped \cup {handler[t]}
            /\ Goto(t, "start")
            /\ UNCHANGED <<process, socket, listenerVars, sendContext, recvContext,
                           worker, started, callVars, threadVars, historyVars>>

\* startSending starts whichever worker the field holds, a second time with an
\* IllegalThreadStateException; then the Connectors, and the call is ONGOING.
startSending(t) ==
    /\ At(t, "start")
    /\ IF worker \in started THEN Throw("started_twice")
       ELSE /\ started' = started \cup {worker}
            /\ callStatus' = [callStatus EXCEPT ![handler[t]] = "ONGOING"]
            /\ Goto(t, "ongoing")
            /\ UNCHANGED <<process, socket, listenerVars, sendContext, recvContext,
                           worker, wrapped, callHandler, uiCallInfo, threadVars,
                           historyVars>>

\* A protocol throws, or a media thread of an ongoing call ends.
protocolFails ==
    /\ process = "alive"
    /\ \E t \in Threads : pc[t] \in {"introduction", "session", "initReceiver", "ongoing"}
    /\ Throw("failed")

Listener(n) == \/ bind(n) \/ accept(n) \/ checkSocket(n) \/ takeConnection(n)
               \/ createIncoming(n) \/ invokeIncoming(n) \/ handleIncomingCall(n)
               \/ acceptCall(n) \/ stopSelf(n)

User(u) == \/ startCall(u) \/ assertNoCall(u) \/ connectTo(u)
           \/ stopConnectionListener(u)

CallCode(t) == \/ getInputStream(t) \/ getOutputStream(t) \/ initSender(t)
               \/ initReceiver(t) \/ checkWorker(t) \/ setWorker(t) \/ wrapStream(t)
               \/ startSending(t)

Main == startService \/ stopService \/ startConnectionListener

Next == \/ \E n \in Listeners : Listener(n)
        \/ \E u \in Users : User(u)
        \/ \E t \in Threads : CallCode(t)
        \/ Main
        \/ protocolFails

Spec == Init /\ [][Next]_vars

-----------------------------------------------------------------------------
Steps == {"idle", "unborn", "bind", "accept", "accepted", "incoming", "create",
          "invoke", "connect", "stopListener", "getInput", "getOutput",
          "introduction", "answer", "session", "initReceiver", "getStream",
          "setWorker", "wrap", "start", "ongoing", "inCall", "stopSelf", "done"}

\* The exceptions that tell of a mistake in the phone's own bookkeeping.
InternalErrors == {"already_ongoing", "not_initialized", "reinitialize",
                   "already_wrapped", "started_twice"}

\* Types of the variables.
TypeOK ==
    /\ process \in {"alive", "failed"} \cup InternalErrors
    /\ socket \in Connections \cup {None}
    /\ listenerStartNeeded \in BOOLEAN
    /\ requests \in Seq({"start", "stop"} \cup Listeners)
    /\ service \in Listeners \cup {None}
    /\ serverSocket \in [Listeners -> {"null", "open", "closed"}]
    /\ knocking \subseteq Callers
    /\ callHandler \in Threads \cup {None}
    /\ callStatus \in [Threads -> {"NO_CALL", "INITIALIZED", "ONGOING"}]
    /\ uiCallInfo \in Threads \cup {None}
    /\ sendContext \in Threads \cup {None}
    /\ recvContext \in Threads \cup {None}
    /\ worker \in Threads \cup {None}
    /\ started \subseteq Threads /\ wrapped \subseteq Threads
    /\ pc \in [Threads -> Steps]
    /\ own \in [Threads -> Connections \cup {None}]
    /\ streams \in [Threads -> SUBSET Connections]
    /\ handler \in [Threads -> Threads \cup {None}]
    /\ callInfo \in [Threads -> Threads \cup {None}]
    /\ overlapped \in BOOLEAN /\ calledTwice \in BOOLEAN

\* A call talks over its own connection, in the CallHandler made for it and with
\* its own CallInfo, however many other connections come in meanwhile and
\* however often the listener is restarted: unless a call is started beside
\* another one, or taken while another one has no socket yet.
\* (TorNetwork.handleIncomingConnection, CallHandler.acceptCall)
OwnCall ==
    ~ overlapped =>
        \A t \in Threads : /\ streams[t] \subseteq {own[t]}
                           /\ handler[t] \in {None, t}
                           /\ callInfo[t] \in {None, t}

\* Under the same condition the contexts and the microphone of an ongoing call
\* are its own.  (srtp_jni.c, AudioInput)
OwnMedia ==
    ~ overlapped =>
        \A t \in Threads : callStatus[t] = "ONGOING" =>
            sendContext = t /\ recvContext = t /\ worker = t

\* Under the same condition none of the checks the code makes on its own state
\* ever fails.  (CallHandler.assertNoCall, assertCallIsInitialized,
\* AudioInput.createWorker, SrtpProtocol.createWrapper)
NoInternalError == ~ overlapped => process \notin InternalErrors

\* CallHandler.java:158, "Cannot start a call. There is already an ongoing
\* call": startCall is refused while a call is ongoing.
SecondCallRefused == ~ calledTwice

\* TorNetwork.java:67, "connection successful, stop accepting incoming
\* connections": a service that was stopped has no open socket left.
StoppedListenerIsClosed ==
    \A n \in Listeners : serverSocket[n] = "open" => service = n
=============================================================================
