-------------------------- MODULE CallControlProofs --------------------------
(***************************************************************************)
(* What CallControl promises for any number of users' threads, callers and *)
(* instances of the listener.                                              *)
(***************************************************************************)
EXTENDS CallControl, TLAPS

(***************************************************************************)
(* The steps of a call, from its end to its beginning: each set holds the  *)
(* steps at which a thread has passed a certain assignment.                *)
(***************************************************************************)
InCall == {"ongoing", "inCall"}
Wrapped == InCall \cup {"start"}
HasWorker == Wrapped \cup {"wrap"}
HasReceiver == HasWorker \cup {"getStream", "setWorker"}
HasSender == HasReceiver \cup {"initReceiver"}
Talking == HasSender \cup {"session", "getInput", "getOutput", "introduction", "answer"}
Handling == Talking \cup {"connect", "stopListener"}

\* The socket has been set for the call of t (connectTo, handleIncomingConnection).
Connected(t) == \/ pc[t] \in Talking \cup {"stopListener", "create"}
                \/ pc[t] = "invoke" /\ t \in Listeners

-----------------------------------------------------------------------------
(* Type correctness: what is used is not null any more.                    *)

\* What a thread has got hold of by the step it is at.
FieldsSet ==
    \A t \in Threads :
        /\ pc[t] \in {"accepted", "incoming"} \/ t \in Users => own[t] # None
        /\ Connected(t) => socket # None
        /\ pc[t] \in Handling \cup {"invoke"} => callHandler # None
        /\ pc[t] \in Handling => handler[t] # None
        /\ pc[t] \in HasWorker => worker # None

TInv == TypeOK /\ FieldsSet

-----------------------------------------------------------------------------
(* The invariant of a process in which no two calls overlap.               *)

\* Only one thread has a call, and what the call needs is the call's own.
OneCall == \A s, t \in Threads : Busy(s) /\ Busy(t) => s = t

\* What thread t has set by the step it is at is still what it set.
KeepsOwn(t) ==
    /\ Connected(t) => socket = own[t]
    /\ pc[t] \in Handling \cup {"invoke"} => callHandler = t
    /\ pc[t] \in Handling => handler[t] = t
    /\ pc[t] = "answer" => uiCallInfo = t /\ callStatus[t] = "INITIALIZED"
    /\ pc[t] \in HasSender => sendContext = t
    /\ pc[t] \in HasReceiver => recvContext = t
    /\ pc[t] \in HasWorker => worker = t

\* What is set was set by a thread that has come that far.
SetByCall ==
    /\ sendContext # None => pc[sendContext] \in HasSender
    /\ worker # None => pc[worker] \in HasWorker
    /\ \A t \in wrapped : pc[t] \in Wrapped
    /\ \A t \in started : pc[t] \in InCall
    /\ \A t \in Threads : callStatus[t] = "INITIALIZED" => pc[t] \in Talking
    /\ \A t \in Threads : callStatus[t] = "ONGOING" => pc[t] \in InCall

\* A user's connection is named by the user; a listener that has no connection yet
\* has no streams.
OwnNames ==
    \A t \in Threads : /\ t \in Users => own[t] = t
                       /\ pc[t] \in {"unborn", "bind", "accept"} => streams[t] = {}

NoOverlapInv ==
    ~ overlapped => /\ OneCall /\ SetByCall
                    /\ \A t \in Threads : KeepsOwn(t)

CInv == TInv /\ OwnNames /\ NoOverlapInv /\ OwnCall /\ NoInternalError

-----------------------------------------------------------------------------
(* Type correctness.                                                       *)

\* A process that has just been started has the right types.
LEMMA TypeInit == Init => TInv
  <1> SUFFICES ASSUME Init PROVE TInv
    OBVIOUS
  <1> USE DisjointAssumption DEF Init, Threads, Connections
  <1>1. requests \in Seq({"start", "stop"} \cup Listeners)
    OBVIOUS
  <1>2. overlapped \in BOOLEAN /\ calledTwice \in BOOLEAN
    OBVIOUS
  <1>3. /\ pc \in [Threads -> Steps]
        /\ own \in [Threads -> Connections \cup {None}]
        /\ callInfo \in [Threads -> Threads \cup {None}]
    BY DEF Steps
  <1>4. TypeOK
    BY <1>1, <1>2, <1>3 DEF TypeOK
  <1>5. FieldsSet
    BY DEF FieldsSet, Connected, Handling, Talking, HasSender, HasReceiver,
           HasWorker, Wrapped, InCall
  <1> QED
    BY <1>4, <1>5 DEF TInv

\* Every step of the phone keeps the types: at the steps that use a field of the
\* network, the protocol management or the audio input, the field is set.
LEMMA TypeStep == TInv /\ [Next]_vars => TInv'
  <1> SUFFICES ASSUME TInv, [Next]_vars PROVE TInv'
    OBVIOUS
  <1> USE DisjointAssumption
      DEF TInv, TypeOK, FieldsSet, Connected, Handling, Talking, HasSender,
          HasReceiver, HasWorker, Wrapped, InCall, Threads, Connections, Steps,
          At, Goto, Throw, InternalErrors, threadVars, callVars, mediaVars,
          listenerVars, historyVars
  <1>1. ASSUME NEW n \in Listeners, bind(n) PROVE TInv'
    BY <1>1 DEF bind
  <1>2. ASSUME NEW n \in Listeners, accept(n) PROVE TInv'
    BY <1>2, SMTT(30) DEF accept
  <1>3. ASSUME NEW n \in Listeners, checkSocket(n) PROVE TInv'
    BY <1>3 DEF checkSocket
  <1>4. ASSUME NEW n \in Listeners, takeConnection(n) PROVE TInv'
    BY <1>4 DEF takeConnection
  <1>5. ASSUME NEW n \in Listeners, createIncoming(n) PROVE TInv'
    BY <1>5 DEF createIncoming
  <1>6. ASSUME NEW n \in Listeners, invokeIncoming(n) PROVE TInv'
    BY <1>6 DEF invokeIncoming
  <1>7. ASSUME NEW n \in Listeners, handleIncomingCall(n) PROVE TInv'
    BY <1>7 DEF handleIncomingCall
  <1>8. ASSUME NEW n \in Listeners, acceptCall(n) PROVE TInv'
    <2>1. TypeOK'
      BY <1>8, SMTT(60) DEF acceptCall
    <2>2. FieldsSet'
      BY <1>8, SMTT(30) DEF acceptCall
    <2> QED
      BY <2>1, <2>2
  <1>9. ASSUME NEW n \in Listeners, stopSelf(n) PROVE TInv'
    BY <1>9 DEF stopSelf
  <1>10. ASSUME NEW u \in Users, startCall(u) PROVE TInv'
    BY <1>10 DEF startCall
  <1>11. ASSUME NEW u \in Users, assertNoCall(u) PROVE TInv'
    <2>1. calledTwice' \in BOOLEAN
      BY <1>11, Zenon DEF assertNoCall
    <2> QED
      BY <1>11, <2>1 DEF assertNoCall
  <1>12. ASSUME NEW u \in Users, connectTo(u) PROVE TInv'
    BY <1>12 DEF connectTo
  <1>13. ASSUME NEW u \in Users, stopConnectionListener(u) PROVE TInv'
    BY <1>13 DEF stopConnectionListener
  <1>14. ASSUME NEW t \in Threads, getInputStream(t) PROVE TInv'
    BY <1>14 DEF getInputStream
  <1>15. ASSUME NEW t \in Threads, getOutputStream(t) PROVE TInv'
    BY <1>15 DEF getOutputStream
  <1>16. ASSUME NEW t \in Threads, initSender(t) PROVE TInv'
    BY <1>16 DEF initSender
  <1>17. ASSUME NEW t \in Threads, initReceiver(t) PROVE TInv'
    BY <1>17 DEF initReceiver
  <1>18. ASSUME NEW t \in Threads, checkWorker(t) PROVE TInv'
    BY <1>18 DEF checkWorker
  <1>19. ASSUME NEW t \in Threads, setWorker(t) PROVE TInv'
    BY <1>19 DEF setWorker
  <1>20. ASSUME NEW t \in Threads, wrapStream(t) PROVE TInv'
    BY <1>20 DEF wrapStream
  <1>21. ASSUME NEW t \in Threads, startSending(t) PROVE TInv'
    BY <1>21 DEF startSending
  <1>22. CASE startService
    <2>1. requests' \in Seq({"start", "stop"} \cup Listeners)
      BY <1>22 DEF startService
    <2>2. CASE service = None
      BY <1>22, <2>1, <2>2, SMTT(30) DEF startService
    <2>3. CASE service # None
      BY <1>22, <2>1, <2>3 DEF startService
    <2> QED
      BY <2>2, <2>3
  <1>23. CASE stopService
    BY <1>23 DEF stopService, CloseServerSocket
  <1>24. CASE startConnectionListener
    BY <1>24 DEF startConnectionListener
  <1>25. CASE protocolFails
    BY <1>25 DEF protocolFails
  <1>26. CASE UNCHANGED vars
    BY <1>26 DEF vars
  <1> QED
    BY <1>1, <1>2, <1>3, <1>4, <1>5, <1>6, <1>7, <1>8, <1>9, <1>10, <1>11, <1>12, <1>13, <1>14, <1>15, <1>16, <1>17, <1>18, <1>19, <1>20, <1>21, <1>22, <1>23, <1>24, <1>25, <1>26
    DEF Next, Listener, User, CallCode, Main

\* The threads of a phone never use a field of the wrong type, a null one included,
\* whatever calls overlap.
THEOREM CallTypeCorrect == Spec => []TypeOK
  <1>1. Init => TInv
    BY TypeInit
  <1>2. TInv /\ [Next]_vars => TInv'
    BY TypeStep
  <1>3. TInv => TypeOK
    BY DEF TInv
  <1> QED
    BY <1>1, <1>2, <1>3, PTL DEF Spec

-----------------------------------------------------------------------------
(* One call at a time.                                                     *)

\* In a new process nobody has a call.
LEMMA CallInit == Init => CInv
  <1> SUFFICES ASSUME Init PROVE CInv
    OBVIOUS
  <1>1. TInv
    BY TypeInit
  <1>2. OwnNames /\ OwnCall
    BY DEF Init, OwnNames, OwnCall
  <1>3. \A t \in Threads : pc[t] \in {"idle", "unborn"}
    BY DEF Init
  <1>4. NoOverlapInv
    BY <1>3 DEF Init, NoOverlapInv, OneCall, SetByCall, KeepsOwn, Busy, Connected,
                Handling, Talking, HasSender, HasReceiver, HasWorker, Wrapped, InCall
  <1>5. NoInternalError
    BY DEF Init, NoInternalError, InternalErrors
  <1> QED
    BY <1>1, <1>2, <1>4, <1>5 DEF CInv

\* The connection of a user has the user's name, and a listener has its streams only
\* from the connection it accepted (ConnectionListener.run).
LEMMA OwnNamesStep == TInv /\ OwnNames /\ [Next]_vars => OwnNames'
  <1> SUFFICES ASSUME TInv, OwnNames, [Next]_vars PROVE OwnNames'
    OBVIOUS
  <1> USE DisjointAssumption
      DEF TInv, TypeOK, OwnNames, Threads, Steps, At, Goto, Throw, threadVars
  <1>1. ASSUME NEW n \in Listeners, bind(n) PROVE OwnNames'
    BY <1>1 DEF bind
  <1>2. ASSUME NEW n \in Listeners, accept(n) PROVE OwnNames'
    BY <1>2 DEF accept
  <1>3. ASSUME NEW n \in Listeners, checkSocket(n) PROVE OwnNames'
    BY <1>3 DEF checkSocket
  <1>4. ASSUME NEW n \in Listeners, takeConnection(n) PROVE OwnNames'
    BY <1>4 DEF takeConnection
  <1>5. ASSUME NEW n \in Listeners, createIncoming(n) PROVE OwnNames'
    BY <1>5 DEF createIncoming
  <1>6. ASSUME NEW n \in Listeners, invokeIncoming(n) PROVE OwnNames'
    BY <1>6 DEF invokeIncoming
  <1>7. ASSUME NEW n \in Listeners, handleIncomingCall(n) PROVE OwnNames'
    BY <1>7 DEF handleIncomingCall
  <1>8. ASSUME NEW n \in Listeners, acceptCall(n) PROVE OwnNames'
    BY <1>8 DEF acceptCall
  <1>9. ASSUME NEW n \in Listeners, stopSelf(n) PROVE OwnNames'
    BY <1>9 DEF stopSelf
  <1>10. ASSUME NEW u \in Users, startCall(u) PROVE OwnNames'
    BY <1>10 DEF startCall
  <1>11. ASSUME NEW u \in Users, assertNoCall(u) PROVE OwnNames'
    BY <1>11 DEF assertNoCall
  <1>12. ASSUME NEW u \in Users, connectTo(u) PROVE OwnNames'
    BY <1>12 DEF connectTo
  <1>13. ASSUME NEW u \in Users, stopConnectionListener(u) PROVE OwnNames'
    BY <1>13 DEF stopConnectionListener
  <1>14. ASSUME NEW t \in Threads, getInputStream(t) PROVE OwnNames'
    BY <1>14 DEF getInputStream
  <1>15. ASSUME NEW t \in Threads, getOutputStream(t) PROVE OwnNames'
    BY <1>15 DEF getOutputStream
  <1>16. ASSUME NEW t \in Threads, initSender(t) PROVE OwnNames'
    BY <1>16 DEF initSender
  <1>17. ASSUME NEW t \in Threads, initReceiver(t) PROVE OwnNames'
    BY <1>17 DEF initReceiver
  <1>18. ASSUME NEW t \in Threads, checkWorker(t) PROVE OwnNames'
    BY <1>18 DEF checkWorker
  <1>19. ASSUME NEW t \in Threads, setWorker(t) PROVE OwnNames'
    BY <1>19 DEF setWorker
  <1>20. ASSUME NEW t \in Threads, wrapStream(t) PROVE OwnNames'
    BY <1>20 DEF wrapStream
  <1>21. ASSUME NEW t \in Threads, startSending(t) PROVE OwnNames'
    BY <1>21 DEF startSending
  <1>22. CASE startService
    BY <1>22 DEF startService
  <1>23. CASE stopService
    BY <1>23 DEF stopService
  <1>24. CASE startConnectionListener
    BY <1>24 DEF startConnectionListener
  <1>25. CASE protocolFails
    BY <1>25 DEF protocolFails
  <1>26. CASE UNCHANGED vars
    BY <1>26 DEF vars
  <1> QED
    BY <1>1, <1>2, <1>3, <1>4, <1>5, <1>6, <1>7, <1>8, <1>9, <1>10, <1>11, <1>12, <1>13,
       <1>14, <1>15, <1>16, <1>17, <1>18, <1>19, <1>20, <1>21, <1>22, <1>23, <1>24, <1>25, <1>26
    DEF Next, Listener, User, CallCode, Main

\* A step that does not make two calls overlap leaves the one call what is its own.
LEMMA OneCallStep ==
    ASSUME CInv, [Next]_vars, ~ overlapped'
    PROVE  /\ OneCall' /\ SetByCall'
           /\ \A t \in Threads : KeepsOwn(t)'
           /\ OwnCall' /\ NoInternalError'
  <1> DEFINE Goal == /\ OneCall' /\ SetByCall'
                     /\ \A t \in Threads : KeepsOwn(t)'
                     /\ OwnCall' /\ NoInternalError'
  <1> USE DisjointAssumption
      DEF CInv, TInv, TypeOK, FieldsSet, OwnNames, NoOverlapInv, OneCall, SetByCall,
          KeepsOwn, OwnCall, NoInternalError, Busy, Connected, Handling, Talking,
          HasSender, HasReceiver, HasWorker, Wrapped, InCall, Threads, Connections,
          Steps, At, Goto, Throw, InternalErrors, threadVars, callVars, mediaVars,
          listenerVars, historyVars
  <1>1. ASSUME NEW n \in Listeners, bind(n) PROVE Goal
    <2>0. ASSUME NEW t \in Threads, Busy(t)' PROVE Busy(t)
      BY <1>1, <2>0 DEF bind
    <2>1. OneCall'
      <3>1. OneCall
        BY <1>1 DEF bind
      <3> HIDE DEF Busy, Threads
      <3> QED
        BY <2>0, <3>1
    <2>2. SetByCall'
      BY <1>1 DEF bind
    <2>3. ASSUME NEW s \in Threads PROVE KeepsOwn(s)'
      BY <1>1 DEF bind
    <2>4. OwnCall' /\ NoInternalError'
      BY <1>1 DEF bind
    <2> QED
      BY <2>1, <2>2, <2>3, <2>4
  <1>2. ASSUME NEW n \in Listeners, accept(n) PROVE Goal
    BY <1>2 DEF accept
  <1>3. ASSUME NEW n \in Listeners, checkSocket(n) PROVE Goal
    <2>. ~ overlapped /\ (socket = None => \A t \in Threads : ~ Busy(t))
      BY <1>3 DEF checkSocket
    <2>1. OneCall'
      BY <1>3 DEF checkSocket
    <2>2. SetByCall'
      BY <1>3 DEF checkSocket
    <2>3. ASSUME NEW s \in Threads PROVE KeepsOwn(s)'
      BY <1>3 DEF checkSocket
    <2>4. OwnCall' /\ NoInternalError'
      BY <1>3 DEF checkSocket
    <2> QED
      BY <2>1, <2>2, <2>3, <2>4
  <1>4. ASSUME NEW n \in Listeners, takeConnection(n) PROVE Goal
    <2>1. OneCall'
      BY <1>4 DEF takeConnection
    <2>2. SetByCall'
      BY <1>4 DEF takeConnection
    <2>3. ASSUME NEW s \in Threads PROVE KeepsOwn(s)'
      BY <1>4 DEF takeConnection
    <2>4. OwnCall' /\ NoInternalError'
      BY <1>4 DEF takeConnection
    <2> QED
      BY <2>1, <2>2, <2>3, <2>4
  <1>5. ASSUME NEW n \in Listeners, createIncoming(n) PROVE Goal
    BY <1>5 DEF createIncoming
  <1>6. ASSUME NEW n \in Listeners, invokeIncoming(n) PROVE Goal
    BY <1>6 DEF invokeIncoming
  <1>7. ASSUME NEW n \in Listeners, handleIncomingCall(n) PROVE Goal
    BY <1>7 DEF handleIncomingCall
  <1>8. ASSUME NEW n \in Listeners, acceptCall(n) PROVE Goal
    BY <1>8, SMTT(30) DEF acceptCall
  <1>9. ASSUME NEW n \in Listeners, stopSelf(n) PROVE Goal
    <2>0. ASSUME NEW t \in Threads, Busy(t)' PROVE Busy(t)
      BY <1>9, <2>0 DEF stopSelf
    <2>1. OneCall'
      <3>1. OneCall
        BY <1>9 DEF stopSelf
      <3> HIDE DEF Busy, Threads
      <3> QED
        BY <2>0, <3>1
    <2>2. SetByCall'
      <3>1. /\ UNCHANGED <<mediaVars, callVars>> /\ SetByCall
            /\ \A t \in Threads : \/ pc'[t] = pc[t]
                                  \/ pc[t] = "stopSelf" /\ pc'[t] = "done"
                                  \/ pc[t] = "ongoing" /\ pc'[t] = "inCall"
        BY <1>9 DEF stopSelf
      <3>2. /\ sendContext \in Threads \cup {None} /\ worker \in Threads \cup {None}
            /\ wrapped \subseteq Threads /\ started \subseteq Threads
        OBVIOUS
      <3> QED
        BY <3>1, <3>2
    <2>3. ASSUME NEW s \in Threads PROVE KeepsOwn(s)'
      BY <1>9 DEF stopSelf
    <2>4. OwnCall' /\ NoInternalError'
      BY <1>9 DEF stopSelf
    <2> QED
      BY <2>1, <2>2, <2>3, <2>4
  <1>10. ASSUME NEW u \in Users, startCall(u) PROVE Goal
    <2>. ~ overlapped /\ \A t \in Threads : ~ Busy(t)
      BY <1>10 DEF startCall
    <2>1. OneCall'
      BY <1>10 DEF startCall
    <2>2. SetByCall'
      BY <1>10 DEF startCall
    <2>3. ASSUME NEW s \in Threads PROVE KeepsOwn(s)'
      BY <1>10, SMTT(30) DEF startCall
    <2>4. OwnCall' /\ NoInternalError'
      BY <1>10 DEF startCall
    <2> QED
      BY <2>1, <2>2, <2>3, <2>4
  <1>11. ASSUME NEW u \in Users, assertNoCall(u) PROVE Goal
    BY <1>11, SMTT(30) DEF assertNoCall
  <1>12. ASSUME NEW u \in Users, connectTo(u) PROVE Goal
    <2>1. OneCall'
      BY <1>12, SMTT(30) DEF connectTo
    <2>2. SetByCall'
      BY <1>12 DEF connectTo
    <2>3. ASSUME NEW s \in Threads PROVE KeepsOwn(s)'
      BY <1>12 DEF connectTo
    <2>4. OwnCall' /\ NoInternalError'
      BY <1>12 DEF connectTo
    <2> QED
      BY <2>1, <2>2, <2>3, <2>4
  <1>13. ASSUME NEW u \in Users, stopConnectionListener(u) PROVE Goal
    BY <1>13 DEF stopConnectionListener
  <1>14. ASSUME NEW t \in Threads, getInputStream(t) PROVE Goal
    BY <1>14 DEF getInputStream
  <1>15. ASSUME NEW t \in Threads, getOutputStream(t) PROVE Goal
    BY <1>15 DEF getOutputStream
  <1>16. ASSUME NEW t \in Threads, initSender(t) PROVE Goal
    BY <1>16, SMTT(30) DEF initSender
  <1>17. ASSUME NEW t \in Threads, initReceiver(t) PROVE Goal
    BY <1>17 DEF initReceiver
  <1>18. ASSUME NEW t \in Threads, checkWorker(t) PROVE Goal
    BY <1>18, SMTT(30) DEF checkWorker
  <1>19. ASSUME NEW t \in Threads, setWorker(t) PROVE Goal
    BY <1>19 DEF setWorker
  <1>20. ASSUME NEW t \in Threads, wrapStream(t) PROVE Goal
    BY <1>20 DEF wrapStream
  <1>21. ASSUME NEW t \in Threads, startSending(t) PROVE Goal
    <2>1. OneCall'
      BY <1>21, SMTT(30) DEF startSending
    <2>2. SetByCall'
      BY <1>21, SMTT(30) DEF startSending
    <2>3. ASSUME NEW s \in Threads PROVE KeepsOwn(s)'
      BY <1>21 DEF startSending
    <2>4. OwnCall' /\ NoInternalError'
      BY <1>21 DEF startSending
    <2> QED
      BY <2>1, <2>2, <2>3, <2>4
  <1>22. CASE startService
    <2>0. ASSUME NEW t \in Threads, Busy(t)' PROVE Busy(t)
      BY <1>22, <2>0 DEF startService
    <2>1. OneCall'
      <3>1. OneCall
        BY <1>22 DEF startService
      <3> HIDE DEF Busy, Threads
      <3> QED
        BY <2>0, <3>1
    <2>2. SetByCall'
      BY <1>22 DEF startService
    <2>3. ASSUME NEW s \in Threads PROVE KeepsOwn(s)'
      BY <1>22 DEF startService
    <2>4. OwnCall' /\ NoInternalError'
      BY <1>22 DEF startService
    <2> QED
      BY <2>1, <2>2, <2>3, <2>4
  <1>23. CASE stopService
    BY <1>23 DEF stopService
  <1>24. CASE startConnectionListener
    BY <1>24 DEF startConnectionListener
  <1>25. CASE protocolFails
    BY <1>25 DEF protocolFails
  <1>26. CASE UNCHANGED vars
    BY <1>26 DEF vars
  <1> QED
    BY <1>1, <1>2, <1>3, <1>4, <1>5, <1>6, <1>7, <1>8, <1>9, <1>10, <1>11, <1>12, <1>13,
       <1>14, <1>15, <1>16, <1>17, <1>18, <1>19, <1>20, <1>21, <1>22, <1>23, <1>24, <1>25, <1>26
    DEF Next, Listener, User, CallCode, Main

\* The invariant holds of every behaviour.
THEOREM CallInvariance == Spec => []CInv
  <1>1. Init => CInv
    BY CallInit
  <1>2. CInv /\ [Next]_vars => CInv'
    <2> SUFFICES ASSUME CInv, [Next]_vars PROVE CInv'
      OBVIOUS
    <2>1. TInv'
      BY TypeStep DEF CInv
    <2>2. OwnNames'
      BY OwnNamesStep DEF CInv
    <2>3. CASE overlapped'
      BY <2>1, <2>2, <2>3 DEF CInv, NoOverlapInv, OwnCall, NoInternalError
    <2>4. CASE ~ overlapped'
      BY <2>1, <2>2, <2>4, OneCallStep DEF CInv, NoOverlapInv
    <2> QED
      BY <2>3, <2>4
  <1> QED
    BY <1>1, <1>2, PTL DEF Spec

\* As long as no two calls overlap, a call talks over its own connection, in its own
\* CallHandler and with its own CallInfo, whatever other connections come in and
\* however often the listener is restarted (TorNetwork.handleIncomingConnection,
\* CallHandler.acceptCall).
THEOREM CallsStayApart == Spec => []OwnCall
  <1>1. CInv => OwnCall
    BY DEF CInv
  <1> QED
    BY <1>1, CallInvariance, PTL

\* As long as no two calls overlap, an ongoing call has its own SRTP contexts and its
\* own microphone (srtp_jni.c, AudioInput.createWorker).
THEOREM MediaStayApart == Spec => []OwnMedia
  <1>1. CInv => OwnMedia
    BY DEF CInv, NoOverlapInv, SetByCall, KeepsOwn, OwnMedia, HasSender, HasReceiver,
           HasWorker, Wrapped
  <1> QED
    BY <1>1, CallInvariance, PTL

\* As long as no two calls overlap, none of the checks that the call code makes on its
\* own state throws (CallHandler.assertNoCall, assertCallIsInitialized,
\* AudioInput.createWorker, SrtpProtocol.createWrapper).
THEOREM ChecksNeverFail == Spec => []NoInternalError
  <1>1. CInv => NoInternalError
    BY DEF CInv
  <1> QED
    BY <1>1, CallInvariance, PTL
=============================================================================
