--------------------------- MODULE ServiceLocator ---------------------------
(***************************************************************************)
(* How the parts of the application find each other: ServiceLocator binds  *)
(* each service when it is first asked for, under the locator's lock, and  *)
(* ServiceHolder waits for Android to connect it.                          *)
(*                                                                         *)
(* Android creates a bound service and calls onServiceConnected on the     *)
(* main thread; after unbindService it calls nothing more.  An exception   *)
(* ends the process.                                                       *)
(***************************************************************************)
EXTENDS Naturals

CONSTANTS Services, Threads,
          MaxCalls,     \* bound: getter calls of one thread
          MaxCleanUps   \* bound: how often the activity is created

None == "none"
LocatorAssumption == /\ Services # {} /\ None \notin Threads
                     /\ MaxCalls \in Nat /\ MaxCleanUps \in Nat

\* What arg holds while it does not matter.
NoArg == CHOOSE s \in Services : TRUE

VARIABLES
    lock,       \* the thread inside a synchronized getter, or None
    holders,    \* the services whose holder field is not null
    made,       \* made[s]: how many ServiceHolders were constructed for s
    service,    \* service[s]: ServiceHolder.service is not null
    permits,    \* permits[s]: of serviceCreationSemaphore
    binding,    \* binding[s]: what Android does with the connection
    pc, arg,    \* pc[t], and the service thread t asks for
    calls,      \* calls[t]: the calls t has made
    cleanUps,   \* how often cleanUp was called
    toClean,    \* the holders the running cleanUp has still to look at
    error,      \* the exception that ended the process, or None
    waited,     \* history: waited[t]: the last wait of t took ten seconds
    stale,      \* history: a getter returned a service that was unbound
    lost        \* history: onServiceDisconnected was called

holderVars == <<holders, made, service, permits, binding>>
threadVars == <<lock, pc, arg, calls, waited>>
cleanVars == <<cleanUps, toClean>>
vars == <<holderVars, threadVars, cleanVars, error, stale, lost>>

Init == /\ lock = None /\ holders = {}
        /\ made = [s \in Services |-> 0]
        /\ service = [s \in Services |-> FALSE]
        /\ permits = [s \in Services |-> 0]
        /\ binding = [s \in Services |-> "none"]
        /\ pc = [t \in Threads |-> "idle"]
        /\ arg = [t \in Threads |-> NoArg]
        /\ calls = [t \in Threads |-> 0]
        /\ cleanUps = 0 /\ toClean = {}
        /\ error = None
        /\ waited = [t \in Threads |-> FALSE] /\ stale = FALSE /\ lost = FALSE

At(t, step) == error = None /\ pc[t] = step
Goto(t, step) == pc' = [pc EXCEPT ![t] = step]

\* Return that keeps the lock
Return_locked(t) ==
    /\ Goto(t, "idle")
    /\ stale' = (stale \/ binding[arg[t]] = "unbound")
    /\ arg' = [arg EXCEPT ![t] = NoArg] /\ waited' = [waited EXCEPT ![t] = FALSE]
    /\ UNCHANGED <<lock, holderVars, calls, cleanVars, error, lost>>

\* The getter of thread t returns a service and leaves the lock.
Return(t) ==
    /\ lock' = None /\ Goto(t, "idle")
    /\ stale' = (stale \/ binding[arg[t]] = "unbound")
    /\ arg' = [arg EXCEPT ![t] = NoArg] /\ waited' = [waited EXCEPT ![t] = FALSE]
    /\ UNCHANGED <<holderVars, calls, cleanVars, error, lost>>

Throw(why) ==
    /\ error' = why
    /\ UNCHANGED <<holderVars, threadVars, cleanVars, stale, lost>>

-----------------------------------------------------------------------------
\* A thread calls the getter of s and waits for the lock.
call(t, s) ==
    /\ At(t, "idle") /\ calls[t] < MaxCalls
    /\ calls' = [calls EXCEPT ![t] = @ + 1]
    /\ arg' = [arg EXCEPT ![t] = s]
    /\ Goto(t, "call")
    /\ UNCHANGED <<holderVars, lock, waited, cleanVars, error, stale, lost>>

\* The lock, and "if(... == null)".
enter(t) ==
    /\ At(t, "call") /\ lock = None
    /\ lock' = t
    /\ Goto(t, IF arg[t] \in holders THEN "getService" ELSE "newHolder")
    /\ UNCHANGED <<holderVars, arg, calls, waited, cleanVars, error, stale, lost>>

\* The constructor of ServiceHolder: bindService may refuse.
newHolder(t) ==
    /\ At(t, "newHolder")
    /\ \/ /\ holders' = holders \cup {arg[t]}
          /\ made' = [made EXCEPT ![arg[t]] = @ + 1]
          /\ binding' = [binding EXCEPT ![arg[t]] = "connecting"]
          /\ Goto(t, "getService")
          /\ UNCHANGED <<service, permits, lock, arg, calls, waited, cleanVars, error,
                         stale, lost>>
       \/ Throw("cannot be created")

getService(t) ==
    /\ At(t, "getService")
    /\ IF service[arg[t]] THEN Return(t)
       ELSE /\ Goto(t, "tryAcquire")
            /\ UNCHANGED <<lock, holderVars, arg, calls, waited, cleanVars, error,
                           stale, lost>>

tryAcquire(t) ==
    /\ At(t, "tryAcquire") /\ permits[arg[t]] > 0
    /\ permits' = [permits EXCEPT ![arg[t]] = @ - 1]
    /\ waited' = [waited EXCEPT ![t] = FALSE]
    /\ Goto(t, "check")
    /\ UNCHANGED <<lock, holders, made, service, binding, arg, calls, cleanVars, error,
                   stale, lost>>

\* Ten seconds have passed.
timeout(t) ==
    /\ At(t, "tryAcquire") /\ permits[arg[t]] = 0
    /\ waited' = [waited EXCEPT ![t] = TRUE]
    /\ Goto(t, "check")
    /\ UNCHANGED <<lock, holderVars, arg, calls, cleanVars, error, stale, lost>>

check(t) ==
    /\ At(t, "check")
    /\ IF service[arg[t]] THEN Return(t) ELSE Throw("No service was bound")

-----------------------------------------------------------------------------
(* The main thread.                                                        *)

onServiceConnected(s) ==
    /\ error = None /\ binding[s] = "connecting"
    /\ service' = [service EXCEPT ![s] = TRUE]
    /\ permits' = [permits EXCEPT ![s] = @ + 1]
    /\ binding' = [binding EXCEPT ![s] = "connected"]
    /\ UNCHANGED <<holders, made, threadVars, cleanVars, error, stale, lost>>

\* The service is gone; Android will connect it again.
onServiceDisconnected(s) ==
    /\ error = None /\ binding[s] = "connected" /\ ~ lost
    /\ service' = [service EXCEPT ![s] = FALSE]
    /\ binding' = [binding EXCEPT ![s] = "connecting"]
    /\ lost' = TRUE
    /\ UNCHANGED <<holders, made, permits, threadVars, cleanVars, error, stale>>

\* MainActivity.onCreate, on a thread of its own, calls cleanUp, which is not
\* synchronized.
cleanUp ==
    /\ error = None /\ toClean = {} /\ cleanUps < MaxCleanUps
    /\ cleanUps' = cleanUps + 1
    /\ toClean' = Services
    /\ UNCHANGED <<holderVars, threadVars, error, stale, lost>>

\* cleanUpHolder: a connection can be unbound only once; neither the holder nor
\* its service is forgotten.
cleanUpHolder(s) ==
    /\ error = None /\ s \in toClean
    /\ IF s \in holders /\ binding[s] = "unbound"
       THEN Throw("Service not registered")
       ELSE /\ toClean' = toClean \ {s}
            /\ IF s \in holders
               THEN /\ binding' = [binding EXCEPT ![s] = "unbound"]
                    /\ permits' = [permits EXCEPT ![s] = 0]
               ELSE UNCHANGED <<binding, permits>>
            /\ UNCHANGED <<holders, made, service, threadVars, cleanUps, error, stale,
                           lost>>

Getter(t) == \/ enter(t) \/ newHolder(t) \/ getService(t) \/ tryAcquire(t)
             \/ timeout(t) \/ check(t)

Next == \/ \E t \in Threads : Getter(t) \/ \E s \in Services : call(t, s)
        \/ \E s \in Services : onServiceConnected(s) \/ onServiceDisconnected(s)
                               \/ cleanUpHolder(s)
        \/ cleanUp

Spec == Init /\ [][Next]_vars

\* A thread that can run does, and a wait of ten seconds ends.
Fairness == \A t \in Threads : WF_vars(Getter(t))
LiveSpec == Spec /\ Fairness

-----------------------------------------------------------------------------
\* Types of the variables.
TypeOK ==
    /\ lock \in Threads \cup {None}
    /\ holders \subseteq Services
    /\ made \in [Services -> 0 .. 1]
    /\ service \in [Services -> BOOLEAN]
    /\ permits \in [Services -> 0 .. 2]
    /\ binding \in [Services -> {"none", "connecting", "connected", "unbound"}]
    /\ pc \in [Threads -> {"idle", "call", "newHolder", "getService", "tryAcquire", "check"}]
    /\ arg \in [Threads -> Services]
    /\ calls \in [Threads -> 0 .. MaxCalls]
    /\ cleanUps \in 0 .. MaxCleanUps /\ toClean \subseteq Services
    /\ error \in {None, "cannot be created", "No service was bound",
                  "Service not registered"}
    /\ waited \in [Threads -> BOOLEAN] /\ stale \in BOOLEAN /\ lost \in BOOLEAN

\* A getter gives up only after its ten seconds, however connection, other getters
\* and leftover permits interleave: unless the service was disconnected or cleaned
\* up.  (ServiceHolder.tryToDealWithNullService)
GivesUpAfterWaiting ==
    error = "No service was bound" /\ ~ lost /\ cleanUps = 0 =>
        \E t \in Threads : pc[t] = "check" /\ waited[t]

\* Every call of a getter ends, with a service or with an exception, although each
\* waits holding the lock.  (ServiceLocator.getAnonimityNetwork and the others)
Called(t) == pc[t] = "call"
Ended(t) == pc[t] = "idle" \/ error # None
GetterEnds == \A t \in Threads : Called(t) ~> Ended(t)

\* ServiceLocator.java:22, "hold references to them until cleanUp() is called": what
\* was unbound is not handed out again.
CleanedUpIsForgotten == ~ stale
=============================================================================
