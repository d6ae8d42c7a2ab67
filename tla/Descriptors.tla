---------------------------- MODULE Descriptors ----------------------------
(***************************************************************************)
(* Who has to close which descriptor: the calls of SocketHandler.cpp that  *)
(* open sockets, and the pipe and the epoll set of an EventPoller.  Each   *)
(* call opens, binds and so on one system call at a time, each of which may*)
(* fail, while other threads use the descriptors this one closes.          *)
(*                                                                         *)
(* Options are set on a socket right after it is opened; their results are *)
(* ignored, and nothing here depends on them.                              *)
(***************************************************************************)
EXTENDS DNSCache

CONSTANT Fds    \* the descriptors the process may have

ASSUME FdsAssumption == IsFiniteSet(Fds)

VARIABLES
    open,    \* the descriptors that are open
    call,    \* the call each thread is in
    mine,    \* the socket, or the pipe, of the call
    epollFd, \* _epollFd of a poller under construction
    held,    \* what users have: one set for each socket and each poller
    lost     \* history: descriptors nobody can close any more

fdVars == <<open, mine, epollFd, held, lost>>
vars == <<dnsVars, pc, call, fdVars>>

Queries == {"get_ifr_mask", "get_ifr_brdaddr", "for_each_netAdapter"}
Calls == {"getDomainIP", "connect", "listen", "bindUdpSock", "EventPoller"} \cup Queries
Places == {"idle", "lookup", "resolve", "store", "found", "failed",
           "create", "bind", "listen", "connect", "ioctl", "epoll_create", "addEvent"}

TypeOK ==
    /\ DNSTypeOK
    /\ pc \in [Threads -> Places] /\ call \in [Threads -> Calls \cup {"none"}]
    /\ open \subseteq Fds /\ lost \subseteq Fds
    /\ mine \in [Threads -> SUBSET Fds] /\ epollFd \in [Threads -> SUBSET Fds]
    /\ held \subseteq SUBSET Fds

Init ==
    /\ DNSInit
    /\ pc = [t \in Threads |-> "idle"]
    /\ call = [t \in Threads |-> "none"]
    /\ open = {} /\ held = {} /\ lost = {}
    /\ mine = [t \in Threads |-> {}] /\ epollFd = [t \in Threads |-> {}]

-----------------------------------------------------------------------------
(* How a call ends *)

Leave(t) ==
    /\ GoTo(t, "idle")
    /\ call' = [call EXCEPT ![t] = "none"]
    /\ mine' = [mine EXCEPT ![t] = {}]
    /\ epollFd' = [epollFd EXCEPT ![t] = {}]
    /\ UNCHANGED dnsVars

\* It returns its descriptor, or the poller it has made.
Return(t) ==
    /\ held' = held \cup {mine[t] \cup epollFd[t]}
    /\ Leave(t)
    /\ UNCHANGED <<open, lost>>

CloseForgotten(t) == UNCHANGED open

CloseMine(t) == open' = open \ mine[t]

\* It closes its socket and returns -1, or an exception destroys the pipe.
CloseAndFail(t) ==
    /\ CloseMine(t)
    /\ Leave(t)
    /\ UNCHANGED <<held, lost>>

Proceed(t, place) == GoTo(t, place) /\ UNCHANGED <<call, dnsVars, fdVars>>

-----------------------------------------------------------------------------
(* The system calls of a call *)

Begin(t, c) ==
    /\ pc[t] = "idle"
    /\ call' = [call EXCEPT ![t] = c]
    /\ GoTo(t, IF c \in {"getDomainIP", "connect"} THEN "lookup" ELSE "create")
    /\ UNCHANGED <<dnsVars, fdVars>>

Resolved(t) ==
    /\ pc[t] \in {"found", "failed"}
    /\ Forget(t)
    /\ IF pc[t] = "found" /\ call[t] = "connect"
       THEN GoTo(t, "create") /\ UNCHANGED call
       ELSE GoTo(t, "idle") /\ call' = [call EXCEPT ![t] = "none"]
    /\ UNCHANGED fdVars

\* socket(), or pipe() for a poller.
Create(t) ==
    /\ pc[t] = "create"
    /\ \/ CloseAndFail(t)
       \/ \E new \in SUBSET (Fds \ open) :
            /\ Cardinality(new) = IF call[t] = "EventPoller" THEN 2 ELSE 1
            /\ open' = open \cup new
            /\ mine' = [mine EXCEPT ![t] = new]
            /\ GoTo(t, IF call[t] = "EventPoller" THEN "epoll_create"
                       ELSE IF call[t] \in Queries THEN "ioctl" ELSE "bind")
            /\ UNCHANGED <<call, dnsVars, epollFd, held, lost>>

\* bindSock()
Bind(t) ==
    /\ pc[t] = "bind"
    /\ \/ CloseAndFail(t)
       \/ call[t] = "bindUdpSock" /\ Return(t)
       \/ call[t] # "bindUdpSock" /\ Proceed(t, call[t])

Listen(t) ==
    /\ pc[t] = "listen"
    /\ \/ CloseAndFail(t)
       \/ Return(t)

\* ::connect() gets 0 for the length of the address and fails, and the
\* descriptor is returned because it does.
Connect(t) == pc[t] = "connect" /\ Return(t)

\* Queries about network adapters close their socket whatever they learn:
\* two of them about one adapter, ...
GetMask(t) == pc[t] = "ioctl" /\ call[t] = "get_ifr_mask" /\ CloseAndFail(t)

GetBroadcast(t) == pc[t] = "ioctl" /\ call[t] = "get_ifr_brdaddr" /\ CloseAndFail(t)

\* ... the others about all, before they call the function they are given.
ForEachNetAdapter(t) == pc[t] = "ioctl" /\ call[t] = "for_each_netAdapter" /\ CloseAndFail(t)

\* EventPoller(): if epoll_create() fails, the pipe is destroyed with the
\* members.
EpollCreate(t) ==
    /\ pc[t] = "epoll_create"
    /\ \/ CloseAndFail(t)
       \/ \E fd \in Fds \ open :
            /\ open' = open \cup {fd}
            /\ epollFd' = [epollFd EXCEPT ![t] = {fd}]
            /\ GoTo(t, "addEvent")
            /\ UNCHANGED <<call, dnsVars, mine, held, lost>>

\* If epoll does not take the pipe, the constructor throws: the pipe is
\* destroyed, but the destructor that closes _epollFd does not run.
AddEvent(t) ==
    /\ pc[t] = "addEvent"
    /\ \/ Return(t)
       \/ /\ CloseMine(t)
          /\ lost' = lost \cup epollFd[t]
          /\ Leave(t)
          /\ UNCHANGED held

\* close() by the user, or ~EventPoller().
Close(fds) ==
    /\ fds \in held
    /\ open' = open \ fds
    /\ held' = held \ {fds}
    /\ UNCHANGED <<dnsVars, pc, call, mine, epollFd, lost>>

-----------------------------------------------------------------------------

Step(t) ==
    \/ Resolved(t) \/ Create(t) \/ Bind(t) \/ Listen(t) \/ Connect(t)
    \/ GetMask(t) \/ GetBroadcast(t) \/ ForEachNetAdapter(t) \/ EpollCreate(t) \/ AddEvent(t)
    \/ DNSStep(t) /\ UNCHANGED <<call, fdVars>>

Next ==
    \/ \E t \in Threads : Step(t) \/ \E c \in Calls : Begin(t, c)
    \/ \E fds \in held : Close(fds)
    \/ Tick /\ UNCHANGED <<call, fdVars>>

Spec == Init /\ [][Next]_vars

-----------------------------------------------------------------------------
(* Properties *)

\* Every open descriptor has exactly one owner, a call or a user, whichever
\* system call failed on whichever thread: none leaks, and none is closed by
\* one owner under another.  Only a poller whose constructor throws in
\* addEvent() leaves its epoll set behind.
OneOwner ==
    \A fd \in Fds :
        Cardinality({S \in held : fd \in S})
          + Cardinality({t \in Threads : fd \in mine[t] \cup epollFd[t]})
          + Cardinality({fd} \cap lost)
        = IF fd \in open THEN 1 ELSE 0
=============================================================================
