------------------------------ MODULE EventMap ------------------------------
(***************************************************************************)
(* The event side of Poller/EventPoller.cpp: which descriptors epoll       *)
(* watches, and the callbacks in _eventMap.  The loop thread dispatches    *)
(* the events of one epoll_wait one by one; callbacks call addEvent() and  *)
(* deleteEvent() at once, other threads queue the same calls, which the    *)
(* loop makes when the event of its pipe comes up (EventPoller.tla).       *)
(*                                                                         *)
(* A descriptor is a number that the system gives to one file after        *)
(* another; a callback is named by the file it was registered for.  close()*)
(* takes the descriptor out of epoll, and the poller is not told.  A user  *)
(* who closes in order has the result of his last deleteEvent() first.     *)
(*                                                                         *)
(* modifyEvent() changes nothing: every watch is added with EPOLLEXCLUSIVE,*)
(* and the system refuses EPOLL_CTL_MOD for those.                         *)
(***************************************************************************)
EXTENDS Naturals, Sequences, FiniteSets, SequencesExt

CONSTANTS Fds,         \* the descriptors
          Pipe,        \* the pipe of the poller
          MaxFiles,    \* bound: the files opened
          MaxCalls,    \* bound: the calls queued
          CloseEarly   \* whether users close before deleteEvent() has reported

ASSUME FdsAssumption == IsFiniteSet(Fds) /\ Pipe \notin Fds
ASSUME BoundsAssumption == MaxFiles \in Nat /\ MaxCalls \in Nat
ASSUME CloseAssumption == CloseEarly \in BOOLEAN

VARIABLES
    file,      \* the file behind each descriptor (0: closed)
    nFiles,    \* files opened so far
    kernel,    \* the descriptors epoll watches
    eventMap,  \* _eventMap: the file each callback is for (0: no callback)
    asked,     \* files addEvent() was called for, until their deletion is reported
    calls,     \* addEvent() and deleteEvent() of other threads, queued
    batch,     \* the queued calls the loop is making
    events,    \* the events of this epoll_wait still to dispatch
    running    \* whether the callback of the first of them is running

loopVars == <<calls, batch, events, running>>
vars == <<file, nFiles, kernel, eventMap, asked, loopVars>>

Files == 1..MaxFiles
Call == [add : BOOLEAN, fd : Fds, file : Files]

TypeOK ==
    /\ file \in [Fds -> 0..MaxFiles] /\ nFiles \in 0..MaxFiles
    /\ kernel \subseteq {fd \in Fds : file[fd] \in asked}
    /\ eventMap \in [Fds -> 0..MaxFiles]
    /\ asked \subseteq Files
    /\ calls \in Seq(Call) /\ batch \in Seq(Call)
    /\ events \in Seq(Fds \cup {Pipe})
    /\ running \in BOOLEAN

Init ==
    /\ file = [fd \in Fds |-> 0] /\ nFiles = 0
    /\ kernel = {} /\ eventMap = [fd \in Fds |-> 0] /\ asked = {}
    /\ calls = <<>> /\ batch = <<>> /\ events = <<>> /\ running = FALSE

-----------------------------------------------------------------------------
(* Files *)

Open(fd) ==
    /\ file[fd] = 0 /\ nFiles < MaxFiles
    /\ nFiles' = nFiles + 1
    /\ file' = [file EXCEPT ![fd] = nFiles + 1]
    /\ UNCHANGED <<kernel, eventMap, asked, loopVars>>

Pending(f) == \E i \in DOMAIN (batch \o calls) : (batch \o calls)[i].file = f

KeepsWatch(fd) == UNCHANGED kernel

DropsWatch(fd) == kernel' = kernel \ {fd}

Close(fd) ==
    /\ file[fd] # 0
    /\ CloseEarly \/ (file[fd] \notin asked /\ ~Pending(file[fd]))
    /\ file' = [file EXCEPT ![fd] = 0]
    /\ DropsWatch(fd)
    /\ UNCHANGED <<nFiles, eventMap, asked, loopVars>>

-----------------------------------------------------------------------------
(* addEvent() and deleteEvent() on the loop thread *)

\* EPOLL_CTL_ADD refuses a closed descriptor and one it has; emplace() keeps
\* a callback that is in the map already.
AddEvent(fd, f) ==
    IF file[fd] # 0 /\ fd \notin kernel
    THEN /\ kernel' = kernel \cup {fd}
         /\ eventMap' = IF eventMap[fd] = 0 THEN [eventMap EXCEPT ![fd] = f] ELSE eventMap
    ELSE UNCHANGED <<kernel, eventMap>>

CallbackKept(fd) == UNCHANGED eventMap

EraseCallback(fd) == eventMap' = [eventMap EXCEPT ![fd] = 0]

\* EPOLL_CTL_DEL, and only if it succeeds the callback too; success is
\* reported when there was one.
DeleteEvent(fd, f) ==
    IF fd \in kernel
    THEN /\ DropsWatch(fd)
         /\ EraseCallback(fd)
         /\ asked' = IF eventMap[fd] # 0 THEN asked \ {f} ELSE asked
    ELSE UNCHANGED <<kernel, eventMap, asked>>

-----------------------------------------------------------------------------
(* The same calls on other threads *)

Queue(call) ==
    /\ Len(calls) < MaxCalls
    /\ calls' = Append(calls, call)
    /\ UNCHANGED <<file, nFiles, kernel, eventMap, batch, events, running>>

CallAdd(fd) ==
    /\ file[fd] \in Files \ asked
    /\ asked' = asked \cup {file[fd]}
    /\ Queue([add |-> TRUE, fd |-> fd, file |-> file[fd]])

CallDelete(fd) ==
    /\ file[fd] \in asked
    /\ UNCHANGED asked
    /\ Queue([add |-> FALSE, fd |-> fd, file |-> file[fd]])

-----------------------------------------------------------------------------
(* The loop thread: runLoop() *)

\* epoll_wait returns any of the descriptors it watches, in any order.
Wait ==
    /\ events = <<>> /\ batch = <<>>
    /\ \E ready \in SUBSET (kernel \cup IF calls = <<>> THEN {} ELSE {Pipe}) :
         ready # {} /\ events' \in SetToSeqs(ready)
    /\ UNCHANGED <<file, nFiles, kernel, eventMap, asked, calls, batch, running>>

Turn == events # <<>> /\ batch = <<>> /\ ~running
Loops == UNCHANGED <<file, nFiles>>

\* The event of the pipe: onPipeEvent() takes all the calls that are queued, ...
TakeCalls ==
    /\ Turn /\ Head(events) = Pipe
    /\ batch' = calls /\ calls' = <<>>
    /\ events' = Tail(events)
    /\ Loops /\ UNCHANGED <<kernel, eventMap, asked, running>>

\* ... and makes them.
MakeCall ==
    /\ batch # <<>>
    /\ LET call == Head(batch) IN
       IF call.add THEN AddEvent(call.fd, call.file) /\ UNCHANGED asked
                   ELSE DeleteEvent(call.fd, call.file)
    /\ batch' = Tail(batch)
    /\ Loops /\ UNCHANGED <<calls, events, running>>

\* An event without a callback: the descriptor is taken out of epoll.
DropWatch ==
    /\ Turn /\ Head(events) # Pipe
    /\ eventMap[Head(events)] = 0
    /\ DropsWatch(Head(events))
    /\ events' = Tail(events)
    /\ Loops /\ UNCHANGED <<eventMap, asked, calls, batch, running>>

BeginCallback ==
    /\ Turn /\ Head(events) # Pipe
    /\ eventMap[Head(events)] # 0
    /\ running' = TRUE
    /\ Loops /\ UNCHANGED <<kernel, eventMap, asked, calls, batch, events>>

CallbackAdds(fd) ==
    /\ running
    /\ file[fd] \in Files \ asked
    /\ asked' = asked \cup {file[fd]}
    /\ AddEvent(fd, file[fd])
    /\ Loops /\ UNCHANGED loopVars

CallbackDeletes(fd) ==
    /\ running
    /\ file[fd] \in asked
    /\ DeleteEvent(fd, file[fd])
    /\ Loops /\ UNCHANGED loopVars

\* The callback returns, or throws and is caught.
EndCallback ==
    /\ running
    /\ running' = FALSE
    /\ events' = Tail(events)
    /\ Loops /\ UNCHANGED <<kernel, eventMap, asked, calls, batch>>

Next ==
    \/ \E fd \in Fds :
         \/ Open(fd) \/ Close(fd)
         \/ CallAdd(fd) \/ CallDelete(fd)
         \/ CallbackAdds(fd) \/ CallbackDeletes(fd)
    \/ Wait \/ TakeCalls \/ MakeCall \/ DropWatch \/ BeginCallback \/ EndCallback

Spec == Init /\ [][Next]_vars

-----------------------------------------------------------------------------
(* Properties *)

\* A descriptor is watched exactly while it has a callback, and that callback
\* is the one of the file now behind it, through any mixture of calls from
\* callbacks and from other threads, if files are closed in order.
CallbackIsCurrent ==
    \A fd \in Fds :
        IF fd \in kernel THEN eventMap[fd] = file[fd] ELSE eventMap[fd] = 0

\* Once deleteEvent() has reported success for a file its callback does not
\* run again, though its event may be in the batch being dispatched.
SilentAfterDelete ==
    [][~running /\ running' => eventMap[Head(events)] \in asked]_vars
=============================================================================
