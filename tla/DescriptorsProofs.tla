------------------------- MODULE DescriptorsProofs -------------------------
(***************************************************************************)
(* Theorems about Descriptors.tla and the DNSCache.tla it extends, for any *)
(* threads, descriptors and expiry: typing, that every open descriptor has *)
(* exactly one owner, and how old an address may be.                       *)
(***************************************************************************)
EXTENDS Descriptors, FiniteSetTheorems, TLAPS

(***************************************************************************)
(* The inductive invariant.  OneOwner counts the owners of a descriptor;   *)
(* Owned says the same without counting, so that a step can be followed    *)
(* one descriptor at a time.  A call forgets its socket when it opens      *)
(* another or leaves, so PlaceInv says at which places it has none, and    *)
(* CallInv which calls may be there.  TimeInv bounds how far behind the    *)
(* clock an answer can be: by `slowest' when it was stored.                *)
(***************************************************************************)
Hands(t) == mine[t] \cup epollFd[t]

DNSPlaces == {"lookup", "resolve", "store", "found", "failed"}

CallInv == \A t \in Threads :
    /\ pc[t] \in DNSPlaces => call[t] \in {"getDomainIP", "connect"}
    /\ pc[t] = "create" => call[t] \in Calls \ {"getDomainIP"}
    /\ pc[t] = "bind" => call[t] \in {"connect", "listen", "bindUdpSock"}

PlaceInv == \A t \in Threads :
    /\ pc[t] \in DNSPlaces \cup {"idle", "create"} => mine[t] = {}
    /\ pc[t] # "addEvent" => epollFd[t] = {}

TimeInv ==
    /\ \A t \in Threads : unit[t].answered <= now
    /\ \A u \in cache : /\ u.answered <= u.created /\ u.created <= now
                        /\ u.created <= u.answered + slowest

Control == TypeOK /\ CallInv /\ PlaceInv /\ TimeInv

\* Each open descriptor is a user's, a call's or lost; no two of them have it.
Placed == \A fd \in Fds :
    fd \in open <=> \/ \E S \in held : fd \in S
                    \/ \E t \in Threads : fd \in Hands(t)
                    \/ fd \in lost

Exclusive == \A fd \in Fds :
    /\ \A t \in Threads : fd \notin mine[t] \cap epollFd[t]
    /\ \A S, T \in held : fd \in S \cap T => S = T
    /\ \A s, t \in Threads : fd \in Hands(s) \cap Hands(t) => s = t
    /\ \A S \in held, t \in Threads : fd \notin S \cap Hands(t)
    /\ fd \in lost => (\A S \in held : fd \notin S) /\ \A t \in Threads : fd \notin Hands(t)

Owned == Placed /\ Exclusive

USE FdsAssumption, TimesAssumption
USE DEF vars, dnsVars, fdVars, GoTo, CloseMine, AsItIs, InPlace, DNSPlaces, Queries, Calls

-----------------------------------------------------------------------------
(* Typing and control *)

\* A cache with one entry, or none, is small enough.
LEMMA CacheSizes == Cardinality({}) = 0 /\ \A u : Cardinality({u}) = 1
BY FS_EmptySet, FS_Singleton

\* The steps of getDomainIP() keep the types, and what is known of the times.
LEMMA DNSControl ==
    ASSUME Control, NEW t \in Threads, DNSStep(t), UNCHANGED <<call, fdVars>>
    PROVE  Control'
<1> USE DEF Control
<1>1. pc[t] \in DNSPlaces /\ (\E p \in DNSPlaces : GoTo(t, p)) /\ UNCHANGED <<call, fdVars>>
      BY DEF DNSStep, Lookup, Resolve, Store
<1>2. pc' \in [Threads -> Places] /\ CallInv' /\ PlaceInv'
      BY <1>1 DEF TypeOK, Places, CallInv, PlaceInv
<1>3. DNSTypeOK' /\ TimeInv'
  <2> USE DEF TypeOK, DNSTypeOK, TimeInv
  <2>1. CASE Lookup(t)
    <3>1. now' = now /\ slowest' = slowest
          BY <2>1 DEF Lookup
    <3>2. CASE cache' = {} /\ unit' = unit
          BY <3>1, <3>2, CacheSizes
    <3>3. CASE \E u \in cache : unit' = [unit EXCEPT ![t] = u] /\ cache' = {u}
      <4> PICK u \in cache : unit' = [unit EXCEPT ![t] = u] /\ cache' = {u}
          BY <3>3
      <4>1. u \in DNSUnit /\ u.answered \in 0..MaxNow /\ u.created \in 0..MaxNow
            BY DEF DNSUnit
      <4>2. u.answered <= now
            BY <4>1
      <4>3. cache' \subseteq DNSUnit /\ Cardinality(cache') = 1
            BY <4>1, CacheSizes
      <4>4. unit' \in [Threads -> DNSUnit]
            BY <4>1
      <4> QED BY <3>1, <4>1, <4>2, <4>3, <4>4
    <3> QED BY <2>1, <3>2, <3>3 DEF Lookup
  <2>2. CASE Resolve(t)
        BY <2>2 DEF Resolve, DNSUnit
  <2>3. CASE Store(t)
    <3> DEFINE u == [unit[t] EXCEPT !.created = now]
               taken == now - unit[t].answered
    <3>1. /\ unit' = [unit EXCEPT ![t] = u] /\ cache' = {u} /\ u \in DNSUnit
          /\ u.created = now /\ u.answered = unit[t].answered /\ u.answered \in 0..MaxNow
          BY <2>3 DEF Store, DNSUnit
    <3>2. taken \in 0..MaxNow /\ slowest' \in 0..MaxNow /\ taken <= slowest' /\ now' = now
          BY <2>3, <3>1 DEF Store
    <3> HIDE DEF u
    <3>3. cache' \subseteq DNSUnit /\ Cardinality(cache') = 1
          BY <3>1, CacheSizes
    <3>4. u.created <= u.answered + slowest'
          BY <3>1, <3>2
    <3>5. TimeInv'
          BY <3>1, <3>2, <3>4
    <3>6. unit' \in [Threads -> DNSUnit]
          BY <3>1
    <3> QED BY <3>2, <3>3, <3>5, <3>6
  <2> QED BY <2>1, <2>2, <2>3 DEF DNSStep
<1> QED BY <1>1, <1>2, <1>3 DEF TypeOK

\* A call that ends leaves the rest as it was.
LEMMA LeaveControl ==
    ASSUME Control, NEW t \in Threads, Leave(t),
           open' \subseteq Fds, held' \subseteq SUBSET Fds, lost' \subseteq Fds
    PROVE  Control'
BY DEF Control, TypeOK, DNSTypeOK, CallInv, PlaceInv, TimeInv, Places, Leave

\* Every step keeps the types, the calls and what they have in hand in order.
LEMMA ControlStep == Control /\ [Next]_vars => Control'
<1> SUFFICES ASSUME Control, [Next]_vars PROVE Control'
    OBVIOUS
<1> USE DEF Control, TypeOK
<1>a. ASSUME UNCHANGED dnsVars PROVE DNSTypeOK' /\ TimeInv'
      BY <1>a DEF DNSTypeOK, TimeInv
<1>b. ASSUME NEW t \in Threads, CloseAndFail(t) PROVE Control'
      BY <1>b, LeaveControl DEF CloseAndFail
<1>c. ASSUME NEW t \in Threads, Return(t) PROVE Control'
      BY <1>c, LeaveControl DEF Return
<1>1. CASE UNCHANGED vars
      BY <1>1 DEF CallInv, PlaceInv, DNSTypeOK, TimeInv
<1>2. CASE \E t \in Threads : DNSStep(t) /\ UNCHANGED <<call, fdVars>>
      BY <1>2, DNSControl
<1>3. CASE Tick /\ UNCHANGED <<call, fdVars>>
      BY <1>3 DEF Tick, CallInv, PlaceInv, DNSTypeOK, TimeInv, DNSUnit
<1>4. CASE \E t \in Threads, c \in Calls : Begin(t, c)
  <2> PICK t \in Threads, c \in Calls : Begin(t, c)
      BY <1>4
  <2>1. TypeOK'
        BY <1>a DEF Begin, Places
  <2>2. CallInv' /\ PlaceInv'
        BY DEF Begin, CallInv, PlaceInv
  <2> QED BY <1>a, <2>1, <2>2 DEF Begin
<1>5. CASE \E t \in Threads : Resolved(t)
  <2> PICK t \in Threads : Resolved(t)
      BY <1>5
  <2>1. NoUnit \in DNSUnit /\ NoUnit.answered = 0
        BY DEF DNSUnit, NoUnit
  <2>2. DNSTypeOK' /\ TimeInv'
        BY <2>1 DEF Resolved, Forget, DNSTypeOK, TimeInv
  <2>3. CallInv' /\ PlaceInv'
        BY DEF Resolved, CallInv, PlaceInv
  <2> QED BY <2>2, <2>3 DEF Resolved, Places
<1>6. CASE \E t \in Threads : Create(t)
  <2> PICK t \in Threads : Create(t)
      BY <1>6
  <2>1. CASE \E new \in SUBSET (Fds \ open) :
               /\ open' = open \cup new
               /\ mine' = [mine EXCEPT ![t] = new]
               /\ GoTo(t, IF call[t] = "EventPoller" THEN "epoll_create"
                          ELSE IF call[t] \in Queries THEN "ioctl" ELSE "bind")
               /\ UNCHANGED <<call, dnsVars, epollFd, held, lost>>
    <3> PICK new \in SUBSET (Fds \ open) :
               /\ open' = open \cup new
               /\ mine' = [mine EXCEPT ![t] = new]
               /\ GoTo(t, IF call[t] = "EventPoller" THEN "epoll_create"
                          ELSE IF call[t] \in Queries THEN "ioctl" ELSE "bind")
               /\ UNCHANGED <<call, dnsVars, epollFd, held, lost>>
        BY <2>1
    <3>1. TypeOK'
          BY <1>a DEF Places
    <3>2. CallInv' /\ PlaceInv'
          BY DEF Create, CallInv, PlaceInv
    <3> QED BY <1>a, <3>1, <3>2
  <2> QED BY <1>b, <2>1 DEF Create
<1>7. CASE \E t \in Threads : Bind(t)
  <2> PICK t \in Threads : Bind(t)
      BY <1>7
  <2>1. CASE call[t] # "bindUdpSock" /\ Proceed(t, call[t])
    <3>1. call[t] \in {"connect", "listen"}
          BY <2>1 DEF Bind, CallInv
    <3>2. pc' \in [Threads -> Places] /\ UNCHANGED <<call, dnsVars, fdVars>>
          BY <2>1, <3>1 DEF Proceed, Places
    <3>3. CallInv' /\ PlaceInv'
          BY <2>1, <3>1 DEF Bind, Proceed, CallInv, PlaceInv
    <3> QED BY <1>a, <3>2, <3>3
  <2> QED BY <1>b, <1>c, <2>1 DEF Bind
<1>8. CASE \E t \in Threads : \/ Listen(t) \/ Connect(t)
                              \/ GetMask(t) \/ GetBroadcast(t) \/ ForEachNetAdapter(t)
      BY <1>b, <1>c, <1>8 DEF Listen, Connect, GetMask, GetBroadcast, ForEachNetAdapter
<1>9. CASE \E t \in Threads : EpollCreate(t)
  <2> PICK t \in Threads : EpollCreate(t)
      BY <1>9
  <2>1. CASE \E fd \in Fds \ open :
               /\ open' = open \cup {fd}
               /\ epollFd' = [epollFd EXCEPT ![t] = {fd}]
               /\ GoTo(t, "addEvent")
               /\ UNCHANGED <<call, dnsVars, mine, held, lost>>
    <3>1. TypeOK'
          BY <1>a, <2>1 DEF Places
    <3>2. CallInv'
          BY <2>1 DEF CallInv
    <3>3. PlaceInv'
          BY <2>1 DEF EpollCreate, PlaceInv
    <3> QED BY <1>a, <2>1, <3>1, <3>2, <3>3
  <2> QED BY <1>b, <2>1 DEF EpollCreate
<1>10. CASE \E t \in Threads : AddEvent(t)
  <2> PICK t \in Threads : AddEvent(t)
      BY <1>10
  <2>1. CASE CloseMine(t) /\ lost' = lost \cup epollFd[t] /\ Leave(t) /\ UNCHANGED held
        BY <2>1, LeaveControl
  <2> QED BY <1>c, <2>1 DEF AddEvent
<1>11. CASE \E fds \in held : Close(fds)
      BY <1>a, <1>11 DEF Close, CallInv, PlaceInv
<1> QED
    BY <1>1, <1>2, <1>3, <1>4, <1>5, <1>6, <1>7, <1>8, <1>9, <1>10, <1>11 DEF Next, Step

-----------------------------------------------------------------------------
(* Ownership *)

\* What the ownership of descriptors depends on stays as it is.
LEMMA SameOwners ==
    ASSUME Owned, UNCHANGED <<open, mine, epollFd, held, lost>>
    PROVE  Owned'
BY DEF Owned, Placed, Exclusive, Hands

\* What a call that leaves had in hand.
LEMMA LeaveFacts ==
    ASSUME Control, NEW t \in Threads, Leave(t)
    PROVE  /\ mine'[t] = {} /\ epollFd'[t] = {} /\ Hands(t)' = {}
           /\ \A s \in Threads \ {t} : /\ mine'[s] = mine[s] /\ epollFd'[s] = epollFd[s]
                                       /\ Hands(s)' = Hands(s)
BY DEF Leave, Control, TypeOK, Hands

\* A failed call that has no epoll set closes all it had.
LEMMA FailOwned ==
    ASSUME Owned, Control, NEW t \in Threads, pc[t] # "addEvent", CloseAndFail(t)
    PROVE  Owned'
<1>1. Hands(t) = mine[t] /\ open' = open \ Hands(t) /\ held' = held /\ lost' = lost
      BY DEF CloseAndFail, Control, PlaceInv, Hands, TypeOK
<1>2. Leave(t)
      BY DEF CloseAndFail
<1>3. Placed'
  <2> SUFFICES ASSUME NEW fd \in Fds
               PROVE  fd \in open' <=> \/ \E S \in held : fd \in S
                                       \/ \E s \in Threads : fd \in Hands(s)'
                                       \/ fd \in lost
      BY <1>1 DEF Placed
  <2>1. CASE fd \in Hands(t)
        BY <1>1, <1>2, <2>1, LeaveFacts DEF Owned, Exclusive
  <2>2. CASE fd \notin Hands(t)
        BY <1>1, <1>2, <2>2, LeaveFacts DEF Owned, Placed
  <2> QED BY <2>1, <2>2
<1>4. Exclusive'
      BY <1>1, <1>2, LeaveFacts DEF Owned, Exclusive
<1> QED BY <1>3, <1>4 DEF Owned

\* A call hands all it has to its caller.
LEMMA ReturnOwned ==
    ASSUME Owned, Control, NEW t \in Threads, Return(t)
    PROVE  Owned'
<1>1. held' = held \cup {Hands(t)} /\ open' = open /\ lost' = lost /\ Leave(t)
      BY DEF Return, Hands
<1>2. Placed'
  <2> SUFFICES ASSUME NEW fd \in Fds
               PROVE  fd \in open <=> \/ \E S \in held' : fd \in S
                                      \/ \E s \in Threads : fd \in Hands(s)'
                                      \/ fd \in lost
      BY <1>1 DEF Placed
  <2>1. CASE fd \in Hands(t)
        BY <1>1, <2>1 DEF Owned, Placed
  <2>2. CASE fd \notin Hands(t)
    <3>1. (\E S \in held' : fd \in S) <=> \E S \in held : fd \in S
          BY <1>1, <2>2
    <3>2. (\E s \in Threads : fd \in Hands(s)') <=> \E s \in Threads : fd \in Hands(s)
          BY <1>1, <2>2, LeaveFacts
    <3> QED BY <3>1, <3>2 DEF Owned, Placed
  <2> QED BY <2>1, <2>2
<1>3. Exclusive'
  <2> SUFFICES ASSUME NEW fd \in Fds
               PROVE  /\ \A s \in Threads : fd \notin mine'[s] \cap epollFd'[s]
                      /\ \A S, T \in held' : fd \in S \cap T => S = T
                      /\ \A r, s \in Threads : fd \in Hands(r)' \cap Hands(s)' => r = s
                      /\ \A S \in held', s \in Threads : fd \notin S \cap Hands(s)'
                      /\ fd \in lost => /\ \A S \in held' : fd \notin S
                                        /\ \A s \in Threads : fd \notin Hands(s)'
      BY <1>1 DEF Exclusive
  <2>1. \A s \in Threads : fd \notin mine'[s] \cap epollFd'[s]
        BY <1>1, LeaveFacts DEF Owned, Exclusive
  <2>2. \A S, T \in held' : fd \in S \cap T => S = T
        BY <1>1 DEF Owned, Exclusive
  <2>3. \A s \in Threads : fd \in Hands(s)' => s # t /\ fd \in Hands(s)
        BY <1>1, LeaveFacts
  <2> QED BY <1>1, <2>1, <2>2, <2>3 DEF Owned, Exclusive
<1> QED BY <1>2, <1>3 DEF Owned

\* The system opens descriptors for thread t, which nobody can have yet.
LEMMA OpenOwned ==
    ASSUME Owned, NEW t \in Threads, NEW new, new \cap open = {},
           open' = open \cup new, held' = held, lost' = lost,
           Hands(t)' = Hands(t) \cup new, mine'[t] \cap epollFd'[t] = {},
           \A s \in Threads \ {t} : /\ mine'[s] = mine[s] /\ epollFd'[s] = epollFd[s]
                                    /\ Hands(s)' = Hands(s)
    PROVE  Owned'
<1>1. ASSUME NEW fd \in Fds, fd \in new
      PROVE  /\ fd \notin lost /\ \A S \in held : fd \notin S
             /\ \A s \in Threads : fd \notin Hands(s)
      BY <1>1 DEF Owned, Placed
<1>2. Placed'
  <2> SUFFICES ASSUME NEW fd \in Fds
               PROVE  fd \in open \cup new <=> \/ \E S \in held : fd \in S
                                               \/ \E s \in Threads : fd \in Hands(s)'
                                               \/ fd \in lost
      BY DEF Placed
  <2>1. CASE fd \in new
        BY <2>1
  <2>2. CASE fd \notin new
    <3>1. \A s \in Threads : fd \in Hands(s)' <=> fd \in Hands(s)
          BY <2>2
    <3> QED BY <2>2, <3>1 DEF Owned, Placed
  <2> QED BY <2>1, <2>2
<1>3. Exclusive'
      BY <1>1 DEF Owned, Exclusive
<1> QED BY <1>2, <1>3 DEF Owned

\* socket() or pipe() gives a call its first descriptors.
LEMMA CreateOwned == Owned /\ Control /\ (\E t \in Threads : Create(t)) => Owned'
<1> SUFFICES ASSUME Owned, Control, NEW t \in Threads, Create(t) PROVE Owned'
    OBVIOUS
<1>1. CASE CloseAndFail(t)
      BY <1>1, FailOwned DEF Create
<1>2. CASE \E new \in SUBSET (Fds \ open) :
             /\ open' = open \cup new
             /\ mine' = [mine EXCEPT ![t] = new]
             /\ UNCHANGED <<epollFd, held, lost>>
  <2> PICK new \in SUBSET (Fds \ open) :
             /\ open' = open \cup new
             /\ mine' = [mine EXCEPT ![t] = new]
             /\ UNCHANGED <<epollFd, held, lost>>
      BY <1>2
  <2>1. mine[t] = {} /\ epollFd[t] = {}
        BY DEF Create, Control, PlaceInv
  <2>2. /\ mine'[t] = new /\ epollFd'[t] = {} /\ Hands(t)' = Hands(t) \cup new
        /\ \A s \in Threads \ {t} : /\ mine'[s] = mine[s] /\ epollFd'[s] = epollFd[s]
                                    /\ Hands(s)' = Hands(s)
        BY <2>1 DEF Control, TypeOK, Hands
  <2> QED BY <2>2, OpenOwned
<1> QED BY <1>1, <1>2 DEF Create

\* epoll_create() gives a poller one more.
LEMMA EpollOwned == Owned /\ Control /\ (\E t \in Threads : EpollCreate(t)) => Owned'
<1> SUFFICES ASSUME Owned, Control, NEW t \in Threads, EpollCreate(t) PROVE Owned'
    OBVIOUS
<1>1. CASE CloseAndFail(t)
      BY <1>1, FailOwned DEF EpollCreate
<1>2. CASE \E fd \in Fds \ open :
             /\ open' = open \cup {fd}
             /\ epollFd' = [epollFd EXCEPT ![t] = {fd}]
             /\ UNCHANGED <<mine, held, lost>>
  <2> PICK fd \in Fds \ open :
             /\ open' = open \cup {fd}
             /\ epollFd' = [epollFd EXCEPT ![t] = {fd}]
             /\ UNCHANGED <<mine, held, lost>>
      BY <1>2
  <2>1. epollFd[t] = {} /\ fd \notin mine[t]
        BY DEF EpollCreate, Control, PlaceInv, Owned, Placed, Hands
  <2>2. /\ mine'[t] = mine[t] /\ epollFd'[t] = {fd} /\ Hands(t)' = Hands(t) \cup {fd}
        /\ \A s \in Threads \ {t} : /\ mine'[s] = mine[s] /\ epollFd'[s] = epollFd[s]
                                    /\ Hands(s)' = Hands(s)
        BY <2>1 DEF Control, TypeOK, Hands
  <2> DEFINE new == {fd}
  <2>3. new \cap open = {} /\ mine'[t] \cap epollFd'[t] = {}
        BY <2>1, <2>2
  <2> QED BY <2>2, <2>3, OpenOwned
<1> QED BY <1>1, <1>2 DEF EpollCreate

\* The constructor of a poller ends, perhaps by the exception that loses its
\* epoll set.
LEMMA AddEventOwned == Owned /\ Control /\ (\E t \in Threads : AddEvent(t)) => Owned'
<1> SUFFICES ASSUME Owned, Control, NEW t \in Threads, AddEvent(t) PROVE Owned'
    OBVIOUS
<1>1. CASE Return(t)
      BY <1>1, ReturnOwned
<1>2. CASE CloseMine(t) /\ lost' = lost \cup epollFd[t] /\ Leave(t) /\ UNCHANGED held
  <2>1. /\ open' = open \ mine[t] /\ held' = held
        /\ \A fd \in Fds : fd \notin mine[t] \cap epollFd[t]
        BY <1>2 DEF Owned, Exclusive
  <2>2. Placed'
    <3> SUFFICES ASSUME NEW fd \in Fds
                 PROVE  fd \in open' <=> \/ \E S \in held : fd \in S
                                         \/ \E s \in Threads : fd \in Hands(s)'
                                         \/ fd \in lost'
        BY <2>1 DEF Placed
    <3>1. CASE fd \in mine[t]
          BY <1>2, <2>1, <3>1, LeaveFacts DEF Owned, Exclusive, Hands
    <3>2. CASE fd \in epollFd[t]
          BY <1>2, <2>1, <3>2, LeaveFacts DEF Owned, Placed, Hands
    <3>3. CASE fd \notin Hands(t)
          BY <1>2, <2>1, <3>3, LeaveFacts DEF Owned, Placed, Hands
    <3> QED BY <3>1, <3>2, <3>3 DEF Hands
  <2>3. Exclusive'
    <3> SUFFICES ASSUME NEW fd \in Fds
                 PROVE  /\ \A s \in Threads : fd \notin mine'[s] \cap epollFd'[s]
                        /\ \A S, T \in held : fd \in S \cap T => S = T
                        /\ \A r, s \in Threads : fd \in Hands(r)' \cap Hands(s)' => r = s
                        /\ \A S \in held, s \in Threads : fd \notin S \cap Hands(s)'
                        /\ fd \in lost' => /\ \A S \in held : fd \notin S
                                           /\ \A s \in Threads : fd \notin Hands(s)'
        BY <2>1 DEF Exclusive
    <3>1. \A s \in Threads : fd \in Hands(s)' => s # t /\ fd \in Hands(s)
          BY <1>2, LeaveFacts
    <3>2. \A s \in Threads : fd \notin mine'[s] \cap epollFd'[s]
          BY <1>2, LeaveFacts DEF Owned, Exclusive
    <3>3. fd \in lost' => fd \in lost \/ fd \in Hands(t)
          BY <1>2 DEF Hands
    <3> QED BY <3>1, <3>2, <3>3 DEF Owned, Exclusive
  <2> QED BY <2>2, <2>3 DEF Owned
<1> QED BY <1>1, <1>2 DEF AddEvent

\* A user closes what is his.
LEMMA CloseOwned == Owned /\ (\E fds \in held : Close(fds)) => Owned'
<1> SUFFICES ASSUME Owned, NEW fds \in held, Close(fds) PROVE Owned'
    OBVIOUS
<1>1. /\ open' = open \ fds /\ held' = held \ {fds} /\ lost' = lost
      /\ mine' = mine /\ epollFd' = epollFd /\ \A s \in Threads : Hands(s)' = Hands(s)
      BY DEF Close, Hands
<1>2. Placed'
  <2> SUFFICES ASSUME NEW fd \in Fds
               PROVE  fd \in open \ fds <=> \/ \E S \in held \ {fds} : fd \in S
                                            \/ \E s \in Threads : fd \in Hands(s)
                                            \/ fd \in lost
      BY <1>1 DEF Placed
  <2>1. CASE fd \in fds
        BY <2>1 DEF Owned, Exclusive
  <2>2. CASE fd \notin fds
        BY <2>2 DEF Owned, Placed
  <2> QED BY <2>1, <2>2
<1>3. Exclusive'
      BY <1>1 DEF Owned, Exclusive
<1> QED BY <1>2, <1>3 DEF Owned

\* No step leaves a descriptor without an owner, or gives it a second one.
LEMMA OwnedStep == Owned /\ Control /\ [Next]_vars => Owned'
<1> SUFFICES ASSUME Owned, Control, [Next]_vars PROVE Owned'
    OBVIOUS
<1>1. CASE UNCHANGED fdVars
      BY <1>1, SameOwners
<1>2. CASE \E t \in Threads : Bind(t) \/ Listen(t) \/ Connect(t)
  <2> PICK t \in Threads : Bind(t) \/ Listen(t) \/ Connect(t)
      BY <1>2
  <2>1. pc[t] # "addEvent"
        BY DEF Bind, Listen, Connect
  <2> QED BY <1>1, <2>1, FailOwned, ReturnOwned DEF Bind, Listen, Connect, Proceed
<1>3. CASE \E t \in Threads : GetMask(t) \/ GetBroadcast(t) \/ ForEachNetAdapter(t)
      BY <1>3, FailOwned DEF GetMask, GetBroadcast, ForEachNetAdapter
<1>4. CASE \E t \in Threads : Create(t) \/ EpollCreate(t) \/ AddEvent(t)
      BY <1>4, CreateOwned, EpollOwned, AddEventOwned
<1> QED
    BY <1>1, <1>2, <1>3, <1>4, CloseOwned DEF Next, Step, Resolved, Begin

-----------------------------------------------------------------------------
(* Counting the owners *)

\* A set whose elements are all equal has at most one.
LEMMA OneAtMost ==
    ASSUME NEW S, \A x, y \in S : x = y
    PROVE  Cardinality(S) = IF S = {} THEN 0 ELSE 1
<1>1. CASE S = {}
      BY <1>1, FS_EmptySet
<1>2. CASE S # {}
  <2> PICK x \in S : TRUE
      BY <1>2
  <2>1. S = {x}
        OBVIOUS
  <2> QED BY <1>2, <2>1, FS_Singleton
<1> QED BY <1>1, <1>2

\* Owners that exclude each other are at most one.
LEMMA OwnedMeansOne == Owned => OneOwner
<1> SUFFICES ASSUME Owned, NEW fd \in Fds
             PROVE  Cardinality({S \in held : fd \in S})
                      + Cardinality({t \in Threads : fd \in mine[t] \cup epollFd[t]})
                      + Cardinality({fd} \cap lost)
                    = IF fd \in open THEN 1 ELSE 0
    BY DEF OneOwner
<1> DEFINE users == {S \in held : fd \in S}
           calls == {t \in Threads : fd \in mine[t] \cup epollFd[t]}
           nobody == {fd} \cap lost
<1>1. /\ \A S, T \in users : S = T
      /\ \A s, t \in calls : s = t
      /\ \A x, y \in nobody : x = y
      BY DEF Owned, Exclusive, Hands
<1>2. /\ fd \in open <=> users # {} \/ calls # {} \/ nobody # {}
      /\ ~(users # {} /\ calls # {}) /\ ~(users # {} /\ nobody # {})
      /\ ~(calls # {} /\ nobody # {})
      BY DEF Owned, Placed, Exclusive, Hands
<1> HIDE DEF users, calls, nobody
<1>3. /\ Cardinality(users) = IF users = {} THEN 0 ELSE 1
      /\ Cardinality(calls) = IF calls = {} THEN 0 ELSE 1
      /\ Cardinality(nobody) = IF nobody = {} THEN 0 ELSE 1
      BY <1>1, OneAtMost
<1>4. Cardinality(users) + Cardinality(calls) + Cardinality(nobody)
        = IF fd \in open THEN 1 ELSE 0
      BY <1>2, <1>3
<1> QED BY <1>4 DEF users, calls, nobody

-----------------------------------------------------------------------------
(* The theorems *)

\* The invariant above holds in every reachable state.
LEMMA Invariance == Spec => [](Control /\ Owned)
<1>1. ASSUME Init PROVE Control /\ Owned
  <2>1. NoUnit \in DNSUnit /\ NoUnit.answered = 0
        BY DEF NoUnit, DNSUnit
  <2>2. DNSTypeOK /\ TimeInv
        BY <1>1, <2>1, CacheSizes DEF Init, DNSInit, DNSTypeOK, TimeInv
  <2>3. TypeOK
        BY <1>1, <2>2 DEF Init, TypeOK, Places
  <2>4. CallInv /\ PlaceInv
        BY <1>1 DEF Init, CallInv, PlaceInv
  <2>5. Owned
        BY <1>1 DEF Init, Owned, Placed, Exclusive, Hands
  <2> QED BY <2>2, <2>3, <2>4, <2>5 DEF Control
<1> QED BY <1>1, ControlStep, OwnedStep, PTL DEF Spec

\* The cache has one entry at most, and no answer is from the future.
THEOREM TypeCorrect == Spec => []TypeOK
<1>1. Control => TypeOK
      BY DEF Control
<1> QED BY <1>1, Invariance, PTL

\* No descriptor leaks and none has two owners, for any number of threads and
\* descriptors and whichever system call fails: only the epoll set of a
\* constructor that throws in addEvent() is lost.
THEOREM DescriptorsOwned == Spec => []OneOwner
<1> QED BY OwnedMeansOne, Invariance, PTL

\* How old an address that getDomainIP() returns may be, for any clock and
\* any number of threads that resolve at once.
THEOREM AddressAgeBounded == Spec => AddressAge
<1>1. Control /\ [Next]_vars =>
        [\A t \in Threads : pc[t] # "found" /\ pc'[t] = "found"
           => now - unit'[t].answered <= Expire + slowest']_<<pc, dnsVars>>
  <2> SUFFICES ASSUME Control, [Next]_vars, NEW t \in Threads,
                      pc[t] # "found", pc'[t] = "found"
               PROVE  now - unit'[t].answered <= Expire + slowest'
      OBVIOUS
  <2> USE DEF Control, TypeOK, DNSTypeOK, TimeInv
  <2>1. Lookup(t) \/ Store(t)
    <3>1. \A s \in Threads : \A place : GoTo(s, place) => s = t /\ place = "found"
      <4> SUFFICES ASSUME NEW s \in Threads, NEW place, GoTo(s, place)
                   PROVE  s = t /\ place = "found"
          OBVIOUS
      <4> QED OBVIOUS
    <3>2. ~UNCHANGED pc
          OBVIOUS
    <3>3. \A s \in Threads : ~Leave(s)
          BY <3>1 DEF Leave
    <3>4. PICK s \in Threads : DNSStep(s)
          BY <3>1, <3>2, <3>3 DEF Next, Step, Begin, Resolved, Create, Bind, Listen, Connect, GetMask,
             GetBroadcast, ForEachNetAdapter, EpollCreate, AddEvent, Close, Tick, CloseAndFail,
             Return, Proceed
    <3> QED BY <3>1, <3>4 DEF DNSStep, Lookup, Resolve, Store
  <2>2. CASE Lookup(t)
    <3> PICK u \in cache : now <= u.created + Expire /\ unit'[t] = u /\ slowest' = slowest
        BY <2>2 DEF Lookup
    <3>1. u.created <= u.answered + slowest
          OBVIOUS
    <3>2. u.created \in Nat /\ u.answered \in Nat /\ now \in Nat /\ slowest \in Nat
          BY DEF DNSUnit
    <3> QED BY <3>1, <3>2
  <2>3. CASE Store(t)
    <3>1. unit'[t].answered = unit[t].answered /\ unit[t].answered \in 0..MaxNow
          BY <2>3 DEF Store, DNSUnit
    <3>2. now - unit[t].answered <= slowest' /\ slowest' \in 0..MaxNow
          BY <2>3, <3>1 DEF Store
    <3> QED BY <3>1, <3>2
  <2> QED BY <2>1, <2>2, <2>3
<1> QED BY <1>1, Invariance, PTL DEF Spec, AddressAge
=============================================================================
