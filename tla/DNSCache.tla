------------------------------ MODULE DNSCache ------------------------------
(***************************************************************************)
(* The cache of resolved names in Network/SocketHandler.cpp.  The map has a*)
(* lock, which is not held while the system resolves a name: threads that  *)
(* miss at once resolve at once, and store their answers in any order.     *)
(* Entries of different names do not interact, so one name is modelled; an *)
(* address is known by the time at which the system gave it.               *)
(***************************************************************************)
EXTENDS Naturals, FiniteSets

CONSTANTS Threads,   \* the threads that ask for the address
          Expire,    \* expireInterval
          MaxNow     \* bound: the clock, in seconds

ASSUME TimesAssumption == Expire \in Nat /\ MaxNow \in Nat

VARIABLES
    now,       \* time(NULL)
    cache,     \* _DNSMap: no entry, or one
    pc,        \* where each thread is in its call
    unit,      \* the DNSUnit of each call
    slowest    \* history: the longest a thread took to store an answer

dnsVars == <<now, cache, unit, slowest>>

DNSUnit == [answered : 0..MaxNow, created : 0..MaxNow]
NoUnit == [answered |-> 0, created |-> 0]

DNSTypeOK ==
    /\ now \in 0..MaxNow /\ slowest \in 0..MaxNow
    /\ cache \subseteq DNSUnit /\ Cardinality(cache) <= 1
    /\ unit \in [Threads -> DNSUnit]

DNSInit ==
    /\ now = 0 /\ cache = {}
    /\ unit = [t \in Threads |-> NoUnit] /\ slowest = 0

GoTo(t, place) == pc' = [pc EXCEPT ![t] = place]

Tick ==
    /\ now < MaxNow
    /\ now' = now + 1
    /\ UNCHANGED <<cache, pc, unit, slowest>>

Refreshed(u) == {[u EXCEPT !.created = now]}

AsItIs(u) == {u}

\* getCacheDomainIP(): an entry that has expired is erased.
Lookup(t) ==
    /\ pc[t] = "lookup"
    /\ \/ \E u \in cache :
            /\ now <= u.created + Expire
            /\ unit' = [unit EXCEPT ![t] = u]
            /\ cache' = AsItIs(u)
            /\ GoTo(t, "found")
       \/ /\ \A u \in cache : now > u.created + Expire
          /\ cache' = {}
          /\ GoTo(t, "resolve")
          /\ UNCHANGED unit
    /\ UNCHANGED <<now, slowest>>

\* getSystemDomainIP().  A resolution that is interrupted fails like others:
\* getaddrinfo() then returns EAI_SYSTEM, which is not -1.
Resolve(t) ==
    /\ pc[t] = "resolve"
    /\ \/ GoTo(t, "failed") /\ UNCHANGED unit
       \/ /\ unit' = [unit EXCEPT ![t].answered = now]
          /\ GoTo(t, "store")
    /\ UNCHANGED <<now, cache, slowest>>

Beside(u) == cache \cup {u}

InPlace(u) == {u}

\* setCacheDomainIP(): whatever is there is replaced.
Store(t) ==
    /\ pc[t] = "store"
    /\ unit' = [unit EXCEPT ![t].created = now]
    /\ cache' = InPlace(unit'[t])
    /\ LET taken == now - unit[t].answered IN
       slowest' = IF taken > slowest THEN taken ELSE slowest
    /\ GoTo(t, "found")
    /\ UNCHANGED now

\* The call is over, and its DNSUnit gone.
Forget(t) == unit' = [unit EXCEPT ![t] = NoUnit] /\ UNCHANGED <<now, cache, slowest>>

DNSStep(t) == Lookup(t) \/ Resolve(t) \/ Store(t)

-----------------------------------------------------------------------------
(* Properties *)

\* getDomainIP() never returns an address that the system gave longer ago
\* than expireInterval and the longest a thread has taken to store an answer,
\* although an older answer may replace a newer one.
AddressAge ==
    [][\A t \in Threads : pc[t] # "found" /\ pc'[t] = "found"
         => now - unit'[t].answered <= Expire + slowest']_<<pc, dnsVars>>
=============================================================================
