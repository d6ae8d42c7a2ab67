--------------------------- MODULE EventMapProofs ---------------------------
(***************************************************************************)
(* For any descriptors, files and calls: while users close in order, every *)
(* watch has the callback of its own file, and no callback runs after its  *)
(* deletion was reported.                                                  *)
(*                                                                         *)
(* Neither holds by induction as it stands.  A call made by another thread *)
(* is carried out later, so the invariant speaks of the calls on their way *)
(* as well: each is still about the file it was made for, and an addEvent()*)
(* on its way is the only one of its file, which is not watched yet.       *)
(*                                                                         *)
(* And for any holders and sizes: while nobody cuts off data, the holders  *)
(* of the buffer of a poller share one, and its data lie in its memory; the*)
(* events are dispatched beside it as EventMap.tla says.                   *)
(***************************************************************************)
EXTENDS SharedBuffer, FiniteSetTheorems, SequenceTheorems, TLAPS

\* The calls on their way, oldest first.
Coming == batch \o calls

\* No two descriptors have one file, and files are numbered as they open.
FileInv ==
    /\ \A fd \in Fds : file[fd] <= nFiles
    /\ \A fd, fe \in Fds : file[fd] = file[fe] /\ file[fd] # 0 => fd = fe

WatchInv == \A fd \in kernel : file[fd] \in asked

CallInv(coming, files, watched, wanted) ==
    /\ \A i \in DOMAIN coming : coming[i].file = files[coming[i].fd]
    /\ \A i \in DOMAIN coming : coming[i].add
         => coming[i].file \in wanted /\ coming[i].fd \notin watched
    /\ \A i, j \in DOMAIN coming :
         coming[i].add /\ coming[j].add /\ coming[i].file = coming[j].file => i = j

\* A callback runs for the event at the head.
TurnInv == running => events # <<>>

IInv ==
    /\ TypeOK /\ FileInv /\ WatchInv /\ CallInv(Coming, file, kernel, asked)
    /\ TurnInv /\ CallbackIsCurrent

USE FdsAssumption, BoundsAssumption
USE DEF Files, Call, loopVars, Loops, DropsWatch, EraseCallback

-----------------------------------------------------------------------------
(* The calls on their way *)

\* They are calls, whichever part of them the loop has taken.
LEMMA ComingType == TypeOK => Coming \in Seq(Call)
<1> SUFFICES ASSUME TypeOK PROVE Coming \in Seq(Call)
    OBVIOUS
<1>1. batch \in Seq(Call) /\ calls \in Seq(Call)
      BY DEF TypeOK
<1> QED BY <1>1, ConcatProperties DEF Coming

\* A call that is queued comes last.
LEMMA ComingQueued ==
    ASSUME TypeOK, NEW call \in Call, calls' = Append(calls, call), batch' = batch
    PROVE  Coming' = Append(Coming, call)
<1>1. batch \in Seq(Call) /\ calls \in Seq(Call)
      BY DEF TypeOK
<1>2. Append(calls, call) = calls \o <<call>> /\ <<call>> \in Seq(Call)
      BY <1>1, AppendIsConcat
<1>3. (batch \o calls) \o <<call>> = batch \o (calls \o <<call>>)
      BY <1>1, <1>2, ConcatAssociative
<1>4. Append(batch \o calls, call) = (batch \o calls) \o <<call>>
      BY <1>1, ConcatProperties, AppendIsConcat
<1> QED BY <1>2, <1>3, <1>4 DEF Coming

\* Taking the queued calls changes nothing about what is on its way.
LEMMA ComingTaken ==
    ASSUME TypeOK, batch = <<>>, batch' = calls, calls' = <<>>
    PROVE  Coming' = Coming
<1>1. calls \in Seq(Call)
      BY DEF TypeOK
<1>2. <<>> \o calls = calls /\ calls \o <<>> = calls
      BY <1>1, ConcatEmptySeq
<1> QED BY <1>2 DEF Coming

\* Making a call takes the first one away.
LEMMA ComingMade ==
    ASSUME TypeOK, batch # <<>>, batch' = Tail(batch), calls' = calls
    PROVE  /\ Coming' = Tail(Coming) /\ Coming # <<>>
           /\ Head(batch) = Head(Coming) /\ Head(batch) \in Call
<1>1. batch \in Seq(Call) /\ calls \in Seq(Call)
      BY DEF TypeOK
<1>2. Head(batch) \in Call /\ Tail(batch) \in Seq(Call)
      BY <1>1, HeadTailProperties
<1> DEFINE all == batch \o calls
<1>3. all \in Seq(Call) /\ Len(all) = Len(batch) + Len(calls)
      BY <1>1, ConcatProperties
<1>4. \A i \in 1..Len(batch) + Len(calls) :
        all[i] = IF i <= Len(batch) THEN batch[i] ELSE calls[i - Len(batch)]
      BY <1>1, ConcatProperties
<1>5. Len(batch) \in Nat \ {0} /\ Len(calls) \in Nat
      BY <1>1, EmptySeq, LenProperties
<1>6. all # <<>>
      BY <1>3, <1>5, EmptySeq
<1>7. Head(all) = Head(batch)
      BY <1>3, <1>4, <1>5, <1>6, <1>1
<1> DEFINE rest == Tail(batch) \o calls
<1>8. /\ Len(Tail(batch)) = Len(batch) - 1
      /\ \A i \in 1..Len(batch) - 1 : Tail(batch)[i] = batch[i + 1]
      BY <1>1, HeadTailProperties
<1>9. /\ rest \in Seq(Call) /\ Len(rest) = Len(batch) - 1 + Len(calls)
      /\ \A i \in 1..Len(batch) - 1 + Len(calls) : rest[i] =
           IF i <= Len(batch) - 1 THEN Tail(batch)[i] ELSE calls[i - (Len(batch) - 1)]
      BY <1>1, <1>2, <1>8, ConcatProperties
<1>10. /\ Tail(all) \in Seq(Call) /\ Len(Tail(all)) = Len(all) - 1
       /\ \A i \in 1..Len(all) - 1 : Tail(all)[i] = all[i + 1]
      BY <1>3, <1>6, HeadTailProperties
<1>11. Len(rest) = Len(Tail(all))
      BY <1>3, <1>5, <1>9, <1>10
<1>12. \A i \in 1..Len(rest) : rest[i] = Tail(all)[i]
  <2> TAKE i \in 1..Len(rest)
  <2>1. CASE i <= Len(batch) - 1
        BY <2>1, <1>3, <1>4, <1>5, <1>8, <1>9, <1>10
  <2>2. CASE i > Len(batch) - 1
    <3>1. /\ i \in 1..Len(batch) - 1 + Len(calls)
          /\ i + 1 \in 1..Len(batch) + Len(calls) /\ ~(i + 1 <= Len(batch))
          BY <2>2, <1>5, <1>9
    <3>2. rest[i] = calls[i - (Len(batch) - 1)]
          BY <2>2, <3>1, <1>5, <1>9
    <3>3. Tail(all)[i] = calls[(i + 1) - Len(batch)]
          BY <3>1, <1>3, <1>4, <1>5, <1>10
    <3>4. i - (Len(batch) - 1) = (i + 1) - Len(batch)
          BY <1>5
    <3> QED BY <3>2, <3>3, <3>4
  <2> QED BY <2>1, <2>2, <1>5
<1>13. rest = Tail(all)
      BY <1>9, <1>10, <1>11, <1>12, SeqEqual
<1> QED BY <1>2, <1>6, <1>7, <1>13 DEF Coming

\* What is on its way stays in order when a call is made ...
LEMMA CallsShrink ==
    ASSUME NEW coming \in Seq(Call), coming # <<>>,
           NEW files, NEW watched, NEW wanted, CallInv(coming, files, watched, wanted)
    PROVE  CallInv(Tail(coming), files, watched, wanted)
<1> DEFINE rest == Tail(coming)
<1>1. Len(coming) \in Nat \ {0} /\ DOMAIN coming = 1..Len(coming)
      BY EmptySeq, LenProperties
<1>2. /\ rest \in Seq(Call) /\ DOMAIN rest = 1..Len(coming) - 1
      /\ \A i \in 1..Len(coming) - 1 : rest[i] = coming[i + 1]
      BY HeadTailProperties, LenProperties
<1>3. \A i \in DOMAIN rest : i \in Int /\ i + 1 \in DOMAIN coming /\ rest[i] = coming[i + 1]
      BY <1>1, <1>2
<1> HIDE DEF rest
<1>4. ASSUME NEW i \in DOMAIN rest, NEW j \in DOMAIN rest,
             rest[i].add, rest[j].add, rest[i].file = rest[j].file
      PROVE  i = j
  <2>1. i + 1 = j + 1
        BY <1>3, <1>4 DEF CallInv
  <2> QED BY <2>1, <1>3
<1>5. CallInv(rest, files, watched, wanted)
      BY <1>3, <1>4 DEF CallInv
<1> QED BY <1>5 DEF rest

\* ... and when one is queued: an addEvent() of a file not asked for yet.
LEMMA CallsGrow ==
    ASSUME NEW coming \in Seq(Call), NEW call \in Call,
           NEW files, NEW watched, NEW wanted, CallInv(coming, files, watched, wanted),
           call.file = files[call.fd],
           call.add => call.file \notin wanted /\ call.fd \notin watched
    PROVE  CallInv(Append(coming, call), files, watched,
                   wanted \cup IF call.add THEN {call.file} ELSE {})
<1> DEFINE more == Append(coming, call)
           asking == wanted \cup IF call.add THEN {call.file} ELSE {}
<1>1. Len(coming) \in Nat /\ DOMAIN coming = 1..Len(coming)
      BY LenProperties
<1>2. /\ more \in Seq(Call) /\ DOMAIN more = 1..Len(coming) + 1
      /\ \A i \in 1..Len(coming) : more[i] = coming[i]
      /\ more[Len(coming) + 1] = call
      BY AppendProperties, LenProperties
<1>3. \A i \in DOMAIN more :
        \/ i \in DOMAIN coming /\ more[i] = coming[i]
        \/ i = Len(coming) + 1 /\ more[i] = call
      BY <1>1, <1>2
<1>0. wanted \subseteq asking /\ (call.add => call.file \in asking)
      OBVIOUS
<1> HIDE DEF more, asking
<1>4. \A i \in DOMAIN more : more[i].file = files[more[i].fd]
      BY <1>3 DEF CallInv
<1>5. \A i \in DOMAIN more : more[i].add
         => more[i].file \in asking /\ more[i].fd \notin watched
      BY <1>0, <1>3 DEF CallInv
<1>6. ASSUME NEW i \in DOMAIN more, NEW j \in DOMAIN more,
             more[i].add, more[j].add, more[i].file = more[j].file
      PROVE  i = j
  <2>1. CASE i \in DOMAIN coming /\ j \in DOMAIN coming
        BY <2>1, <1>3, <1>6 DEF CallInv
  <2>2. CASE i \in DOMAIN coming /\ j \notin DOMAIN coming
        BY <2>2, <1>3, <1>6 DEF CallInv
  <2>3. CASE i \notin DOMAIN coming /\ j \in DOMAIN coming
        BY <2>3, <1>3, <1>6 DEF CallInv
  <2>4. CASE i \notin DOMAIN coming /\ j \notin DOMAIN coming
        BY <2>4, <1>3
  <2> QED BY <2>1, <2>2, <2>3, <2>4
<1>7. CallInv(more, files, watched, asking)
      BY <1>4, <1>5, <1>6 DEF CallInv
<1> QED BY <1>7 DEF more, asking

\* Elements of a list of calls are calls.
LEMMA CallTypes ==
    ASSUME NEW coming \in Seq(Call), NEW i \in DOMAIN coming
    PROVE  coming[i].fd \in Fds /\ coming[i].file \in Files /\ coming[i].add \in BOOLEAN
<1>1. coming[i] \in Call
      BY ElementOfSeq, LenProperties
<1> QED BY <1>1

-----------------------------------------------------------------------------
(* What addEvent() and deleteEvent() do on the loop thread *)

\* addEvent() of the file behind its descriptor watches that descriptor, with
\* that file's callback: no older one can be in the map.
LEMMA AddFacts ==
    ASSUME IInv, NEW fd \in Fds, file[fd] \in Files, AddEvent(fd, file[fd]),
           asked' = asked \cup {file[fd]}, file' = file
    PROVE  /\ kernel \subseteq kernel' /\ kernel' \subseteq kernel \cup {fd}
           /\ kernel' \subseteq {fe \in Fds : file[fe] # 0}
           /\ eventMap' \in [Fds -> 0..MaxFiles]
           /\ WatchInv' /\ CallbackIsCurrent'
<1>1. TypeOK /\ WatchInv /\ CallbackIsCurrent
      BY DEF IInv
<1>2. file[fd] # 0 /\ file[fd] \in 0..MaxFiles
      OBVIOUS
<1>3. CASE fd \in kernel
      BY <1>1, <1>3 DEF AddEvent, TypeOK, WatchInv, CallbackIsCurrent
<1>4. CASE fd \notin kernel
  <2>1. eventMap[fd] = 0
        BY <1>1, <1>4 DEF CallbackIsCurrent
  <2>2. kernel' = kernel \cup {fd} /\ eventMap' = [eventMap EXCEPT ![fd] = file[fd]]
        BY <1>2, <1>4, <2>1 DEF AddEvent
  <2> QED BY <1>1, <1>2, <2>2 DEF TypeOK, WatchInv, CallbackIsCurrent
<1> QED BY <1>3, <1>4

\* deleteEvent() removes the watch and its callback together, and reports it
\* only if there was a watch.
LEMMA DeleteFacts ==
    ASSUME IInv, NEW fd \in Fds, file[fd] \in Files, DeleteEvent(fd, file[fd]), file' = file
    PROVE  /\ kernel' \subseteq kernel /\ asked' \subseteq asked
           /\ eventMap' \in [Fds -> 0..MaxFiles]
           /\ asked \ asked' \subseteq {file[fd]}
           /\ asked # asked' => fd \in kernel
           /\ WatchInv' /\ CallbackIsCurrent'
<1>1. TypeOK /\ FileInv /\ WatchInv /\ CallbackIsCurrent
      BY DEF IInv
<1>2. CASE fd \notin kernel
      BY <1>1, <1>2 DEF DeleteEvent, TypeOK, WatchInv, CallbackIsCurrent
<1>3. CASE fd \in kernel
  <2>1. /\ kernel' = kernel \ {fd} /\ eventMap' = [eventMap EXCEPT ![fd] = 0]
        /\ asked' \subseteq asked /\ asked \ asked' \subseteq {file[fd]}
        BY <1>3 DEF DeleteEvent
  <2>2. \A fe \in kernel' : file[fe] # file[fd]
        BY <1>1, <2>1 DEF FileInv, TypeOK
  <2>3. WatchInv'
        BY <1>1, <2>1, <2>2 DEF WatchInv
  <2>4. eventMap' \in [Fds -> 0..MaxFiles] /\ CallbackIsCurrent'
        BY <1>1, <2>1 DEF TypeOK, CallbackIsCurrent
  <2> QED BY <1>3, <2>1, <2>3, <2>4
<1> QED BY <1>2, <1>3

\* It leaves the calls on their way in order: an addEvent() among them is not
\* of the file that was watched.
LEMMA DeleteKeepsCalls ==
    ASSUME IInv, NEW fd \in Fds, file[fd] \in Files, DeleteEvent(fd, file[fd]), file' = file
    PROVE  CallInv(Coming, file, kernel', asked')
<1>1. TypeOK /\ FileInv /\ CallInv(Coming, file, kernel, asked) /\ Coming \in Seq(Call)
      BY ComingType DEF IInv
<1>2. /\ kernel' \subseteq kernel /\ asked \ asked' \subseteq {file[fd]}
      /\ asked # asked' => fd \in kernel
      BY DeleteFacts
<1>3. ASSUME NEW i \in DOMAIN Coming, Coming[i].add
      PROVE  Coming[i].file \in asked' /\ Coming[i].fd \notin kernel'
  <2>1. /\ Coming[i].file \in asked /\ Coming[i].fd \notin kernel
        /\ Coming[i].file = file[Coming[i].fd]
        BY <1>1, <1>3 DEF CallInv
  <2>2. Coming[i].fd \in Fds
        BY <1>1, CallTypes
  <2>3. fd \in kernel => Coming[i].file # file[fd]
        BY <1>1, <2>1, <2>2 DEF FileInv
  <2> QED BY <1>2, <2>1, <2>3
<1> QED BY <1>1, <1>3 DEF CallInv

-----------------------------------------------------------------------------
(* Typing *)

\* What epoll_wait returns is a sequence of descriptors.
LEMMA ReadyIsSeq ==
    ASSUME NEW ready \in SUBSET (kernel \cup {Pipe}), kernel \subseteq Fds,
           NEW s \in SetToSeqs(ready)
    PROVE  s \in Seq(Fds \cup {Pipe})
<1>1. IsFiniteSet(Fds \cup {Pipe})
      BY FS_AddElement
<1>2. IsFiniteSet(ready)
      BY <1>1, FS_Subset
<1>3. Cardinality(ready) \in Nat
      BY <1>2, FS_CardinalityType
<1>4. s \in [1..Cardinality(ready) -> Fds \cup {Pipe}]
      BY DEF SetToSeqs
<1> QED BY <1>3, <1>4, IsASeq

LEMMA InitFacts == Init => IInv
<1> SUFFICES ASSUME Init PROVE IInv
    OBVIOUS
<1>0. 0 \in 0..MaxFiles
      OBVIOUS
<1>1. file \in [Fds -> 0..MaxFiles] /\ eventMap \in [Fds -> 0..MaxFiles]
      BY <1>0 DEF Init
<1>2. calls \in Seq(Call) /\ batch \in Seq(Call) /\ events \in Seq(Fds \cup {Pipe})
  <2>1. calls = <<>> /\ batch = <<>> /\ events = <<>>
        BY DEF Init
  <2> QED BY <2>1, EmptySeq
<1>3. TypeOK
      BY <1>0, <1>1, <1>2 DEF Init, TypeOK
<1>4. FileInv
      BY DEF Init, FileInv
<1>5. WatchInv /\ TurnInv /\ CallbackIsCurrent
      BY DEF Init, WatchInv, TurnInv, CallbackIsCurrent
<1>6. Coming = <<>> /\ DOMAIN Coming = {}
  <2>1. Coming = <<>> \o <<>>
        BY DEF Init, Coming
  <2>2. <<>> \in Seq(Call)
        BY EmptySeq
  <2>3. <<>> \o <<>> = <<>>
        BY <2>2, ConcatEmptySeq
  <2> QED BY <2>1, <2>3
<1>7. CallInv(Coming, file, kernel, asked)
      BY <1>6 DEF CallInv
<1> QED BY <1>3, <1>4, <1>5, <1>7 DEF IInv

-----------------------------------------------------------------------------
(* Opening and closing *)

\* A closed descriptor has no watch and no call on its way, so its new file
\* starts with neither.
LEMMA OpenStep ==
    ASSUME IInv, NEW fd \in Fds, Open(fd)
    PROVE  IInv'
<1>1. /\ TypeOK /\ FileInv /\ WatchInv /\ TurnInv /\ CallbackIsCurrent
      /\ CallInv(Coming, file, kernel, asked)
      BY DEF IInv
<1>2. /\ file[fd] = 0 /\ nFiles < MaxFiles /\ nFiles' = nFiles + 1
      /\ file' = [file EXCEPT ![fd] = nFiles + 1]
      /\ UNCHANGED <<kernel, eventMap, asked, calls, batch, events, running>>
      BY DEF Open
<1>3. fd \notin kernel /\ nFiles + 1 \in 1..MaxFiles /\ nFiles \in Nat
      BY <1>1, <1>2 DEF TypeOK
<1>4. /\ file' \in [Fds -> 0..MaxFiles] /\ file'[fd] = nFiles + 1
      /\ \A fe \in Fds \ {fd} : file'[fe] = file[fe]
      BY <1>1, <1>2, <1>3 DEF TypeOK
<1>5. TypeOK'
      BY <1>1, <1>2, <1>3, <1>4 DEF TypeOK
<1>6. FileInv'
  <2>1. \A fe \in Fds : file[fe] <= nFiles /\ file[fe] \in Nat
        BY <1>1 DEF FileInv, TypeOK
  <2> QED BY <1>1, <1>2, <1>3, <1>4, <2>1 DEF FileInv
<1>7. WatchInv' /\ CallbackIsCurrent'
      BY <1>1, <1>2, <1>3, <1>4 DEF WatchInv, CallbackIsCurrent, TypeOK
<1>8. Coming' = Coming /\ Coming \in Seq(Call)
      BY <1>1, <1>2, ComingType DEF Coming
<1>9. \A i \in DOMAIN Coming : Coming[i].file = file'[Coming[i].fd]
  <2> TAKE i \in DOMAIN Coming
  <2>1. Coming[i].fd \in Fds /\ Coming[i].file \in 1..MaxFiles
        BY <1>8, CallTypes
  <2>2. Coming[i].file # 0
        BY <2>1
  <2>3. Coming[i].file = file[Coming[i].fd]
        BY <1>1 DEF CallInv
  <2> QED BY <1>2, <1>4, <2>1, <2>2, <2>3
<1>10. CallInv(Coming', file', kernel', asked')
      BY <1>1, <1>2, <1>8, <1>9 DEF CallInv
<1> QED BY <1>1, <1>2, <1>5, <1>6, <1>7, <1>10 DEF IInv, TurnInv, CallInv

\* A user who closes in order has had his deletion reported: the file is not
\* watched, and no call about it is on its way.
LEMMA CloseStep ==
    ASSUME IInv, ~CloseEarly, NEW fd \in Fds, Close(fd)
    PROVE  IInv'
<1>1. /\ TypeOK /\ FileInv /\ WatchInv /\ TurnInv /\ CallbackIsCurrent
      /\ CallInv(Coming, file, kernel, asked)
      BY DEF IInv
<1>2. /\ file[fd] # 0 /\ file[fd] \notin asked /\ ~Pending(file[fd])
      /\ file' = [file EXCEPT ![fd] = 0] /\ kernel' = kernel \ {fd}
      /\ UNCHANGED <<nFiles, eventMap, asked, calls, batch, events, running>>
      BY DEF Close
<1>3. fd \notin kernel /\ kernel' = kernel
      BY <1>1, <1>2 DEF WatchInv
<1>4. /\ file' \in [Fds -> 0..MaxFiles] /\ file'[fd] = 0
      /\ \A fe \in Fds \ {fd} : file'[fe] = file[fe]
      BY <1>1, <1>2 DEF TypeOK
<1>5. TypeOK'
      BY <1>1, <1>2, <1>3, <1>4 DEF TypeOK
<1>6. FileInv'
  <2>1. nFiles \in Nat
        BY <1>1 DEF TypeOK
  <2> QED BY <1>1, <1>2, <1>4, <2>1 DEF FileInv
<1>7. WatchInv' /\ CallbackIsCurrent'
      BY <1>1, <1>2, <1>3, <1>4 DEF WatchInv, CallbackIsCurrent, TypeOK
<1>8. Coming' = Coming /\ Coming \in Seq(Call)
      BY <1>1, <1>2, ComingType DEF Coming
<1>9. \A i \in DOMAIN Coming : Coming[i].file = file'[Coming[i].fd]
  <2> TAKE i \in DOMAIN Coming
  <2>1. Coming[i].fd \in Fds /\ Coming[i].file = file[Coming[i].fd]
        BY <1>1, <1>8, CallTypes DEF CallInv
  <2>2. Coming[i].file # file[fd]
        BY <1>2 DEF Pending, Coming
  <2> QED BY <1>4, <2>1, <2>2
<1>10. CallInv(Coming', file', kernel', asked')
      BY <1>1, <1>2, <1>3, <1>8, <1>9 DEF CallInv
<1> QED BY <1>1, <1>2, <1>5, <1>6, <1>7, <1>10 DEF IInv, TurnInv, CallInv

-----------------------------------------------------------------------------
(* Calls of other threads *)

LEMMA CallAddStep ==
    ASSUME IInv, NEW fd \in Fds, CallAdd(fd)
    PROVE  IInv'
<1> DEFINE call == [add |-> TRUE, fd |-> fd, file |-> file[fd]]
<1>1. /\ TypeOK /\ FileInv /\ WatchInv /\ TurnInv /\ CallbackIsCurrent
      /\ CallInv(Coming, file, kernel, asked)
      BY DEF IInv
<1>2. /\ file[fd] \in Files \ asked /\ asked' = asked \cup {file[fd]}
      /\ calls' = Append(calls, call)
      /\ UNCHANGED <<file, nFiles, kernel, eventMap, batch, events, running>>
      BY DEF CallAdd, Queue
<1>3. call \in Call /\ fd \notin kernel
      BY <1>1, <1>2 DEF WatchInv
<1>4. calls' \in Seq(Call)
      BY <1>1, <1>2, <1>3, AppendProperties DEF TypeOK
<1>5. TypeOK'
      BY <1>1, <1>2, <1>4 DEF TypeOK
<1>6. FileInv' /\ WatchInv' /\ CallbackIsCurrent'
      BY <1>1, <1>2 DEF FileInv, WatchInv, CallbackIsCurrent
<1>7. Coming' = Append(Coming, call) /\ Coming \in Seq(Call)
      BY <1>1, <1>2, <1>3, ComingType, ComingQueued
<1>8. /\ call.file = file[call.fd] /\ call.add
      /\ call.file \notin asked /\ call.fd \notin kernel
      BY <1>2, <1>3
<1>9. CallInv(Append(Coming, call), file, kernel,
              asked \cup IF call.add THEN {call.file} ELSE {})
  <2> HIDE DEF call
  <2> QED BY <1>1, <1>3, <1>7, <1>8, CallsGrow
<1>10. CallInv(Coming', file', kernel', asked')
  <2>1. (asked \cup IF call.add THEN {call.file} ELSE {}) = asked'
        BY <1>2
  <2> QED BY <1>2, <1>7, <1>9, <2>1
<1> QED BY <1>1, <1>2, <1>5, <1>6, <1>10 DEF IInv, TurnInv, CallInv

LEMMA CallDeleteStep ==
    ASSUME IInv, NEW fd \in Fds, CallDelete(fd)
    PROVE  IInv'
<1> DEFINE call == [add |-> FALSE, fd |-> fd, file |-> file[fd]]
<1>1. /\ TypeOK /\ FileInv /\ WatchInv /\ TurnInv /\ CallbackIsCurrent
      /\ CallInv(Coming, file, kernel, asked)
      BY DEF IInv
<1>2. /\ file[fd] \in asked /\ calls' = Append(calls, call)
      /\ UNCHANGED <<file, nFiles, kernel, eventMap, asked, batch, events, running>>
      BY DEF CallDelete, Queue
<1>3. call \in Call
      BY <1>1, <1>2 DEF TypeOK
<1>4. calls' \in Seq(Call)
      BY <1>1, <1>2, <1>3, AppendProperties DEF TypeOK
<1>5. TypeOK'
      BY <1>1, <1>2, <1>4 DEF TypeOK
<1>6. FileInv' /\ WatchInv' /\ CallbackIsCurrent'
      BY <1>1, <1>2 DEF FileInv, WatchInv, CallbackIsCurrent
<1>7. Coming' = Append(Coming, call) /\ Coming \in Seq(Call)
      BY <1>1, <1>2, <1>3, ComingType, ComingQueued
<1>8. call.file = file[call.fd] /\ ~call.add
      OBVIOUS
<1>9. CallInv(Append(Coming, call), file, kernel,
              asked \cup IF call.add THEN {call.file} ELSE {})
  <2> HIDE DEF call
  <2> QED BY <1>1, <1>3, <1>7, <1>8, CallsGrow
<1>10. CallInv(Coming', file', kernel', asked')
  <2>1. (asked \cup IF call.add THEN {call.file} ELSE {}) = asked'
        BY <1>2
  <2> QED BY <1>2, <1>7, <1>9, <2>1
<1> QED BY <1>1, <1>2, <1>5, <1>6, <1>10 DEF IInv, TurnInv, CallInv

-----------------------------------------------------------------------------
(* The loop thread between callbacks *)

\* Between callbacks the loop waits for events.
LEMMA WaitStep ==
    ASSUME IInv, Wait
    PROVE  IInv'
<1>1. /\ TypeOK /\ FileInv /\ WatchInv /\ TurnInv /\ CallbackIsCurrent
      /\ CallInv(Coming, file, kernel, asked)
      BY DEF IInv
<1>2. events = <<>> /\ UNCHANGED <<file, nFiles, kernel, eventMap, asked, calls, batch, running>>
      BY DEF Wait
<1>3. PICK ready \in SUBSET (kernel \cup IF calls = <<>> THEN {} ELSE {Pipe}) :
        events' \in SetToSeqs(ready)
      BY DEF Wait
<1>4. ready \in SUBSET (kernel \cup {Pipe}) /\ kernel \subseteq Fds
      BY <1>1, <1>3 DEF TypeOK
<1>5. events' \in Seq(Fds \cup {Pipe})
      BY <1>3, <1>4, ReadyIsSeq
<1>6. TypeOK'
      BY <1>1, <1>2, <1>5 DEF TypeOK
<1>7. Coming' = Coming
      BY <1>2 DEF Coming
<1> QED BY <1>1, <1>2, <1>6, <1>7
        DEF IInv, FileInv, WatchInv, TurnInv, CallbackIsCurrent, CallInv

LEMMA TakeCallsStep ==
    ASSUME IInv, TakeCalls
    PROVE  IInv'
<1>1. /\ TypeOK /\ FileInv /\ WatchInv /\ TurnInv /\ CallbackIsCurrent
      /\ CallInv(Coming, file, kernel, asked)
      BY DEF IInv
<1>2. /\ events # <<>> /\ ~running /\ batch = <<>> /\ batch' = calls /\ calls' = <<>>
      /\ events' = Tail(events)
      /\ UNCHANGED <<file, nFiles, kernel, eventMap, asked, running>>
      BY DEF TakeCalls, Turn
<1>3. events' \in Seq(Fds \cup {Pipe}) /\ calls' \in Seq(Call) /\ batch' \in Seq(Call)
  <2>1. events \in Seq(Fds \cup {Pipe}) /\ calls \in Seq(Call)
        BY <1>1 DEF TypeOK
  <2>2. Tail(events) \in Seq(Fds \cup {Pipe})
        BY <1>2, <2>1, HeadTailProperties
  <2> QED BY <1>2, <2>1, <2>2, EmptySeq
<1>4. TypeOK'
      BY <1>1, <1>2, <1>3 DEF TypeOK
<1>5. Coming' = Coming
      BY <1>1, <1>2, ComingTaken
<1> QED BY <1>1, <1>2, <1>4, <1>5
        DEF IInv, FileInv, WatchInv, TurnInv, CallbackIsCurrent, CallInv

\* Every watch has a callback, so there is none to drop.
LEMMA DropWatchStep ==
    ASSUME IInv, DropWatch
    PROVE  IInv'
<1>1. /\ TypeOK /\ FileInv /\ WatchInv /\ TurnInv /\ CallbackIsCurrent
      /\ CallInv(Coming, file, kernel, asked)
      BY DEF IInv
<1>2. /\ events # <<>> /\ ~running /\ Head(events) # Pipe /\ eventMap[Head(events)] = 0
      /\ kernel' = kernel \ {Head(events)} /\ events' = Tail(events)
      /\ UNCHANGED <<file, nFiles, eventMap, asked, calls, batch, running>>
      BY DEF DropWatch, Turn
<1>3. Head(events) \in Fds \cup {Pipe} /\ events' \in Seq(Fds \cup {Pipe})
  <2>1. events \in Seq(Fds \cup {Pipe})
        BY <1>1 DEF TypeOK
  <2> QED BY <1>2, <2>1, HeadTailProperties
<1>4. kernel' = kernel
      BY <1>1, <1>2, <1>3 DEF CallbackIsCurrent, TypeOK
<1>5. TypeOK'
      BY <1>1, <1>2, <1>3, <1>4 DEF TypeOK
<1>6. Coming' = Coming
      BY <1>2 DEF Coming
<1> QED BY <1>1, <1>2, <1>4, <1>5, <1>6
        DEF IInv, FileInv, WatchInv, TurnInv, CallbackIsCurrent, CallInv

LEMMA BeginCallbackStep ==
    ASSUME IInv, BeginCallback
    PROVE  IInv'
<1>1. /\ TypeOK /\ FileInv /\ WatchInv /\ TurnInv /\ CallbackIsCurrent
      /\ CallInv(Coming, file, kernel, asked)
      BY DEF IInv
<1>2. /\ events # <<>> /\ running' = TRUE
      /\ UNCHANGED <<file, nFiles, kernel, eventMap, asked, calls, batch, events>>
      BY DEF BeginCallback, Turn
<1>3. TypeOK'
      BY <1>1, <1>2 DEF TypeOK
<1>4. Coming' = Coming
      BY <1>2 DEF Coming
<1> QED BY <1>1, <1>2, <1>3, <1>4
        DEF IInv, FileInv, WatchInv, TurnInv, CallbackIsCurrent, CallInv

LEMMA EndCallbackStep ==
    ASSUME IInv, EndCallback
    PROVE  IInv'
<1>1. /\ TypeOK /\ FileInv /\ WatchInv /\ TurnInv /\ CallbackIsCurrent
      /\ CallInv(Coming, file, kernel, asked)
      BY DEF IInv
<1>2. /\ running /\ running' = FALSE /\ events' = Tail(events)
      /\ UNCHANGED <<file, nFiles, kernel, eventMap, asked, calls, batch>>
      BY DEF EndCallback
<1>3. events' \in Seq(Fds \cup {Pipe})
  <2>1. events \in Seq(Fds \cup {Pipe}) /\ events # <<>>
        BY <1>1, <1>2 DEF TypeOK, TurnInv
  <2> QED BY <1>2, <2>1, HeadTailProperties
<1>4. TypeOK'
      BY <1>1, <1>2, <1>3 DEF TypeOK
<1>5. Coming' = Coming
      BY <1>2 DEF Coming
<1> QED BY <1>1, <1>2, <1>4, <1>5
        DEF IInv, FileInv, WatchInv, TurnInv, CallbackIsCurrent, CallInv

-----------------------------------------------------------------------------
(* Calls made by the loop thread *)

\* A callback adds a file it has not asked for: no addEvent() of its
\* descriptor is on its way.
LEMMA CallbackAddsStep ==
    ASSUME IInv, NEW fd \in Fds, CallbackAdds(fd)
    PROVE  IInv'
<1>1. /\ TypeOK /\ FileInv /\ WatchInv /\ TurnInv /\ CallbackIsCurrent
      /\ CallInv(Coming, file, kernel, asked)
      BY DEF IInv
<1>2. /\ file[fd] \in Files \ asked /\ asked' = asked \cup {file[fd]}
      /\ AddEvent(fd, file[fd])
      /\ UNCHANGED <<file, nFiles, calls, batch, events, running>>
      BY DEF CallbackAdds
<1>3. /\ kernel \subseteq kernel' /\ kernel' \subseteq kernel \cup {fd}
      /\ kernel' \subseteq {fe \in Fds : file[fe] # 0}
      /\ eventMap' \in [Fds -> 0..MaxFiles]
      /\ WatchInv' /\ CallbackIsCurrent'
      BY <1>2, AddFacts
<1>4. TypeOK'
      BY <1>1, <1>2, <1>3 DEF TypeOK
<1>5. FileInv' /\ TurnInv' /\ Coming' = Coming
      BY <1>1, <1>2 DEF FileInv, TurnInv, Coming
<1>6. \A i \in DOMAIN Coming : Coming[i].add
        => Coming[i].file \in asked' /\ Coming[i].fd \notin kernel'
      BY <1>1, <1>2, <1>3 DEF CallInv
<1>7. CallInv(Coming', file', kernel', asked')
      BY <1>1, <1>2, <1>5, <1>6 DEF CallInv
<1> QED BY <1>3, <1>4, <1>5, <1>7 DEF IInv, CallInv

LEMMA CallbackDeletesStep ==
    ASSUME IInv, NEW fd \in Fds, CallbackDeletes(fd)
    PROVE  IInv'
<1>1. TypeOK /\ FileInv /\ TurnInv
      BY DEF IInv
<1>2. /\ file[fd] \in Files /\ DeleteEvent(fd, file[fd])
      /\ UNCHANGED <<file, nFiles, calls, batch, events, running>>
      BY <1>1 DEF CallbackDeletes, TypeOK
<1>3. /\ kernel' \subseteq kernel /\ asked' \subseteq asked
      /\ eventMap' \in [Fds -> 0..MaxFiles]
      /\ WatchInv' /\ CallbackIsCurrent'
      BY <1>2, DeleteFacts
<1>4. TypeOK'
      BY <1>1, <1>2, <1>3 DEF TypeOK, WatchInv
<1>5. FileInv' /\ TurnInv' /\ Coming' = Coming
      BY <1>1, <1>2 DEF FileInv, TurnInv, Coming
<1>6. CallInv(Coming, file, kernel', asked')
      BY <1>2, DeleteKeepsCalls
<1> QED BY <1>2, <1>3, <1>4, <1>5, <1>6 DEF IInv, CallInv

\* The first call on its way is about the file it was made for.  If it is an
\* addEvent(), no other one of its descriptor is left.
LEMMA MakeCallStep ==
    ASSUME IInv, MakeCall
    PROVE  IInv'
<1> DEFINE call == Head(batch)
<1>1. /\ TypeOK /\ FileInv /\ WatchInv /\ TurnInv /\ CallbackIsCurrent
      /\ CallInv(Coming, file, kernel, asked) /\ Coming \in Seq(Call)
      BY ComingType DEF IInv
<1>2. /\ batch # <<>> /\ batch' = Tail(batch)
      /\ IF call.add THEN AddEvent(call.fd, call.file) /\ UNCHANGED asked
                     ELSE DeleteEvent(call.fd, call.file)
      /\ UNCHANGED <<file, nFiles, calls, events, running>>
      BY DEF MakeCall
<1>3. /\ Coming' = Tail(Coming) /\ Coming # <<>>
      /\ call = Coming[1] /\ call \in Call
  <2>1. /\ Coming' = Tail(Coming) /\ Coming # <<>>
        /\ call = Head(Coming) /\ call \in Call
        BY <1>1, <1>2, ComingMade
  <2> QED BY <1>1, <2>1
<1>4. /\ Len(Coming) \in Nat \ {0} /\ DOMAIN Coming = 1..Len(Coming)
      /\ Tail(Coming) \in Seq(Call) /\ DOMAIN Tail(Coming) = 1..Len(Coming) - 1
      /\ \A i \in 1..Len(Coming) - 1 : Tail(Coming)[i] = Coming[i + 1]
      BY <1>1, <1>3, EmptySeq, LenProperties, HeadTailProperties
<1>5. /\ call.fd \in Fds /\ call.file \in Files
      /\ call.file = file[call.fd]
      /\ call.add => call.file \in asked /\ call.fd \notin kernel
  <2>1. 1 \in DOMAIN Coming
        BY <1>4
  <2> QED BY <1>1, <1>3, <2>1 DEF CallInv
<1>6. /\ FileInv' /\ TurnInv'
      /\ CallInv(Tail(Coming), file, kernel, asked)
      BY <1>1, <1>2, <1>3, CallsShrink DEF FileInv, TurnInv
<1>7. batch' \in Seq(Call)
      BY <1>1, <1>2, HeadTailProperties DEF TypeOK
<1> HIDE DEF call
<1>8. CASE call.add
  <2>1. AddEvent(call.fd, file[call.fd]) /\ asked' = asked
        BY <1>2, <1>5, <1>8
  <2>2. asked' = asked \cup {file[call.fd]}
        BY <1>5, <1>8, <2>1
  <2>3. /\ kernel' \subseteq kernel \cup {call.fd}
        /\ kernel' \subseteq {fe \in Fds : file[fe] # 0}
        /\ eventMap' \in [Fds -> 0..MaxFiles]
        /\ WatchInv' /\ CallbackIsCurrent'
        BY <1>2, <1>5, <2>1, <2>2, AddFacts
  <2>4. TypeOK'
        BY <1>1, <1>2, <1>7, <2>1, <2>3 DEF TypeOK, WatchInv
  <2>5. ASSUME NEW i \in DOMAIN Tail(Coming), Tail(Coming)[i].add
        PROVE  Tail(Coming)[i].file \in asked' /\ Tail(Coming)[i].fd \notin kernel'
    <3>1. i \in Int /\ i + 1 \in DOMAIN Coming /\ 1 \in DOMAIN Coming /\ i + 1 # 1
          BY <1>4
    <3>2. Tail(Coming)[i] = Coming[i + 1]
          BY <1>4
    <3>3. Coming[i + 1].file # call.file
          BY <1>1, <1>3, <1>8, <2>5, <3>1, <3>2 DEF CallInv
    <3>4. Coming[i + 1].file = file[Coming[i + 1].fd]
          BY <1>1, <3>1 DEF CallInv
    <3>5. Coming[i + 1].fd # call.fd
          BY <1>5, <3>3, <3>4
    <3> QED BY <1>6, <2>1, <2>3, <2>5, <3>2, <3>5 DEF CallInv
  <2>6. CallInv(Tail(Coming), file, kernel', asked')
        BY <1>6, <2>5 DEF CallInv
  <2> QED BY <1>2, <1>3, <1>6, <2>3, <2>4, <2>6 DEF IInv, CallInv
<1>9. CASE ~call.add
  <2>1. DeleteEvent(call.fd, file[call.fd])
        BY <1>2, <1>5, <1>9
  <2>2. /\ kernel' \subseteq kernel /\ asked' \subseteq asked
        /\ eventMap' \in [Fds -> 0..MaxFiles]
        /\ WatchInv' /\ CallbackIsCurrent'
        BY <1>2, <1>5, <2>1, DeleteFacts
  <2>3. TypeOK'
        BY <1>1, <1>2, <1>7, <2>2 DEF TypeOK, WatchInv
  <2>4. CallInv(Coming, file, kernel', asked')
        BY <1>2, <1>5, <2>1, DeleteKeepsCalls
  <2>5. CallInv(Tail(Coming), file, kernel', asked')
        BY <1>1, <1>3, <2>4, CallsShrink
  <2> QED BY <1>2, <1>3, <1>6, <2>2, <2>3, <2>5 DEF IInv, CallInv
<1> QED BY <1>8, <1>9

-----------------------------------------------------------------------------
(* Theorems *)

LEMMA Invariance == CloseEarly = FALSE /\ Spec => []IInv
<1> SUFFICES ASSUME CloseEarly = FALSE PROVE Spec => []IInv
    OBVIOUS
<1>1. IInv /\ [Next]_vars => IInv'
  <2> SUFFICES ASSUME IInv, [Next]_vars PROVE IInv'
      OBVIOUS
  <2>1. ASSUME NEW fd \in Fds, Open(fd) PROVE IInv'
        BY <2>1, OpenStep
  <2>2. ASSUME NEW fd \in Fds, Close(fd) PROVE IInv'
        BY <2>2, CloseStep
  <2>3. ASSUME NEW fd \in Fds, CallAdd(fd) PROVE IInv'
        BY <2>3, CallAddStep
  <2>4. ASSUME NEW fd \in Fds, CallDelete(fd) PROVE IInv'
        BY <2>4, CallDeleteStep
  <2>5. ASSUME NEW fd \in Fds, CallbackAdds(fd) PROVE IInv'
        BY <2>5, CallbackAddsStep
  <2>6. ASSUME NEW fd \in Fds, CallbackDeletes(fd) PROVE IInv'
        BY <2>6, CallbackDeletesStep
  <2>7. CASE Wait
        BY <2>7, WaitStep
  <2>8. CASE TakeCalls
        BY <2>8, TakeCallsStep
  <2>9. CASE MakeCall
        BY <2>9, MakeCallStep
  <2>10. CASE DropWatch
        BY <2>10, DropWatchStep
  <2>11. CASE BeginCallback
        BY <2>11, BeginCallbackStep
  <2>12. CASE EndCallback
        BY <2>12, EndCallbackStep
  <2>13. CASE UNCHANGED vars
    <3>1. UNCHANGED <<file, nFiles, kernel, eventMap, asked, calls, batch, events, running>>
          BY <2>13 DEF vars
    <3>2. Coming' = Coming
          BY <3>1 DEF Coming
    <3> QED BY <3>1, <3>2
            DEF IInv, TypeOK, FileInv, WatchInv, TurnInv, CallbackIsCurrent, CallInv
  <2> QED BY <2>1, <2>2, <2>3, <2>4, <2>5, <2>6, <2>7, <2>8, <2>9, <2>10, <2>11,
             <2>12, <2>13 DEF Next
<1> QED BY <1>1, InitFacts, PTL DEF Spec

\* For any descriptors, files and calls, the watches, the callbacks and the
\* lists of events and calls keep their types, and epoll watches only files
\* that addEvent() was called for and whose deletion is not reported.
THEOREM TypeCorrect == CloseEarly = FALSE /\ Spec => []TypeOK
<1>1. IInv => TypeOK
      BY DEF IInv
<1> QED BY <1>1, Invariance, PTL

\* For any descriptors, files and calls: while files are closed in order, a
\* descriptor that addEvent() watches has the callback of the file behind it,
\* and one that is not watched has none.
THEOREM CurrentCallbacks == CloseEarly = FALSE /\ Spec => []CallbackIsCurrent
<1>1. IInv => CallbackIsCurrent
      BY DEF IInv
<1> QED BY <1>1, Invariance, PTL

\* For any descriptors, files and calls: runLoop() starts no callback of a
\* file whose deleteEvent() has reported success, even for an event that
\* epoll_wait returned before.
THEOREM NoCallbackAfterDelete == CloseEarly = FALSE /\ Spec => SilentAfterDelete
<1>1. IInv /\ [Next]_vars => [~running /\ running' => eventMap[Head(events)] \in asked]_vars
  <2> SUFFICES ASSUME IInv, Next, ~running, running'
               PROVE  eventMap[Head(events)] \in asked
      OBVIOUS
  <2>1. TypeOK /\ WatchInv /\ CallbackIsCurrent
        BY DEF IInv
  <2>2. CASE BeginCallback
    <3>1. events # <<>> /\ Head(events) # Pipe /\ eventMap[Head(events)] # 0
          BY <2>2 DEF BeginCallback, Turn
    <3>2. Head(events) \in Fds
      <4>1. events \in Seq(Fds \cup {Pipe})
            BY <2>1 DEF TypeOK
      <4> QED BY <3>1, <4>1, HeadTailProperties
    <3>3. Head(events) \in kernel /\ eventMap[Head(events)] = file[Head(events)]
          BY <2>1, <3>1, <3>2 DEF CallbackIsCurrent
    <3> QED BY <2>1, <3>3 DEF WatchInv
  <2>3. CASE ~BeginCallback
    <3>1. UNCHANGED running
          BY <2>3 DEF Next, Open, Close, CallAdd, CallDelete, Queue, CallbackAdds,
             CallbackDeletes, Wait, TakeCalls, MakeCall, DropWatch, EndCallback
    <3> QED BY <3>1
  <2> QED BY <2>2, <2>3
<1> QED BY <1>1, Invariance, PTL DEF Spec, SilentAfterDelete

-----------------------------------------------------------------------------
(* The shared buffer *)

Buffer == [holders : SUBSET Holders, size : Nat, capacity : Nat]

BufferTypeOK == buffers \in [Names -> Buffer]

USE SizesAssumption
USE DEF Alive, Holds, Lock

-----------------------------------------------------------------------------
(* The methods of BufferRaw *)

\* Setting a capacity keeps the holders and the size, and gives what was
\* asked for.
LEMMA SetCapacityFacts ==
    ASSUME NEW b \in Buffer, NEW capacity \in Nat
    PROVE  /\ SetCapacity(b, capacity) \in Buffer
           /\ SetCapacity(b, capacity).holders = b.holders
           /\ SetCapacity(b, capacity).size = b.size
           /\ SetCapacity(b, capacity).capacity >= capacity
<1>1. CASE UsesAgain(b, capacity)
      BY <1>1 DEF SetCapacity, UsesAgain, Buffer
<1>2. CASE ~UsesAgain(b, capacity)
      BY <1>2 DEF SetCapacity, Buffer
<1> QED BY <1>1, <1>2

LEMMA SetSizeFacts ==
    ASSUME NEW b \in Buffer, NEW size \in Nat
    PROVE  /\ SetSize(b, size) \in Buffer
           /\ SetSize(b, size).holders = b.holders
           /\ SetSize(b, size).size = size
           /\ SetSize(b, size).capacity = b.capacity
BY DEF SetSize, Buffer

\* What is assigned fits, with one byte to spare.
LEMMA AssignFacts ==
    ASSUME NEW b \in Buffer, NEW size \in Nat
    PROVE  /\ Assign(b, size) \in Buffer
           /\ Assign(b, size).holders = b.holders
           /\ Assign(b, size).size < Assign(b, size).capacity
<1> DEFINE roomy == SetCapacity(b, size + 1)
<1>1. /\ roomy \in Buffer /\ roomy.holders = b.holders /\ roomy.capacity >= size + 1
      BY SetCapacityFacts
<1>2. /\ SetSize(roomy, size) \in Buffer
      /\ SetSize(roomy, size).holders = roomy.holders
      /\ SetSize(roomy, size).size = size
      /\ SetSize(roomy, size).capacity = roomy.capacity
      BY <1>1, SetSizeFacts
<1>3. roomy.capacity \in Nat
      BY <1>1 DEF Buffer
<1> QED BY <1>1, <1>2, <1>3 DEF Assign

-----------------------------------------------------------------------------
(* The steps *)

BufferInv == BufferTypeOK /\ OneSoundBuffer

\* A method of the buffer that keeps its holders and its data in its memory
\* keeps the invariant.
LEMMA BecomesKeeps ==
    ASSUME BufferInv, NEW h \in Holders, NEW b \in Names, NEW buffer \in Buffer,
           Becomes(h, b, buffer),
           buffer.holders = buffers[b].holders, buffer.size <= buffer.capacity
    PROVE  BufferInv'
<1>1. buffers' = [buffers EXCEPT ![b] = buffer] /\ _sharedBuffer' = _sharedBuffer
      BY DEF Becomes
<1>2. BufferTypeOK'
      BY <1>1 DEF BufferInv, BufferTypeOK
<1>3. ASSUME NEW c \in Names, Alive(c)'
      PROVE  c = _sharedBuffer' /\ buffers'[c].size <= buffers'[c].capacity
  <2>1. CASE c = b
        BY <1>1, <1>3, <2>1 DEF BufferInv, BufferTypeOK, OneSoundBuffer
  <2>2. CASE c # b
        BY <1>1, <1>3, <2>2 DEF BufferInv, BufferTypeOK, OneSoundBuffer
  <2> QED BY <2>1, <2>2
<1> QED BY <1>2, <1>3 DEF BufferInv, OneSoundBuffer

LEMMA GetSharedBufferStep ==
    ASSUME BufferInv, NEW h \in Holders, GetSharedBuffer(h)
    PROVE  BufferInv'
<1>1. CASE Keep(h)
  <2>1. _sharedBuffer' = _sharedBuffer
        BY <1>1 DEF Keep
  <2>2. BufferTypeOK'
        BY <1>1 DEF Keep, BufferInv, BufferTypeOK, Buffer
  <2>3. ASSUME NEW c \in Names, Alive(c)'
        PROVE  c = _sharedBuffer /\ buffers'[c].size <= buffers'[c].capacity
    <3>1. CASE c = _sharedBuffer
          BY <1>1, <3>1 DEF Keep, BufferInv, BufferTypeOK, OneSoundBuffer, Buffer
    <3>2. CASE c # _sharedBuffer
          BY <1>1, <2>3, <3>2 DEF Keep, BufferInv, BufferTypeOK, OneSoundBuffer
    <3> QED BY <3>1, <3>2
  <2> QED BY <2>1, <2>2, <2>3 DEF BufferInv, OneSoundBuffer
<1>2. CASE Create(h)
  <2> DEFINE fresh == [SetCapacity(Gone, DefaultSize) EXCEPT !.holders = {h}]
  <2>1. Gone \in Buffer /\ Gone.size = 0
        BY DEF Gone, Buffer
  <2>2. /\ fresh \in Buffer /\ fresh.size <= fresh.capacity
        BY <2>1, SetCapacityFacts DEF Buffer
  <2>3. PICK b \in Names :
          /\ buffers' = [buffers EXCEPT ![b] = fresh] /\ _sharedBuffer' = b
        BY <1>2 DEF Create
  <2>4. \A c \in Names : ~Alive(c)
        BY <1>2 DEF Create, BufferInv, OneSoundBuffer
  <2> HIDE DEF fresh
  <2>5. BufferTypeOK'
        BY <2>2, <2>3 DEF BufferInv, BufferTypeOK
  <2>6. \A c \in Names : Alive(c)'
          => c = _sharedBuffer' /\ buffers'[c].size <= buffers'[c].capacity
        BY <2>2, <2>3, <2>4 DEF BufferInv, BufferTypeOK
  <2> QED BY <2>5, <2>6 DEF BufferInv, OneSoundBuffer
<1> QED BY <1>1, <1>2 DEF GetSharedBuffer

LEMMA DropStep ==
    ASSUME BufferInv, NEW h \in Holders, NEW b \in Names, Drop(h, b)
    PROVE  BufferInv'
<1>1. /\ buffers[b] \in Buffer /\ buffers[b].holders # {}
      /\ _sharedBuffer' = _sharedBuffer
      BY DEF Drop, BufferInv, BufferTypeOK
<1>2. PICK left \in Buffer :
        /\ buffers' = [buffers EXCEPT ![b] = left]
        /\ left.holders # {} => /\ left.size = buffers[b].size
                                /\ left.capacity = buffers[b].capacity
  <2>1. CASE buffers[b].holders \ {h} = {}
    <3>1. Gone \in Buffer /\ Gone.holders = {}
          BY DEF Gone, Buffer
    <3>2. buffers' = [buffers EXCEPT ![b] = Gone]
          BY <2>1 DEF Drop
    <3> QED BY <3>1, <3>2
  <2>2. CASE buffers[b].holders \ {h} # {}
    <3> DEFINE left == [buffers[b] EXCEPT !.holders = buffers[b].holders \ {h}]
    <3>1. left \in Buffer /\ left.size = buffers[b].size /\ left.capacity = buffers[b].capacity
          BY <1>1 DEF Buffer
    <3>2. buffers' = [buffers EXCEPT ![b] = left]
          BY <2>2 DEF Drop
    <3> QED BY <3>1, <3>2
  <2> QED BY <2>1, <2>2
<1>3. BufferTypeOK'
      BY <1>2 DEF BufferInv, BufferTypeOK
<1>4. \A c \in Names : Alive(c)'
        => c = _sharedBuffer' /\ buffers'[c].size <= buffers'[c].capacity
      BY <1>1, <1>2 DEF BufferInv, BufferTypeOK, OneSoundBuffer
<1> QED BY <1>3, <1>4 DEF BufferInv, OneSoundBuffer

LEMMA MethodStep ==
    ASSUME BufferInv, CutData = FALSE,
           NEW h \in Holders, NEW b \in Names, NEW size \in Sizes,
           \/ CallSetCapacity(h, b, size) \/ CallAssign(h, b, size)
           \/ CallSetSize(h, b, size)
    PROVE  BufferInv'
<1>1. buffers[b] \in Buffer /\ size \in Nat
      BY DEF BufferInv, BufferTypeOK
<1>2. CASE CallSetCapacity(h, b, size)
  <2>1. buffers[b].size <= size /\ Becomes(h, b, SetCapacity(buffers[b], size))
        BY <1>1, <1>2 DEF CallSetCapacity, Buffer
  <2>2. /\ SetCapacity(buffers[b], size) \in Buffer
        /\ SetCapacity(buffers[b], size).holders = buffers[b].holders
        /\ SetCapacity(buffers[b], size).size <= SetCapacity(buffers[b], size).capacity
        BY <1>1, <2>1, SetCapacityFacts DEF Buffer
  <2> QED BY <2>1, <2>2, BecomesKeeps
<1>3. CASE CallAssign(h, b, size)
  <2>1. /\ Assign(buffers[b], size) \in Buffer
        /\ Assign(buffers[b], size).holders = buffers[b].holders
        /\ Assign(buffers[b], size).size <= Assign(buffers[b], size).capacity
        BY <1>1, AssignFacts DEF Buffer
  <2> QED BY <1>3, <2>1, BecomesKeeps DEF CallAssign
<1>4. CASE CallSetSize(h, b, size)
  <2>1. size <= buffers[b].capacity /\ Becomes(h, b, SetSize(buffers[b], size))
        BY <1>4 DEF CallSetSize, SizeFits
  <2>2. /\ SetSize(buffers[b], size) \in Buffer
        /\ SetSize(buffers[b], size).holders = buffers[b].holders
        /\ SetSize(buffers[b], size).size <= SetSize(buffers[b], size).capacity
        BY <1>1, <2>1, SetSizeFacts
  <2> QED BY <2>1, <2>2, BecomesKeeps
<1> QED BY <1>2, <1>3, <1>4

-----------------------------------------------------------------------------
(* Theorems *)

\* For any holders, sizes and events, the holders of the buffer share one
\* and its data lie in its memory, while nobody cuts data off.
THEOREM OneBuffer == CutData = FALSE /\ SharedSpec => []OneSoundBuffer
<1> SUFFICES ASSUME CutData = FALSE PROVE SharedSpec => []OneSoundBuffer
    OBVIOUS
<1>1. SharedInit => BufferInv
  <2> SUFFICES ASSUME SharedInit PROVE BufferInv
      OBVIOUS
  <2>1. Gone \in Buffer /\ Gone.holders = {}
        BY DEF Gone, Buffer
  <2> QED BY <2>1 DEF SharedInit, BufferInv, BufferTypeOK, OneSoundBuffer
<1>2. BufferInv /\ [SharedNext]_<<vars, bufferVars>> => BufferInv'
  <2> SUFFICES ASSUME BufferInv, [SharedNext]_<<vars, bufferVars>> PROVE BufferInv'
      OBVIOUS
  <2>1. CASE UNCHANGED bufferVars
        BY <2>1 DEF bufferVars, BufferInv, BufferTypeOK, OneSoundBuffer
  <2>2. CASE \E h \in Holders : GetSharedBuffer(h)
        BY <2>2, GetSharedBufferStep
  <2>3. ASSUME NEW h \in Holders, NEW b \in Names, Drop(h, b)
        PROVE  BufferInv'
        BY <2>3, DropStep
  <2>4. ASSUME NEW h \in Holders, NEW b \in Names, NEW size \in Sizes,
               \/ CallSetCapacity(h, b, size) \/ CallAssign(h, b, size)
               \/ CallSetSize(h, b, size)
        PROVE  BufferInv'
        BY <2>4, MethodStep
  <2>5. \A h, b, size : SetSizeThrows(h, b, size) => UNCHANGED bufferVars
        BY DEF SetSizeThrows
  <2> QED BY <2>1, <2>2, <2>3, <2>4, <2>5 DEF SharedNext, bufferVars
<1>3. BufferInv => OneSoundBuffer
      BY DEF BufferInv
<1> QED BY <1>1, <1>2, <1>3, PTL DEF SharedSpec

\* Beside the buffer, events are dispatched as EventMap.tla says, though an
\* exception of setSize() ends a callback.
THEOREM EventsBeside == SharedSpec => Spec
<1>1. SharedInit => Init
      BY DEF SharedInit
<1>2. [SharedNext]_<<vars, bufferVars>> => [Next]_vars
  <2> SUFFICES ASSUME [SharedNext]_<<vars, bufferVars>> PROVE [Next]_vars
      OBVIOUS
  <2>1. \A h, b, buffer : Becomes(h, b, buffer) => UNCHANGED vars
        BY DEF Becomes
  <2>2. \A h, b, size : SetSizeThrows(h, b, size) => Next
        BY DEF SetSizeThrows, Next
  <2> QED BY <2>1, <2>2 DEF SharedNext, GetSharedBuffer, Drop, CallSetCapacity,
             CallAssign, CallSetSize
<1> QED BY <1>1, <1>2, PTL DEF SharedSpec, Spec

\* So callbacks are current, and silent after their deletion, beside the
\* buffer too.
THEOREM CurrentBesideBuffer ==
    CloseEarly = FALSE /\ SharedSpec => []CallbackIsCurrent
<1> QED BY EventsBeside, CurrentCallbacks
=============================================================================
