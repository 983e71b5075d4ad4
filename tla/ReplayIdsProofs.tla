---------------------------- MODULE ReplayIdsProofs ----------------------------
(***************************************************************************)
(* What holds of the numbers of replays for any number of processes, rooms *)
(* and duels.                                                              *)
(*                                                                         *)
(* The argument has three parts.  Supervised: area-zero.sh has at most one *)
(* process that is not about to end, and the others, which may still play, *)
(* were up once, so lastId was there before they could be signalled; the   *)
(* one that creates it is alone.  Locked: between taking the file lock and *)
(* giving it back there is one thread of all processes.  Given: so a       *)
(* number is given once, as long as none was misread, unless it is the 0   *)
(* that is given when lastId is not whole, for which somebody must have    *)
(* truncated and not written it, or when it cannot be opened: the first    *)
(* time that happens nobody else has been given 0.                         *)
(***************************************************************************)
EXTENDS ReplayIds, TLAPS

Constructing == {"checks", "creates", "truncated", "locks"}
Playing == {"up", "ends"}
Inside == {"locked", "read", "truncated"}

Supervised ==
    /\ \A p \in Processes :
           phase[p] \in Constructing \cup {"up"} => p = multirole_pid /\ ~ signaled
    /\ \A p \in Processes, r \in Rooms : newId[p][r] # "none" => phase[p] \in Playing
    /\ file = "absent" => /\ lastId = 0
                          /\ \A p \in Processes : phase[p] \in {"off", "checks", "creates"}
    /\ \A p \in Processes : phase[p] = "creates" => file = "absent"
    /\ \A p \in Processes : phase[p] = "truncated" =>
           /\ file = "empty" /\ lastId = 0
           /\ \A q \in Processes : q # p => phase[q] = "off"

Locked ==
    /\ \A p \in Processes, r \in Rooms : newId[p][r] = "mutex" => mLastId[p] = r
    /\ \A p \in Processes, r \in Rooms :
           newId[p][r] \in Inside => mLastId[p] = r /\ holder = p

\* Where lastId is written.
Writing ==
    \/ \E p \in Processes : phase[p] = "truncated"
    \/ \E p \in Processes, r \in Rooms : newId[p][r] = "truncated"

\* More than one duel may have been given 0, or one.
Spoilt == torn \/ unopened > 1
ZeroGiven == torn \/ unopened > 0

\* Nobody else has been given the number.
Distinct ==
    \A p \in Processes, r \in Rooms, q \in Processes, s \in Rooms :
        /\ newId[p][r] = "given" /\ newId[q][s] = "given"
        /\ id[p][r] = id[q][s] /\ (id[p][r] > 0 \/ ~ Spoilt)
        => p = q /\ r = s

\* What a room that was given a number may rely on.
Mine(p, r) ==
    \/ id[p][r] = 0 /\ ZeroGiven /\ (Spoilt \/ 0 \notin saved)
    \/ id[p][r] > 0 /\ id[p][r] < lastId /\ id[p][r] \notin saved

Given ==
    /\ Distinct
    /\ file = "whole" => lastId > 0
    /\ file = "empty" => torn \/ Writing
    /\ \A p \in Processes, r \in Rooms :
           newId[p][r] \in {"read", "truncated"} => id[p][r] = lastId /\ lastId > 0
    /\ \A p \in Processes, r \in Rooms : newId[p][r] = "read" => file = "whole"
    /\ \A p \in Processes, r \in Rooms : newId[p][r] = "truncated" => file = "empty"
    /\ \A p \in Processes, r \in Rooms : newId[p][r] = "given" => Mine(p, r)
    /\ \A n \in saved : n < lastId \/ n = 0
    /\ 0 \in saved => ZeroGiven
    /\ overwritten \subseteq (IF Spoilt THEN {0} ELSE {})

Inv == TypeOK /\ Supervised /\ Locked /\ (~ misread => Given)

-----------------------------------------------------------------------------
(***************************************************************************)
(* What the two kinds of changes to newId do, room by room.                *)
(***************************************************************************)
Places == {"none", "asked", "mutex", "locked", "read", "truncated", "given"}

LEMMA AtFacts ==
    ASSUME TypeOK, NEW p \in Processes, NEW r \in Rooms, NEW from, NEW to \in Places,
           At(p, r, from, to)
    PROVE  /\ phase[p] \in Playing /\ newId[p][r] = from
           /\ newId' \in [Processes -> [Rooms -> Places]]
           /\ \A q \in Processes, s \in Rooms :
                  newId'[q][s] = IF q = p /\ s = r THEN to ELSE newId[q][s]
<1>1. newId \in [Processes -> [Rooms -> Places]]
  BY DEF TypeOK, Places
<1>2. phase[p] \in Playing /\ newId[p][r] = from /\ newId' = [newId EXCEPT ![p][r] = to]
  BY DEF At, Playing
<1>3. newId' \in [Processes -> [Rooms -> Places]]
  BY <1>1, <1>2
<1>4. \A q \in Processes, s \in Rooms :
          newId'[q][s] = IF q = p /\ s = r THEN to ELSE newId[q][s]
  BY <1>1, <1>2
<1> QED
  BY <1>2, <1>3, <1>4

LEMMA DieFacts ==
    ASSUME TypeOK, Locked, NEW p \in Processes, Die(p)
    PROVE  /\ newId' \in [Processes -> [Rooms -> Places]]
           /\ mLastId' \in [Processes -> Rooms \cup {Nobody}]
           /\ holder' \in Processes \cup {Nobody}
           /\ torn' \in BOOLEAN /\ unopened' = unopened /\ misread' = misread
           /\ phase' = [phase EXCEPT ![p] = "off"]
           /\ \A q \in Processes, s \in Rooms :
                  newId'[q][s] = IF q = p THEN "none" ELSE newId[q][s]
           /\ Locked'
           /\ torn => torn'
           /\ phase[p] = "truncated" => torn'
           /\ \A s \in Rooms : newId[p][s] = "truncated" => torn'
<1>1. newId \in [Processes -> [Rooms -> Places]]
  BY DEF TypeOK, Places
<1>2. newId' = [newId EXCEPT ![p] = [r \in Rooms |-> "none"]]
  BY DEF Die
<1>3. [r \in Rooms |-> "none"] \in [Rooms -> Places]
  BY DEF Places
<1>4. newId' \in [Processes -> [Rooms -> Places]]
  BY <1>1, <1>2, <1>3
<1>5. \A q \in Processes, s \in Rooms :
          newId'[q][s] = IF q = p THEN "none" ELSE newId[q][s]
  BY <1>1, <1>2
<1>6. /\ mLastId' = [mLastId EXCEPT ![p] = Nobody]
      /\ holder' = IF holder = p THEN Nobody ELSE holder
      /\ mLastId \in [Processes -> Rooms \cup {Nobody}]
      /\ holder \in Processes \cup {Nobody}
  BY DEF Die, TypeOK
<1>7. mLastId' \in [Processes -> Rooms \cup {Nobody}] /\ holder' \in Processes \cup {Nobody}
  BY <1>6
<1>8. \A q \in Processes : q # p => mLastId'[q] = mLastId[q]
  BY <1>6
<1>9. Locked'
  BY <1>5, <1>6, <1>8 DEF Locked, Inside
<1>10. /\ phase' = [phase EXCEPT ![p] = "off"]
       /\ torn' = (torn \/ phase[p] = "truncated" \/ \E r \in Rooms : newId[p][r] = "truncated")
       /\ unopened' = unopened /\ misread' = misread
  BY DEF Die, Becomes
<1>11. torn' \in BOOLEAN
  BY <1>10, Zenon DEF TypeOK
<1>12. /\ torn => torn'
       /\ phase[p] = "truncated" => torn'
       /\ \A s \in Rooms : newId[p][s] = "truncated" => torn'
  BY <1>10, Zenon
<1> QED
  BY <1>4, <1>5, <1>7, <1>9, <1>10, <1>11, <1>12

\* A process that changes its phase: what the others' phases are.
LEMMA BecomesFacts ==
    ASSUME TypeOK, NEW p \in Processes, NEW next, phase' = [phase EXCEPT ![p] = next]
    PROVE  \A q \in Processes : phase'[q] = IF q = p THEN next ELSE phase[q]
BY DEF TypeOK

\* One thread of all processes is between taking the file lock and giving it back,
\* and none while lastId is created.
LEMMA OneInside ==
    ASSUME Inv, NEW p \in Processes, NEW r \in Rooms, newId[p][r] \in Inside
    PROVE  /\ \A q \in Processes, s \in Rooms : newId[q][s] \in Inside => q = p /\ s = r
           /\ \A q \in Processes : phase[q] \notin {"creates", "truncated"}
           /\ file # "absent"
<1>1. \A q \in Processes, s \in Rooms : newId[q][s] \in Inside => q = p /\ s = r
  BY DEF Inv, Locked
<1>2. phase[p] \in Playing
  BY DEF Inv, Supervised, Inside
<1>3. file # "absent"
  BY <1>2 DEF Inv, Supervised, Playing
<1>4. \A q \in Processes : phase[q] \notin {"creates", "truncated"}
  BY <1>2, <1>3 DEF Inv, Supervised, Playing
<1> QED
  BY <1>1, <1>3, <1>4

LEMMA DistinctKept ==
    ASSUME Distinct, Spoilt => Spoilt',
           \A q \in Processes, s \in Rooms : newId'[q][s] = "given" =>
               \/ id'[q][s] = 0 /\ Spoilt'
               \/ newId[q][s] = "given" /\ id'[q][s] = id[q][s]
    PROVE  Distinct'
<1> SUFFICES ASSUME NEW p \in Processes, NEW r \in Rooms, NEW q \in Processes, NEW s \in Rooms,
                    newId'[p][r] = "given", newId'[q][s] = "given",
                    id'[p][r] = id'[q][s], id'[p][r] > 0 \/ ~ Spoilt'
             PROVE  p = q /\ r = s
  BY DEF Distinct
<1>1. ~ (id'[p][r] = 0 /\ Spoilt') /\ ~ (id'[q][s] = 0 /\ Spoilt')
  OBVIOUS
<1>2. newId[p][r] = "given" /\ id'[p][r] = id[p][r]
  BY <1>1
<1>3. newId[q][s] = "given" /\ id'[q][s] = id[q][s]
  BY <1>1
<1>4. id[p][r] = id[q][s] /\ (id[p][r] > 0 \/ ~ Spoilt)
  BY <1>2, <1>3
<1> QED
  BY <1>2, <1>3, <1>4, Zenon DEF Distinct

-----------------------------------------------------------------------------
(***************************************************************************)
(* Steps that leave phases and lastId alone: those of the rooms' threads.  *)
(***************************************************************************)
LEMMA SameSupervised ==
    ASSUME Inv, UNCHANGED <<supervisor, phase>>,
           \A q \in Processes, s \in Rooms :
               newId'[q][s] = newId[q][s] \/ phase[q] \in Playing,
           file # "absent", file' # "absent",
           \/ file' = file /\ lastId' = lastId
           \/ \A q \in Processes : phase[q] \notin {"creates", "truncated"}
    PROVE  Supervised'
<1>1. Supervised
  BY DEF Inv
<1>2. UNCHANGED multirole_pid /\ UNCHANGED signaled /\ UNCHANGED phase
  BY DEF supervisor
<1>3. \A q \in Processes, s \in Rooms : newId'[q][s] # "none" => phase'[q] \in Playing
  BY <1>1, <1>2 DEF Supervised
<1> QED
  BY <1>1, <1>2, <1>3 DEF Supervised

\* Nothing but the rooms' numbers and the locks change, and nobody enters or
\* leaves the places where an id has been read.
LEMMA SameGiven ==
    ASSUME Inv, UNCHANGED <<phase, counter, id, replays, faults>>,
           \A q \in Processes, s \in Rooms :
               \/ newId'[q][s] = newId[q][s]
               \/ /\ newId[q][s] \in {"none", "asked", "mutex"}
                  /\ newId'[q][s] \in {"asked", "mutex", "locked"}
    PROVE  ~ misread' => Given'
<1>1. /\ phase' = phase /\ file' = file /\ lastId' = lastId /\ id' = id
      /\ saved' = saved /\ overwritten' = overwritten
      /\ torn' = torn /\ unopened' = unopened /\ misread' = misread
  BY DEF counter, replays, faults
<1> SUFFICES ASSUME ~ misread PROVE Given'
  BY <1>1
<1>2. Given
  BY DEF Inv
<1>3. \A q \in Processes, s \in Rooms : \A at \in {"read", "truncated", "given"} :
          newId'[q][s] = at <=> newId[q][s] = at
  OBVIOUS
<1>4. Writing' <=> Writing
  BY <1>1, <1>3 DEF Writing
<1>5. (Spoilt' <=> Spoilt) /\ (ZeroGiven' <=> ZeroGiven)
  BY <1>1 DEF Spoilt, ZeroGiven
<1>6. Distinct'
  BY <1>1, <1>2, <1>3, <1>5, DistinctKept DEF Given
<1>7. \A q \in Processes, s \in Rooms : Mine(q, s) /\ id'[q][s] = id[q][s] => Mine(q, s)'
  BY <1>1, <1>5 DEF Mine
<1> QED
  BY <1>1, <1>2, <1>3, <1>4, <1>5, <1>6, <1>7 DEF Given

LEMMA NewIdStep ==
    ASSUME Inv, NEW p \in Processes, NEW r \in Rooms, NewId(p, r)
    PROVE  Inv'
<1>1. /\ At(p, r, "none", "asked") /\ "asked" \in Places /\ TypeOK
      /\ UNCHANGED <<supervisor, phase, counter, locks, id, replays, faults>>
  BY DEF NewId, Places, Inv
<1>2. /\ phase[p] \in Playing /\ newId[p][r] = "none"
      /\ newId' \in [Processes -> [Rooms -> Places]]
      /\ \A q \in Processes, s \in Rooms :
             newId'[q][s] = IF q = p /\ s = r THEN "asked" ELSE newId[q][s]
  BY <1>1, AtFacts
<1>3. TypeOK'
  BY <1>1, <1>2 DEF TypeOK, Places, supervisor, counter, locks, replays, faults
<1>4. Locked'
  BY <1>1, <1>2 DEF Inv, Locked, Inside, locks
<1>5. file # "absent" /\ file' # "absent"
  BY <1>1, <1>2 DEF Inv, Supervised, Playing, counter
<1>6. Supervised'
  <2>1. UNCHANGED <<supervisor, phase>> /\ file' = file /\ lastId' = lastId
    BY <1>1 DEF counter
  <2> QED
    BY <1>2, <1>5, <2>1, SameSupervised
<1>7. ~ misread' => Given'
  BY <1>1, <1>2, SameGiven
<1> QED
  BY <1>3, <1>4, <1>6, <1>7 DEF Inv

LEMMA LockMutexStep ==
    ASSUME Inv, NEW p \in Processes, NEW r \in Rooms, LockMutex(p, r)
    PROVE  Inv'
<1>1. /\ At(p, r, "asked", "mutex") /\ "mutex" \in Places /\ TypeOK
      /\ mLastId[p] = Nobody /\ mLastId' = [mLastId EXCEPT ![p] = r]
      /\ UNCHANGED <<supervisor, phase, counter, holder, id, replays, faults>>
  BY DEF LockMutex, Places, Inv
<1>2. /\ phase[p] \in Playing /\ newId[p][r] = "asked"
      /\ newId' \in [Processes -> [Rooms -> Places]]
      /\ \A q \in Processes, s \in Rooms :
             newId'[q][s] = IF q = p /\ s = r THEN "mutex" ELSE newId[q][s]
  BY <1>1, AtFacts
<1>3. mLastId' \in [Processes -> Rooms \cup {Nobody}]
  BY <1>1 DEF TypeOK
<1>4. TypeOK'
  BY <1>1, <1>2, <1>3 DEF TypeOK, Places, supervisor, counter, replays, faults
<1>5. \A q \in Processes : mLastId'[q] = IF q = p THEN r ELSE mLastId[q]
  BY <1>1 DEF TypeOK
<1>6. \A s \in Rooms : newId[p][s] # "mutex" /\ newId[p][s] \notin Inside
  BY <1>1, ReplayIdsAssumption DEF Inv, Locked
<1>7. Locked'
  BY <1>1, <1>2, <1>5, <1>6 DEF Inv, Locked, Inside
<1>8. file # "absent" /\ file' # "absent"
  BY <1>1, <1>2 DEF Inv, Supervised, Playing, counter
<1>9. Supervised'
  <2>1. UNCHANGED <<supervisor, phase>> /\ file' = file /\ lastId' = lastId
    BY <1>1 DEF counter
  <2> QED
    BY <1>2, <1>8, <2>1, SameSupervised
<1>10. ~ misread' => Given'
  BY <1>1, <1>2, SameGiven
<1> QED
  BY <1>4, <1>7, <1>9, <1>10 DEF Inv

\* The lock on the file is free, or it is this process's own; the mutex then says
\* that no other thread of it is inside.
LEMMA LockFileStep ==
    ASSUME Inv, NEW p \in Processes, NEW r \in Rooms, LockFile(p, r)
    PROVE  Inv'
<1>1. /\ At(p, r, "mutex", "locked") /\ "locked" \in Places /\ TypeOK
      /\ holder \in {Nobody, p} /\ holder' = p
      /\ UNCHANGED <<supervisor, phase, counter, mLastId, id, replays, faults>>
  BY DEF LockFile, Places, Inv
<1>2. /\ phase[p] \in Playing /\ newId[p][r] = "mutex"
      /\ newId' \in [Processes -> [Rooms -> Places]]
      /\ \A q \in Processes, s \in Rooms :
             newId'[q][s] = IF q = p /\ s = r THEN "locked" ELSE newId[q][s]
  BY <1>1, AtFacts
<1>3. TypeOK'
  BY <1>1, <1>2 DEF TypeOK, Places, supervisor, counter, replays, faults
<1>4. Locked'
  BY <1>1, <1>2, ReplayIdsAssumption DEF Inv, Locked, Inside
<1>5. file # "absent" /\ file' # "absent"
  BY <1>1, <1>2 DEF Inv, Supervised, Playing, counter
<1>6. Supervised'
  <2>1. UNCHANGED <<supervisor, phase>> /\ file' = file /\ lastId' = lastId
    BY <1>1 DEF counter
  <2> QED
    BY <1>2, <1>5, <2>1, SameSupervised
<1>7. ~ misread' => Given'
  BY <1>1, <1>2, SameGiven
<1> QED
  BY <1>3, <1>4, <1>6, <1>7 DEF Inv

LEMMA ReadIdStep ==
    ASSUME Inv, NEW p \in Processes, NEW r \in Rooms, ReadId(p, r)
    PROVE  Inv'
<1>1. /\ At(p, r, "locked", "read") /\ "read" \in Places /\ TypeOK
      /\ file = "whole" /\ misread' \in BOOLEAN
      /\ UNCHANGED <<supervisor, phase, counter, locks, replays, torn, unopened>>
  BY DEF ReadId, Places, Inv, TypeOK
<1>2. /\ phase[p] \in Playing /\ newId[p][r] = "locked"
      /\ newId' \in [Processes -> [Rooms -> Places]]
      /\ \A q \in Processes, s \in Rooms :
             newId'[q][s] = IF q = p /\ s = r THEN "read" ELSE newId[q][s]
  BY <1>1, AtFacts
<1>3. /\ id' \in [Processes -> [Rooms -> Nat]]
      /\ ~ misread' =>
             /\ ~ misread
             /\ \A q \in Processes, s \in Rooms :
                    id'[q][s] = IF q = p /\ s = r THEN lastId ELSE id[q][s]
  BY DEF ReadId, Inv, TypeOK
<1>4. TypeOK'
  BY <1>1, <1>2, <1>3 DEF TypeOK, Places, supervisor, counter, locks, replays
<1>5. Locked'
  BY <1>1, <1>2 DEF Inv, Locked, Inside, locks
<1>6. Supervised'
  <2>1. UNCHANGED <<supervisor, phase>> /\ file' = file /\ lastId' = lastId
    BY <1>1 DEF counter
  <2>2. file # "absent"
    BY <1>1
  <2> QED
    BY <1>2, <2>1, <2>2, SameSupervised
<1>7. ASSUME ~ misread'
      PROVE  Given'
  <2>1. Given /\ lastId > 0
    BY <1>1, <1>3, <1>7 DEF Inv, Given
  <2>2. \A q \in Processes, s \in Rooms :
            id'[q][s] = IF q = p /\ s = r THEN lastId ELSE id[q][s]
    BY <1>3, <1>7
  <2>3. /\ file' = "whole" /\ lastId' = lastId /\ saved' = saved
        /\ overwritten' = overwritten /\ torn' = torn /\ unopened' = unopened
    BY <1>1 DEF counter, replays
  <2>4. (Spoilt' <=> Spoilt) /\ (ZeroGiven' <=> ZeroGiven)
    BY <2>3 DEF Spoilt, ZeroGiven
  <2>5. Distinct'
    BY <1>2, <2>1, <2>2, <2>4, DistinctKept DEF Given
  <2>6. \A q \in Processes, s \in Rooms : newId'[q][s] = "given" => Mine(q, s)
    BY <1>2, <2>1 DEF Given
  <2>7. \A q \in Processes, s \in Rooms : newId'[q][s] = "given" => Mine(q, s)'
    BY <1>2, <2>2, <2>3, <2>4, <2>6 DEF Mine
  <2>8. \A q \in Processes, s \in Rooms :
            newId'[q][s] \in {"read", "truncated"} => id'[q][s] = lastId' /\ lastId' > 0
    BY <1>2, <2>1, <2>2, <2>3 DEF Given
  <2>9. \A q \in Processes, s \in Rooms : newId'[q][s] # "truncated"
    BY <1>1, <1>2, <2>1 DEF Given
  <2> QED
    BY <2>1, <2>3, <2>4, <2>5, <2>7, <2>8, <2>9 DEF Given
<1> QED
  BY <1>4, <1>5, <1>6, <1>7 DEF Inv

LEMMA UnlockFacts ==
    ASSUME TypeOK, Locked, NEW p \in Processes, NEW r \in Rooms, newId[p][r] \in Inside,
           Unlock(p), \A q \in Processes, s \in Rooms :
               newId'[q][s] = IF q = p /\ s = r THEN "given" ELSE newId[q][s]
    PROVE  /\ holder' \in Processes \cup {Nobody}
           /\ mLastId' \in [Processes -> Rooms \cup {Nobody}]
           /\ Locked'
<1>1. holder' = Nobody /\ mLastId' = [mLastId EXCEPT ![p] = Nobody]
  BY DEF Unlock
<1>2. mLastId' \in [Processes -> Rooms \cup {Nobody}]
  BY <1>1 DEF TypeOK
<1>3. \A q \in Processes : q # p => mLastId'[q] = mLastId[q]
  BY <1>1 DEF TypeOK
<1>4. Locked'
  BY <1>1, <1>3 DEF Locked, Inside
<1> QED
  BY <1>1, <1>2, <1>4

\* A duel is given 0: by a lastId that was left so, or for the first time.
LEMMA NoIdStep ==
    ASSUME Inv, NEW p \in Processes, NEW r \in Rooms, NEW from \in {"locked", "read"},
           NoId(p, r, from), unopened' \in 0..2, unopened' >= unopened,
           ~ misread => Spoilt' \/ (~ ZeroGiven /\ ZeroGiven')
    PROVE  Inv'
<1>1. /\ At(p, r, from, "given") /\ "given" \in Places /\ TypeOK
      /\ id' = [id EXCEPT ![p][r] = 0] /\ Unlock(p)
      /\ UNCHANGED <<supervisor, phase, counter, replays, torn, misread>>
  BY DEF NoId, Places, Inv
<1>2. /\ phase[p] \in Playing /\ newId[p][r] = from
      /\ newId' \in [Processes -> [Rooms -> Places]]
      /\ \A q \in Processes, s \in Rooms :
             newId'[q][s] = IF q = p /\ s = r THEN "given" ELSE newId[q][s]
  BY <1>1, AtFacts
<1>3. /\ id' \in [Processes -> [Rooms -> Nat]]
      /\ \A q \in Processes, s \in Rooms :
             id'[q][s] = IF q = p /\ s = r THEN 0 ELSE id[q][s]
  BY <1>1 DEF TypeOK
<1>4. /\ holder' \in Processes \cup {Nobody}
      /\ mLastId' \in [Processes -> Rooms \cup {Nobody}]
      /\ Locked'
  BY <1>1, <1>2, UnlockFacts DEF Inv, Inside
<1>5. TypeOK'
  BY <1>1, <1>2, <1>3, <1>4 DEF TypeOK, Places, supervisor, counter, replays
<1>6. Supervised'
  <2>1. UNCHANGED <<supervisor, phase>> /\ file' = file /\ lastId' = lastId
    BY <1>1 DEF counter
  <2>2. file # "absent"
    BY <1>2, OneInside DEF Inside
  <2> QED
    BY <1>2, <2>1, <2>2, SameSupervised
<1>7. ASSUME ~ misread'
      PROVE  Given'
  <2>1. Given /\ (Spoilt' \/ (~ ZeroGiven /\ ZeroGiven'))
    BY <1>1, <1>7 DEF Inv
  <2>2. /\ file' = file /\ lastId' = lastId /\ saved' = saved /\ phase' = phase
        /\ overwritten' = overwritten /\ torn' = torn
    BY <1>1 DEF counter, replays
  <2>3. unopened \in 0..2 /\ torn \in BOOLEAN
    BY DEF Inv, TypeOK
  <2>4. /\ Spoilt => Spoilt'
        /\ ZeroGiven => ZeroGiven'
        /\ Spoilt' => ZeroGiven'
    BY <2>2, <2>3 DEF Spoilt, ZeroGiven
  <2>5. \A q \in Processes, s \in Rooms : newId'[q][s] \notin {"none", "given"} =>
            newId[q][s] = newId'[q][s] /\ id'[q][s] = id[q][s]
    BY <1>2, <1>3
  <2>6. Writing => Writing'
    BY <1>2, <2>2 DEF Writing
  <2>7. CASE Spoilt'
    <3>1. Distinct'
      BY <1>2, <1>3, <2>1, <2>7, DistinctKept DEF Given
    <3>2. \A q \in Processes, s \in Rooms : Mine(q, s) /\ id'[q][s] = id[q][s] => Mine(q, s)'
      BY <2>2, <2>4, <2>7 DEF Mine
    <3>3. Mine(p, r)'
      BY <1>3, <2>4, <2>7 DEF Mine
    <3>4. \A q \in Processes, s \in Rooms : newId'[q][s] = "given" => Mine(q, s)'
      <4> SUFFICES ASSUME NEW q \in Processes, NEW s \in Rooms, newId'[q][s] = "given"
                   PROVE  Mine(q, s)'
        OBVIOUS
      <4>1. CASE q = p /\ s = r
        BY <1>3, <3>3, <4>1
      <4>2. CASE ~ (q = p /\ s = r)
        <5>1. Mine(q, s) /\ id'[q][s] = id[q][s]
          BY <1>2, <1>3, <2>1, <4>2 DEF Given
        <5> QED
          BY <3>2, <5>1
      <4> QED
        BY <4>1, <4>2
    <3>5. overwritten' \subseteq (IF Spoilt' THEN {0} ELSE {})
      BY <2>1, <2>2, <2>7 DEF Given
    <3> QED
      BY <2>1, <2>2, <2>4, <2>5, <2>6, <3>1, <3>4, <3>5 DEF Given
  <2>8. CASE ~ ZeroGiven /\ ZeroGiven'
    <3>1. 0 \notin saved /\ ~ Spoilt
      BY <2>1, <2>3, <2>8 DEF Given, Spoilt, ZeroGiven
    <3>2. \A q \in Processes, s \in Rooms : newId[q][s] = "given" =>
              id[q][s] > 0 /\ Mine(q, s)
      BY <2>1, <2>8 DEF Given, Mine
    <3>3. \A q \in Processes, s \in Rooms :
              id[q][s] > 0 /\ Mine(q, s) /\ id'[q][s] = id[q][s] => Mine(q, s)'
      BY <2>2 DEF Mine
    <3>4. Mine(p, r)'
      BY <1>3, <2>2, <2>8, <3>1 DEF Mine
    <3>5. \A q \in Processes, s \in Rooms : newId'[q][s] = "given" => Mine(q, s)'
      <4> SUFFICES ASSUME NEW q \in Processes, NEW s \in Rooms, newId'[q][s] = "given"
                   PROVE  Mine(q, s)'
        OBVIOUS
      <4>1. CASE q = p /\ s = r
        BY <1>3, <3>4, <4>1
      <4>2. CASE ~ (q = p /\ s = r)
        <5>1. id[q][s] > 0 /\ Mine(q, s) /\ id'[q][s] = id[q][s]
          BY <1>2, <1>3, <3>2, <4>2
        <5> QED
          BY <3>3, <5>1
      <4> QED
        BY <4>1, <4>2
    <3>6. Distinct'
      <4> SUFFICES ASSUME NEW q \in Processes, NEW s \in Rooms,
                          NEW q2 \in Processes, NEW s2 \in Rooms,
                          newId'[q][s] = "given", newId'[q2][s2] = "given",
                          id'[q][s] = id'[q2][s2]
                   PROVE  q = q2 /\ s = s2
        BY DEF Distinct
      <4>1. CASE q = p /\ s = r
        BY <1>2, <1>3, <3>2, <4>1
      <4>2. CASE q2 = p /\ s2 = r
        BY <1>2, <1>3, <3>2, <4>2
      <4>3. CASE ~ (q = p /\ s = r) /\ ~ (q2 = p /\ s2 = r)
        <5>1. /\ newId[q][s] = "given" /\ newId[q2][s2] = "given"
              /\ id[q][s] = id[q2][s2] /\ id[q][s] > 0
          BY <1>2, <1>3, <3>2, <4>3
        <5> QED
          BY <2>1, <5>1, Zenon DEF Given, Distinct
      <4> QED
        BY <4>1, <4>2, <4>3
    <3>7. overwritten' = {}
      BY <2>1, <2>2, <3>1 DEF Given
    <3> QED
      BY <2>1, <2>2, <2>5, <2>6, <2>8, <3>5, <3>6, <3>7 DEF Given
  <2> QED
    BY <2>1, <2>7, <2>8
<1> QED
  BY <1>4, <1>5, <1>6, <1>7 DEF Inv

\* lastId is not whole, and nobody is about to write it: it was left so.
LEMMA NoIdToReadStep ==
    ASSUME Inv, NEW p \in Processes, NEW r \in Rooms, NoIdToRead(p, r)
    PROVE  Inv'
<1>1. file # "whole" /\ NoId(p, r, "locked") /\ unopened' = unopened /\ torn' = torn
  BY DEF NoIdToRead, NoId
<1>2. unopened \in 0..2 /\ TypeOK
  BY DEF Inv, TypeOK
<1>3. newId[p][r] = "locked"
  BY <1>1, <1>2 DEF NoId, At
<1>4. /\ \A q \in Processes, s \in Rooms : newId[q][s] \in Inside => q = p /\ s = r
      /\ \A q \in Processes : phase[q] \notin {"creates", "truncated"}
      /\ file # "absent"
  BY <1>3, OneInside DEF Inside
<1>5. ~ Writing /\ file = "empty"
  BY <1>1, <1>2, <1>3, <1>4 DEF Writing, Inside, TypeOK
<1>6. ~ misread => Spoilt'
  BY <1>1, <1>5 DEF Inv, Given, Spoilt
<1>7. unopened' \in 0..2 /\ unopened' >= unopened
  BY <1>1, <1>2
<1> QED
  BY <1>1, <1>6, <1>7, NoIdStep

\* Who cannot open lastId may be the first to be given 0.
LEMMA CannotOpenStep ==
    ASSUME Inv, NEW p \in Processes, NEW r \in Rooms, CannotOpen(p, r)
    PROVE  Inv'
<1>1. PICK from \in {"locked", "read"} : NoId(p, r, from)
  BY DEF CannotOpen
<1>2. /\ unopened \in 0..2 /\ torn \in BOOLEAN /\ torn' = torn
      /\ unopened' = IF unopened = 0 THEN 1 ELSE 2
  BY <1>1 DEF CannotOpen, NoId, Inv, TypeOK
<1>3. Spoilt' \/ (~ ZeroGiven /\ ZeroGiven')
  BY <1>2 DEF Spoilt, ZeroGiven
<1> QED
  BY <1>1, <1>2, <1>3, NoIdStep

LEMMA TruncateLastIdStep ==
    ASSUME Inv, NEW p \in Processes, NEW r \in Rooms, TruncateLastId(p, r)
    PROVE  Inv'
<1>1. /\ At(p, r, "read", "truncated") /\ "truncated" \in Places /\ TypeOK
      /\ file' = "empty" /\ lastId' = lastId
      /\ UNCHANGED <<supervisor, phase, locks, id, replays, faults>>
  BY DEF TruncateLastId, Places, Inv
<1>2. /\ phase[p] \in Playing /\ newId[p][r] = "read"
      /\ newId' \in [Processes -> [Rooms -> Places]]
      /\ \A q \in Processes, s \in Rooms :
             newId'[q][s] = IF q = p /\ s = r THEN "truncated" ELSE newId[q][s]
  BY <1>1, AtFacts
<1>3. TypeOK'
  BY <1>1, <1>2 DEF TypeOK, Places, supervisor, locks, replays, faults
<1>4. Locked'
  BY <1>1, <1>2 DEF Inv, Locked, Inside, locks
<1>5. /\ \A q \in Processes, s \in Rooms : newId[q][s] \in Inside => q = p /\ s = r
      /\ \A q \in Processes : phase[q] \notin {"creates", "truncated"}
  BY <1>2, OneInside DEF Inside
<1>6. Supervised'
  <2>1. UNCHANGED <<supervisor, phase>> /\ file # "absent" /\ file' # "absent"
    BY <1>1, <1>2, OneInside DEF Inside
  <2> QED
    BY <1>2, <1>5, <2>1, SameSupervised
<1>7. Writing'
  BY <1>2 DEF Writing
<1>8. \A q \in Processes, s \in Rooms : newId'[q][s] # "read"
  BY <1>2, <1>5 DEF Inside
<1>9. ASSUME ~ misread'
      PROVE  Given'
  <2>1. /\ id' = id /\ saved' = saved /\ overwritten' = overwritten
        /\ torn' = torn /\ unopened' = unopened /\ misread' = misread
    BY <1>1 DEF replays, faults
  <2>2. Given
    BY <1>9, <2>1 DEF Inv
  <2>3. (Spoilt' <=> Spoilt) /\ (ZeroGiven' <=> ZeroGiven)
    BY <2>1 DEF Spoilt, ZeroGiven
  <2>4. \A q \in Processes, s \in Rooms : Mine(q, s) /\ id'[q][s] = id[q][s] => Mine(q, s)'
    BY <1>1, <2>1, <2>3 DEF Mine
  <2>5. Distinct'
    BY <1>2, <2>1, <2>2, <2>3, DistinctKept DEF Given
  <2> QED
    BY <1>1, <1>2, <1>7, <1>8, <2>1, <2>2, <2>3, <2>4, <2>5 DEF Given
<1> QED
  BY <1>3, <1>4, <1>6, <1>9 DEF Inv

\* The thread that has read the number is alone with it, so what it writes is one
\* more than what was there, or nothing.
LEMMA WriteIdStep ==
    ASSUME Inv, NEW p \in Processes, NEW r \in Rooms, WriteId(p, r)
    PROVE  Inv' /\ (~ misread' => lastId' = lastId + 1)
<1>1. /\ At(p, r, "truncated", "given") /\ "given" \in Places /\ TypeOK
      /\ file' \in {"whole", "empty"} /\ lastId' = id[p][r] + 1 /\ Unlock(p)
      /\ torn' = (torn \/ file' = "empty")
      /\ UNCHANGED <<supervisor, phase, id, replays, unopened, misread>>
  BY DEF WriteId, Write, Places, Inv
<1>2. /\ phase[p] \in Playing /\ newId[p][r] = "truncated"
      /\ newId' \in [Processes -> [Rooms -> Places]]
      /\ \A q \in Processes, s \in Rooms :
             newId'[q][s] = IF q = p /\ s = r THEN "given" ELSE newId[q][s]
  BY <1>1, AtFacts
<1>3. /\ holder' \in Processes \cup {Nobody}
      /\ mLastId' \in [Processes -> Rooms \cup {Nobody}]
      /\ Locked'
  BY <1>1, <1>2, UnlockFacts DEF Inv, Inside
<1>4. id[p][r] \in Nat /\ lastId \in Nat /\ torn' \in BOOLEAN
  BY <1>1 DEF TypeOK
<1>5. lastId' \in Nat
  BY <1>1, <1>4
<1>6. TypeOK'
  BY <1>1, <1>2, <1>3, <1>4, <1>5 DEF TypeOK, Places, supervisor, replays
<1>7. /\ \A q \in Processes, s \in Rooms : newId[q][s] \in Inside => q = p /\ s = r
      /\ \A q \in Processes : phase[q] \notin {"creates", "truncated"}
  BY <1>2, OneInside DEF Inside
<1>8. Supervised'
  <2>1. UNCHANGED <<supervisor, phase>> /\ file # "absent" /\ file' # "absent"
    BY <1>1, <1>2, OneInside DEF Inside
  <2> QED
    BY <1>2, <1>7, <2>1, SameSupervised
<1>9. ASSUME ~ misread'
      PROVE  Given' /\ lastId' = lastId + 1
  <2>1. /\ id' = id /\ saved' = saved /\ overwritten' = overwritten /\ unopened' = unopened
        /\ ~ misread
    BY <1>1, <1>9 DEF replays
  <2>2. /\ Given /\ id \in [Processes -> [Rooms -> Nat]] /\ saved \subseteq Nat
        /\ unopened \in 0..2 /\ torn \in BOOLEAN
    BY <2>1 DEF Inv, TypeOK
  <2>3. id[p][r] = lastId /\ lastId > 0 /\ lastId' = lastId + 1
    BY <1>1, <1>2, <2>2 DEF Given
  <2>4. \A q \in Processes, s \in Rooms : newId'[q][s] \notin {"read", "truncated"}
    BY <1>2, <1>7 DEF Inside
  <2>5. (Spoilt => Spoilt') /\ (ZeroGiven => ZeroGiven')
    BY <1>1, <2>1 DEF Spoilt, ZeroGiven
  <2>6. \A n \in saved : n < lastId \/ n = 0
    BY <2>2 DEF Given
  <2>7. \A q \in Processes, s \in Rooms : Mine(q, s) /\ id'[q][s] = id[q][s] => Mine(q, s)'
    BY <1>4, <2>1, <2>2, <2>3, <2>5 DEF Mine
  <2>8. Mine(p, r)'
    <3>1. id[p][r] \notin saved
      BY <1>4, <2>3, <2>6
    <3> QED
      BY <1>4, <2>1, <2>3, <3>1 DEF Mine
  <2>9. \A q \in Processes, s \in Rooms : newId'[q][s] = "given" => Mine(q, s)'
    <3> SUFFICES ASSUME NEW q \in Processes, NEW s \in Rooms, newId'[q][s] = "given"
                 PROVE  Mine(q, s)'
      BY <2>1
    <3>1. CASE q = p /\ s = r
      BY <2>8, <3>1
    <3>2. CASE ~ (q = p /\ s = r)
      <4>1. newId[q][s] = "given" /\ id[q][s] \in Nat
        BY <1>2, <2>2, <3>2
      <4>2. Mine(q, s)
        BY <2>2, <4>1 DEF Given
      <4> QED
        BY <2>1, <2>7, <4>1, <4>2
    <3> QED
      BY <3>1, <3>2
  <2>10. ASSUME NEW t \in Processes, NEW u \in Rooms, newId[t][u] = "given"
         PROVE  id[t][u] < lastId /\ id[t][u] # lastId
    <3>1. Mine(t, u)
      BY <2>2, <2>10 DEF Given
    <3> QED
      BY <1>4, <2>2, <2>3, <3>1 DEF Mine
  <2>11. Distinct'
    <3> SUFFICES ASSUME NEW q \in Processes, NEW s \in Rooms,
                        NEW q2 \in Processes, NEW s2 \in Rooms,
                        newId'[q][s] = "given", newId'[q2][s2] = "given",
                        id[q][s] = id[q2][s2], id[q][s] > 0 \/ ~ Spoilt
                 PROVE  q = q2 /\ s = s2
      BY <2>1, <2>5 DEF Distinct
    <3>1. CASE q = p /\ s = r
      BY <1>2, <2>3, <2>10, <3>1
    <3>2. CASE q2 = p /\ s2 = r
      BY <1>2, <2>3, <2>10, <3>2
    <3>3. CASE ~ (q = p /\ s = r) /\ ~ (q2 = p /\ s2 = r)
      <4>1. newId[q][s] = "given" /\ newId[q2][s2] = "given" /\ Distinct
        BY <1>2, <2>2, <3>3 DEF Given
      <4> QED
        BY <4>1, Zenon DEF Distinct
    <3> QED
      BY <3>1, <3>2, <3>3
  <2>12. \A n \in saved' : n < lastId' \/ n = 0
    BY <1>4, <2>1, <2>2, <2>3, <2>6
  <2>13. overwritten' \subseteq (IF Spoilt' THEN {0} ELSE {})
    BY <2>1, <2>2, <2>5 DEF Given
  <2>14. 0 \in saved' => ZeroGiven'
    BY <2>1, <2>2, <2>5 DEF Given
  <2>15. file' = "empty" => torn'
    BY <1>1
  <2>16. file' = "whole" => lastId' > 0
    BY <1>4, <2>3
  <2>17. Given'
    BY <2>4, <2>9, <2>11, <2>12, <2>13, <2>14, <2>15, <2>16 DEF Given
  <2> QED
    BY <2>3, <2>17
<1> QED
  BY <1>3, <1>6, <1>8, <1>9 DEF Inv

LEMMA SaveStep ==
    ASSUME Inv, NEW p \in Processes, NEW r \in Rooms, Save(p, r)
    PROVE  Inv'
<1>1. /\ At(p, r, "given", "none") /\ "none" \in Places /\ TypeOK
      /\ \/ UNCHANGED replays
         \/ /\ saved' = saved \cup {id[p][r]}
            /\ overwritten' = overwritten \cup ({id[p][r]} \cap saved)
      /\ UNCHANGED <<supervisor, phase, counter, locks, id, faults>>
  BY DEF Save, Places, Inv
<1>2. /\ phase[p] \in Playing /\ newId[p][r] = "given"
      /\ newId' \in [Processes -> [Rooms -> Places]]
      /\ \A q \in Processes, s \in Rooms :
             newId'[q][s] = IF q = p /\ s = r THEN "none" ELSE newId[q][s]
  BY <1>1, AtFacts
<1>3. id[p][r] \in Nat
  BY DEF Inv, TypeOK
<1>4. saved' \subseteq Nat /\ overwritten' \subseteq Nat
  BY <1>1, <1>3 DEF TypeOK, replays
<1>5. TypeOK'
  BY <1>1, <1>2, <1>4 DEF TypeOK, Places, supervisor, counter, locks, faults
<1>6. Locked'
  BY <1>1, <1>2 DEF Inv, Locked, Inside, locks
<1>7. file # "absent" /\ file' # "absent"
  BY <1>1, <1>2 DEF Inv, Supervised, Playing, counter
<1>8. Supervised'
  <2>1. UNCHANGED <<supervisor, phase>> /\ file' = file /\ lastId' = lastId
    BY <1>1 DEF counter
  <2> QED
    BY <1>2, <1>7, <2>1, SameSupervised
<1>9. ASSUME ~ misread'
      PROVE  Given'
  <2>1. /\ id' = id /\ file' = file /\ lastId' = lastId /\ phase' = phase
        /\ torn' = torn /\ unopened' = unopened /\ misread' = misread
    BY <1>1 DEF counter, faults
  <2>2. Given /\ lastId \in Nat
    BY <1>9, <2>1 DEF Inv, TypeOK
  <2>3. (Spoilt' <=> Spoilt) /\ (ZeroGiven' <=> ZeroGiven)
    BY <2>1 DEF Spoilt, ZeroGiven
  <2>4. Mine(p, r)
    BY <1>2, <2>2 DEF Given
  <2>5. /\ \A n \in saved' : n \in saved \/ n = id[p][r]
        /\ \A n \in overwritten' : n \in overwritten \/ (n = id[p][r] /\ n \in saved)
    <3>1. CASE UNCHANGED replays
      BY <3>1 DEF replays
    <3>2. CASE /\ saved' = saved \cup {id[p][r]}
               /\ overwritten' = overwritten \cup ({id[p][r]} \cap saved)
      BY <3>2
    <3> QED
      BY <1>1, <3>1, <3>2
  <2>6. \A q \in Processes, s \in Rooms : newId'[q][s] = "given" => Mine(q, s)'
    <3> SUFFICES ASSUME NEW q \in Processes, NEW s \in Rooms, newId'[q][s] = "given"
                 PROVE  Mine(q, s)'
      BY <2>1
    <3>1. newId[q][s] = "given" /\ ~ (q = p /\ s = r) /\ id[q][s] \in Nat
      BY <1>2 DEF Inv, TypeOK
    <3>2. Mine(q, s) /\ Distinct
      BY <2>2, <3>1 DEF Given
    <3>3. id[q][s] > 0 \/ ~ Spoilt => id[q][s] # id[p][r]
      BY <1>2, <3>1, <3>2, Zenon DEF Distinct
    <3>4. id[q][s] > 0 \/ ~ Spoilt => (id[q][s] \in saved' => id[q][s] \in saved)
      BY <2>5, <3>3
    <3> QED
      BY <2>1, <2>3, <3>1, <3>2, <3>4 DEF Mine
  <2>7. \A n \in saved' : n < lastId' \/ n = 0
    BY <1>3, <2>1, <2>2, <2>4, <2>5 DEF Given, Mine
  <2>8. 0 \in saved' => ZeroGiven'
    BY <1>3, <2>2, <2>3, <2>4, <2>5 DEF Given, Mine
  <2>9. overwritten' \subseteq (IF Spoilt' THEN {0} ELSE {})
    <3>2. id[p][r] \in saved => id[p][r] = 0 /\ Spoilt
      BY <1>3, <2>4 DEF Mine
    <3> QED
      BY <2>2, <2>3, <2>5, <3>2 DEF Given
  <2>10. Writing' <=> Writing
    BY <1>2, <2>1 DEF Writing
  <2>11. Distinct'
    BY <1>2, <2>1, <2>2, <2>3, DistinctKept DEF Given
  <2>12. \A q \in Processes, s \in Rooms : newId'[q][s] \in {"read", "truncated"} =>
             newId[q][s] = newId'[q][s]
    BY <1>2
  <2> QED
    BY <2>1, <2>2, <2>6, <2>7, <2>8, <2>9, <2>10, <2>11, <2>12 DEF Given
<1> QED
  BY <1>5, <1>6, <1>8, <1>9 DEF Inv

-----------------------------------------------------------------------------
(***************************************************************************)
(* Steps of whole processes.                                               *)
(***************************************************************************)
\* lastId is left alone, and so are the rooms, but for those of a process that
\* dies; who dies while it is empty leaves torn behind.
LEMMA GivenAndProcesses ==
    ASSUME Inv, UNCHANGED <<counter, id, replays, unopened, misread>>, torn => torn',
           \A q \in Processes, s \in Rooms :
               \/ newId'[q][s] = newId[q][s]
               \/ newId'[q][s] = "none" /\ (newId[q][s] = "truncated" => torn'),
           \A q \in Processes : phase[q] = "truncated" => phase'[q] = "truncated" \/ torn'
    PROVE  ~ misread' => Given'
<1>1. /\ file' = file /\ lastId' = lastId /\ id' = id /\ misread' = misread
      /\ saved' = saved /\ overwritten' = overwritten /\ unopened' = unopened
  BY DEF counter, replays
<1> SUFFICES ASSUME ~ misread PROVE Given'
  BY <1>1
<1>2. Given
  BY DEF Inv
<1>3. Writing => Writing' \/ torn'
  BY DEF Writing
<1>4. (Spoilt => Spoilt') /\ (ZeroGiven => ZeroGiven')
  BY <1>1 DEF Spoilt, ZeroGiven
<1>5. \A q \in Processes, s \in Rooms : \A at \in {"read", "truncated", "given"} :
          newId'[q][s] = at => newId[q][s] = at
  OBVIOUS
<1>6. Distinct'
  BY <1>1, <1>2, <1>4, <1>5, DistinctKept DEF Given
<1>7. \A q \in Processes, s \in Rooms : Mine(q, s) /\ id'[q][s] = id[q][s] => Mine(q, s)'
  BY <1>1, <1>4 DEF Mine
<1>8. \A q \in Processes, s \in Rooms : newId'[q][s] = "given" => Mine(q, s)'
  BY <1>1, <1>2, <1>5, <1>7 DEF Given
<1> QED
  BY <1>1, <1>2, <1>3, <1>4, <1>5, <1>6, <1>8 DEF Given

\* A process is launched where none runs, when nobody else is being constructed or
\* up: the last one has ended, or was signalled.
LEMMA LaunchStep ==
    ASSUME Inv, NEW p \in Processes, Launch(p), signaled' \in BOOLEAN,
           \/ ~ signaled /\ ~ Running(multirole_pid) /\ UNCHANGED signaled
           \/ signaled /\ signaled' = FALSE
    PROVE  Inv'
<1>1. /\ phase[p] = "off" /\ multirole_pid' = p /\ phase' = [phase EXCEPT ![p] = "checks"]
      /\ UNCHANGED <<counter, locks, numbers, replays, faults>>
  BY DEF Launch, Running, Becomes
<1>2. \A q \in Processes : phase'[q] = IF q = p THEN "checks" ELSE phase[q]
  BY <1>1, BecomesFacts DEF Inv
<1>3. phase' \in [Processes -> {"off", "checks", "creates", "truncated", "locks", "up", "ends"}]
  BY <1>1 DEF Inv, TypeOK
<1>4. TypeOK'
  BY <1>1, <1>3 DEF Inv, TypeOK, counter, locks, numbers, replays, faults
<1>5. \A q \in Processes : phase[q] \notin Constructing \cup {"up"}
  BY DEF Inv, Supervised, Running, Constructing
<1>6. ~ signaled'
  OBVIOUS
<1>7. Supervised'
  BY <1>1, <1>2, <1>5, <1>6 DEF Inv, Supervised, Constructing, Playing, counter, numbers
<1>8. Locked'
  BY <1>1 DEF Inv, Locked, locks, numbers
<1>9. ~ misread' => Given'
  <2>1. /\ UNCHANGED <<counter, id, replays, unopened, misread>>
        /\ torn' = torn /\ newId' = newId
        /\ \A q \in Processes : phase[q] # "truncated"
    BY <1>1, <1>5 DEF numbers, faults, Constructing
  <2> QED
    BY <2>1, GivenAndProcesses
<1> QED
  BY <1>4, <1>7, <1>8, <1>9 DEF Inv

\* A process dies, of a signal or by itself.
LEMMA DieStep ==
    ASSUME Inv, NEW p \in Processes, Die(p), UNCHANGED <<multirole_pid, counter, id, replays>>,
           \/ signaled' = signaled
           \/ signaled' = TRUE /\ p = multirole_pid
    PROVE  Inv'
<1>1. /\ newId' \in [Processes -> [Rooms -> Places]]
      /\ mLastId' \in [Processes -> Rooms \cup {Nobody}]
      /\ holder' \in Processes \cup {Nobody}
      /\ torn' \in BOOLEAN /\ unopened' = unopened /\ misread' = misread
      /\ phase' = [phase EXCEPT ![p] = "off"]
      /\ \A q \in Processes, s \in Rooms :
             newId'[q][s] = IF q = p THEN "none" ELSE newId[q][s]
      /\ Locked'
      /\ torn => torn'
      /\ phase[p] = "truncated" => torn'
      /\ \A s \in Rooms : newId[p][s] = "truncated" => torn'
  BY DieFacts DEF Inv
<1>2. \A q \in Processes : phase'[q] = IF q = p THEN "off" ELSE phase[q]
  <2>1. TypeOK /\ phase' = [phase EXCEPT ![p] = "off"]
    BY <1>1 DEF Inv
  <2> QED
    BY <2>1, BecomesFacts
<1>3. phase' \in [Processes -> {"off", "checks", "creates", "truncated", "locks", "up", "ends"}]
  BY <1>1 DEF Inv, TypeOK
<1>4. TypeOK'
  BY <1>1, <1>3 DEF Inv, TypeOK, Places, counter, replays, faults
<1>5. Supervised'
  BY <1>1, <1>2 DEF Inv, Supervised, Constructing, Playing, counter
<1>6. ~ misread' => Given'
  <2>1. \A q \in Processes : phase[q] = "truncated" => phase'[q] = "truncated" \/ torn'
    BY <1>1, <1>2
  <2>2. \A q \in Processes, s \in Rooms :
            \/ newId'[q][s] = newId[q][s]
            \/ newId'[q][s] = "none" /\ (newId[q][s] = "truncated" => torn')
    BY <1>1
  <2>3. UNCHANGED <<counter, id, replays, unopened, misread>>
    BY <1>1
  <2> QED
    BY <1>1, <2>1, <2>2, <2>3, GivenAndProcesses
<1> QED
  BY <1>1, <1>4, <1>5, <1>6 DEF Inv

\* A process goes on to a phase that needs nothing of lastId.
GoesOn(p, next) ==
    /\ phase' = [phase EXCEPT ![p] = next]
    /\ UNCHANGED <<multirole_pid, counter, locks, numbers, replays, faults>>
    /\ \/ signaled' = signaled
       \/ signaled' = TRUE /\ p = multirole_pid
    /\ phase[p] # "truncated" /\ phase[p] # "off"
    /\ \/ next = "off" /\ \A s \in Rooms : newId[p][s] = "none"
       \/ next = "ends" /\ phase[p] = "up"
       \/ /\ phase[p] \in Constructing /\ signaled' = signaled
          /\ \/ next = "creates" /\ file = "absent"
             \/ next \in {"locks", "up"} /\ file # "absent"

LEMMA PhaseStep ==
    ASSUME Inv, NEW p \in Processes, NEW next \in {"off", "creates", "locks", "up", "ends"},
           GoesOn(p, next)
    PROVE  Inv'
<1>1. \A q \in Processes : phase'[q] = IF q = p THEN next ELSE phase[q]
  BY BecomesFacts DEF Inv, GoesOn
<1>2. phase' \in [Processes -> {"off", "checks", "creates", "truncated", "locks", "up", "ends"}]
  BY DEF Inv, TypeOK, GoesOn
<1>3. TypeOK'
  BY <1>2 DEF Inv, TypeOK, GoesOn, counter, locks, numbers, replays, faults
<1>4. /\ file' = file /\ lastId' = lastId /\ newId' = newId /\ Supervised
      /\ multirole_pid' = multirole_pid
  BY DEF Inv, GoesOn, counter, numbers
<1>5. \A q \in Processes :
          phase'[q] \in Constructing \cup {"up"} => q = multirole_pid' /\ ~ signaled'
  BY <1>1, <1>4 DEF GoesOn, Supervised, Constructing
<1>6. \A q \in Processes, s \in Rooms : newId'[q][s] # "none" => phase'[q] \in Playing
  BY <1>1, <1>4 DEF GoesOn, Supervised, Playing, Constructing
<1>7. file' = "absent" =>
          /\ lastId' = 0
          /\ \A q \in Processes : phase'[q] \in {"off", "checks", "creates"}
  BY <1>1, <1>4 DEF GoesOn, Supervised
<1>8. \A q \in Processes : phase'[q] = "creates" => file' = "absent"
  BY <1>1, <1>4 DEF GoesOn, Supervised
<1>9. \A q \in Processes : phase'[q] = "truncated" =>
          /\ file' = "empty" /\ lastId' = 0
          /\ \A t \in Processes : t # q => phase'[t] = "off"
  BY <1>1, <1>4 DEF GoesOn, Supervised
<1>10. Supervised'
  BY <1>5, <1>6, <1>7, <1>8, <1>9 DEF Supervised
<1>11. Locked'
  BY DEF Inv, GoesOn, Locked, locks, numbers
<1>12. ~ misread' => Given'
  <2>1. /\ UNCHANGED <<counter, id, replays, unopened, misread>>
        /\ torn' = torn /\ newId' = newId
    BY DEF GoesOn, numbers, faults
  <2>2. \A q \in Processes : phase[q] = "truncated" => phase'[q] = "truncated"
    BY <1>1 DEF GoesOn
  <2> QED
    BY <2>1, <2>2, GivenAndProcesses
<1> QED
  BY <1>3, <1>10, <1>11, <1>12 DEF Inv

LEMMA TermStep ==
    ASSUME Inv, Term
    PROVE  Inv'
<1>1. multirole_pid \in Processes
  BY DEF Inv, TypeOK
<1>2. signaled' = TRUE /\ UNCHANGED <<multirole_pid, counter, id, replays>>
  BY DEF Term
<1>3. CASE phase[multirole_pid] \in Constructing
  <2>1. Die(multirole_pid)
    BY <1>3 DEF Term, Constructing
  <2> QED
    BY <1>1, <1>2, <2>1, DieStep
<1>4. CASE phase[multirole_pid] = "up"
  <2>1. /\ phase' = [phase EXCEPT ![multirole_pid] = "ends"]
        /\ UNCHANGED <<locks, newId, faults>>
    BY <1>4 DEF Term
  <2>2. UNCHANGED <<multirole_pid, counter, locks, numbers, replays, faults>>
    BY <1>2, <2>1 DEF numbers
  <2> QED
    <3>1. GoesOn(multirole_pid, "ends")
      BY <1>2, <1>4, <2>1, <2>2 DEF GoesOn
    <3> QED
      BY <1>1, <3>1, PhaseStep
<1>5. CASE phase[multirole_pid] \notin Constructing \cup {"up"}
  <2>1. /\ phase' = [phase EXCEPT ![multirole_pid] = phase[multirole_pid]]
        /\ UNCHANGED <<locks, newId, faults>>
    BY <1>5 DEF Term, Constructing
  <2>2. phase' = phase
    BY <1>1, <2>1 DEF Inv, TypeOK
  <2>3. TypeOK'
    BY <1>2, <2>1, <2>2 DEF Inv, TypeOK, counter, locks, replays, faults
  <2>4. Supervised'
    BY <1>2, <1>5, <2>1, <2>2 DEF Inv, Supervised, counter
  <2>5. Locked'
    BY <2>1 DEF Inv, Locked, locks
  <2>6. ~ misread' => Given'
    <3>1. /\ UNCHANGED <<counter, id, replays, unopened, misread>>
          /\ torn' = torn /\ newId' = newId
      BY <1>2, <2>1 DEF faults
    <3> QED
      BY <2>2, <3>1, GivenAndProcesses
  <2> QED
    BY <2>3, <2>4, <2>5, <2>6 DEF Inv
<1> QED
  BY <1>3, <1>4, <1>5

LEMMA ExitStep ==
    ASSUME Inv, NEW p \in Processes, Exit(p)
    PROVE  Inv'
<1>1. /\ phase[p] = "ends" /\ \A s \in Rooms : newId[p][s] = "none"
      /\ phase' = [phase EXCEPT ![p] = "off"]
      /\ UNCHANGED <<multirole_pid, signaled, counter, locks, numbers, replays, faults>>
  BY DEF Exit, Becomes, supervisor
<1>2. GoesOn(p, "off")
  BY <1>1 DEF GoesOn
<1> QED
  BY <1>2, PhaseStep

LEMMA FindLastIdStep ==
    ASSUME Inv, NEW p \in Processes, FindLastId(p)
    PROVE  Inv'
<1>1. /\ phase[p] = "checks"
      /\ phase' = [phase EXCEPT ![p] = IF file = "absent" THEN "creates" ELSE "locks"]
      /\ UNCHANGED <<multirole_pid, signaled, counter, locks, numbers, replays, faults>>
  BY DEF FindLastId, Becomes, supervisor
<1>3. CASE file = "absent"
  <2>1. GoesOn(p, "creates")
    BY <1>1, <1>3 DEF GoesOn, Constructing
  <2> QED
    BY <2>1, PhaseStep
<1>4. CASE file # "absent"
  <2>1. GoesOn(p, "locks")
    BY <1>1, <1>4 DEF GoesOn, Constructing
  <2> QED
    BY <2>1, PhaseStep
<1> QED
  BY <1>3, <1>4

LEMMA ReadForLogStep ==
    ASSUME Inv, NEW p \in Processes, ReadForLog(p)
    PROVE  Inv'
<1>1. /\ phase[p] = "locks" /\ phase' = [phase EXCEPT ![p] = "up"]
      /\ UNCHANGED <<multirole_pid, signaled, counter, locks, numbers, replays, faults>>
  BY DEF ReadForLog, Becomes, supervisor
<1>2. file # "absent"
  BY <1>1 DEF Inv, Supervised
<1>3. GoesOn(p, "up")
  BY <1>1, <1>2 DEF GoesOn, Constructing
<1> QED
  BY <1>3, PhaseStep

\* lastId is created by the only process there is: whoever was signalled before had
\* been up, so there was a lastId.
LEMMA CreateLastIdStep ==
    ASSUME Inv, NEW p \in Processes, CreateLastId(p)
    PROVE  Inv'
<1>1. /\ phase[p] = "creates" /\ phase' = [phase EXCEPT ![p] = "truncated"]
      /\ file' = "empty" /\ lastId' = lastId
      /\ UNCHANGED <<supervisor, locks, numbers, replays, faults>>
  BY DEF CreateLastId, Becomes
<1>2. \A q \in Processes : phase'[q] = IF q = p THEN "truncated" ELSE phase[q]
  BY <1>1, BecomesFacts DEF Inv
<1>3. phase' \in [Processes -> {"off", "checks", "creates", "truncated", "locks", "up", "ends"}]
  BY <1>1 DEF Inv, TypeOK
<1>4. TypeOK'
  BY <1>1, <1>3 DEF Inv, TypeOK, supervisor, locks, numbers, replays, faults
<1>5. file = "absent" /\ lastId = 0
  BY <1>1 DEF Inv, Supervised
<1>6. \A q \in Processes : q # p => phase[q] = "off"
  BY <1>1, <1>5 DEF Inv, Supervised, Constructing
<1>7. \A q \in Processes, s \in Rooms : newId[q][s] = "none"
  BY <1>5 DEF Inv, Supervised, Playing
<1>8. /\ newId' = newId /\ id' = id /\ saved' = saved /\ overwritten' = overwritten
      /\ torn' = torn /\ unopened' = unopened /\ misread' = misread
      /\ multirole_pid' = multirole_pid /\ signaled' = signaled
  BY <1>1 DEF numbers, replays, supervisor, faults
<1>9. Supervised'
  BY <1>1, <1>2, <1>5, <1>6, <1>7, <1>8 DEF Inv, Supervised, Constructing
<1>10. Locked'
  BY <1>1 DEF Inv, Locked, locks, numbers
<1>11. Writing'
  BY <1>2 DEF Writing
<1>12. ASSUME ~ misread'
       PROVE  Given'
  <2>1. Given
    BY <1>8, <1>12 DEF Inv
  <2>2. Distinct'
    BY <1>7, <1>8 DEF Distinct
  <2>3. (Spoilt' <=> Spoilt) /\ (ZeroGiven' <=> ZeroGiven)
    BY <1>8 DEF Spoilt, ZeroGiven
  <2> QED
    BY <1>1, <1>7, <1>8, <1>11, <2>1, <2>2, <2>3 DEF Given
<1> QED
  BY <1>4, <1>9, <1>10, <1>12 DEF Inv

LEMMA WriteFirstIdStep ==
    ASSUME Inv, NEW p \in Processes, WriteFirstId(p)
    PROVE  Inv' /\ lastId' > lastId
<1>1. /\ phase[p] = "truncated" /\ phase' = [phase EXCEPT ![p] = "locks"]
      /\ file' \in {"whole", "empty"} /\ lastId' = 1
      /\ torn' = (torn \/ file' = "empty")
      /\ UNCHANGED <<supervisor, locks, numbers, replays, unopened, misread>>
  BY DEF WriteFirstId, Write, Becomes
<1>2. \A q \in Processes : phase'[q] = IF q = p THEN "locks" ELSE phase[q]
  BY <1>1, BecomesFacts DEF Inv
<1>3. /\ phase' \in [Processes -> {"off", "checks", "creates", "truncated", "locks", "up", "ends"}]
      /\ torn' \in BOOLEAN
  BY <1>1 DEF Inv, TypeOK
<1>4. TypeOK'
  BY <1>1, <1>3 DEF Inv, TypeOK, supervisor, locks, numbers, replays
<1>5. lastId = 0 /\ \A q \in Processes : q # p => phase[q] = "off"
  BY <1>1 DEF Inv, Supervised
<1>6. \A q \in Processes, s \in Rooms : newId[q][s] = "none"
  BY <1>1, <1>5 DEF Inv, Supervised, Playing
<1>7. /\ newId' = newId /\ id' = id /\ saved' = saved /\ overwritten' = overwritten
      /\ multirole_pid' = multirole_pid /\ signaled' = signaled
      /\ unopened' = unopened /\ misread' = misread
  BY <1>1 DEF numbers, replays, supervisor
<1>8. Supervised'
  BY <1>1, <1>2, <1>5, <1>6, <1>7 DEF Inv, Supervised, Constructing
<1>9. Locked'
  BY <1>1 DEF Inv, Locked, locks, numbers
<1>10. ASSUME ~ misread'
       PROVE  Given'
  <2>1. Given
    BY <1>7, <1>10 DEF Inv
  <2>2. Distinct'
    BY <1>6, <1>7 DEF Distinct
  <2>3. (Spoilt => Spoilt') /\ (ZeroGiven => ZeroGiven')
    BY <1>1, <1>7 DEF Spoilt, ZeroGiven
  <2>4. \A n \in saved' : n < lastId' \/ n = 0
    BY <1>1, <1>5, <1>7, <2>1 DEF Inv, TypeOK, Given
  <2>5. overwritten' \subseteq (IF Spoilt' THEN {0} ELSE {})
    BY <1>7, <2>1, <2>3 DEF Given
  <2>6. 0 \in saved' => ZeroGiven'
    BY <1>7, <2>1, <2>3 DEF Given
  <2>7. (file' = "empty" => torn') /\ (file' = "whole" => lastId' > 0)
    <3>1. file' = "empty" => torn'
      BY <1>1, Zenon
    <3>2. lastId' > 0
      BY <1>1
    <3> QED
      BY <3>1, <3>2
  <2> QED
    BY <1>6, <1>7, <2>2, <2>4, <2>5, <2>6, <2>7 DEF Given
<1> QED
  BY <1>1, <1>4, <1>5, <1>8, <1>9, <1>10 DEF Inv

-----------------------------------------------------------------------------
(***************************************************************************)
(* The invariant and what follows from it.                                 *)
(***************************************************************************)
LEMMA InvInit == Init => Inv
<1> SUFFICES ASSUME Init PROVE Inv
  OBVIOUS
<1>1. PICK p \in Processes :
          /\ multirole_pid = p
          /\ phase = [q \in Processes |-> IF q = p THEN "checks" ELSE "off"]
  BY DEF Init
<1>2. /\ signaled = FALSE /\ file = "absent" /\ lastId = 0
      /\ holder = Nobody /\ mLastId = [q \in Processes |-> Nobody]
      /\ newId = [q \in Processes |-> [r \in Rooms |-> "none"]]
      /\ id = [q \in Processes |-> [r \in Rooms |-> 0]]
      /\ saved = {} /\ overwritten = {} /\ torn = FALSE
      /\ unopened = 0 /\ misread = FALSE
  BY DEF Init
<1>3. TypeOK
  <2>1. /\ phase \in [Processes -> {"off", "checks", "creates", "truncated", "locks", "up", "ends"}]
        /\ multirole_pid \in Processes
    BY <1>1
  <2>2. /\ mLastId \in [Processes -> Rooms \cup {Nobody}] /\ id \in [Processes -> [Rooms -> Nat]]
        /\ newId \in [Processes -> [Rooms -> {"none", "asked", "mutex", "locked", "read",
                                           "truncated", "given"}]]
    BY <1>2
  <2>3. unopened \in 0..2 /\ lastId \in Nat
    BY <1>2
  <2> QED
    BY <1>2, <2>1, <2>2, <2>3 DEF TypeOK
<1>4. \A q \in Processes, s \in Rooms : newId[q][s] = "none"
  BY <1>2
<1>5. \A q \in Processes : phase[q] = IF q = p THEN "checks" ELSE "off"
  BY <1>1
<1>6. Supervised
  BY <1>1, <1>2, <1>4, <1>5 DEF Supervised, Constructing
<1>7. Locked
  BY <1>4 DEF Locked, Inside
<1>8. Given
  BY <1>2, <1>4 DEF Given, Distinct
<1> QED
  BY <1>3, <1>6, <1>7, <1>8 DEF Inv

LEMMA InvStep == Inv /\ [Next]_vars => Inv' /\ (~ misread' => lastId' >= lastId)
<1> SUFFICES ASSUME Inv, [Next]_vars PROVE Inv' /\ (~ misread' => lastId' >= lastId)
  OBVIOUS
<1>0. lastId \in Nat
  BY DEF Inv, TypeOK
<1>1. ASSUME NEW p \in Processes, launch_multirole_if_not_running(p)
      PROVE  Inv' /\ lastId' = lastId
  <2>1. /\ Launch(p) /\ ~ signaled /\ ~ Running(multirole_pid) /\ UNCHANGED signaled
        /\ signaled' \in BOOLEAN /\ lastId' = lastId
    BY <1>1 DEF launch_multirole_if_not_running, Launch, counter, Inv, TypeOK
  <2> QED
    BY <2>1, LaunchStep
<1>2. ASSUME NEW p \in Processes, term_and_launch_multirole(p)
      PROVE  Inv' /\ lastId' = lastId
  <2>1. /\ Launch(p) /\ signaled /\ signaled' = FALSE /\ signaled' \in BOOLEAN
        /\ lastId' = lastId
    BY <1>2 DEF term_and_launch_multirole, Launch, counter
  <2> QED
    BY <2>1, LaunchStep
<1>3. CASE Term
  <2>1. lastId' = lastId
    BY <1>3 DEF Term, counter
  <2> QED
    BY <1>0, <1>3, <2>1, TermStep
<1>4. ASSUME NEW p \in Processes, Exit(p)
      PROVE  Inv' /\ lastId' = lastId
  BY <1>4, ExitStep DEF Exit, counter
<1>5. ASSUME NEW p \in Processes, Crash(p)
      PROVE  Inv' /\ lastId' = lastId
  <2>1. /\ Die(p) /\ UNCHANGED <<multirole_pid, counter, id, replays>>
        /\ lastId' = lastId
        /\ \/ signaled' = signaled
           \/ signaled' = TRUE /\ p = multirole_pid
    BY <1>5 DEF Crash, supervisor, counter
  <2> QED
    BY <2>1, DieStep
<1>6. ASSUME NEW p \in Processes, Construct(p)
      PROVE  Inv' /\ lastId' >= lastId
  <2>1. CASE FindLastId(p)
    BY <1>0, <2>1, FindLastIdStep DEF FindLastId, counter
  <2>2. CASE CreateLastId(p)
    BY <1>0, <2>2, CreateLastIdStep DEF CreateLastId
  <2>3. CASE WriteFirstId(p)
    <3>1. Inv' /\ lastId' > lastId /\ lastId' = 1
      BY <2>3, WriteFirstIdStep DEF WriteFirstId, Write
    <3> QED
      BY <1>0, <3>1
  <2>4. CASE ReadForLog(p)
    BY <1>0, <2>4, ReadForLogStep DEF ReadForLog, counter
  <2> QED
    BY <1>6, <2>1, <2>2, <2>3, <2>4 DEF Construct
<1>7. ASSUME NEW p \in Processes, NEW r \in Rooms, NewId(p, r) \/ Take(p, r) \/ Save(p, r)
      PROVE  Inv' /\ (~ misread' => lastId' >= lastId)
  <2>1. CASE NewId(p, r)
    <3>1. lastId' = lastId
      BY <2>1 DEF NewId, counter
    <3> QED
      BY <1>0, <2>1, <3>1, NewIdStep
  <2>2. CASE LockMutex(p, r)
    <3>1. lastId' = lastId
      BY <2>2 DEF LockMutex, counter
    <3> QED
      BY <1>0, <2>2, <3>1, LockMutexStep
  <2>3. CASE LockFile(p, r)
    <3>1. lastId' = lastId
      BY <2>3 DEF LockFile, counter
    <3> QED
      BY <1>0, <2>3, <3>1, LockFileStep
  <2>4. CASE ReadId(p, r)
    <3>1. lastId' = lastId
      BY <2>4 DEF ReadId, counter
    <3> QED
      BY <1>0, <2>4, <3>1, ReadIdStep
  <2>5. CASE NoIdToRead(p, r)
    <3>1. lastId' = lastId
      BY <2>5 DEF NoIdToRead, NoId, counter
    <3> QED
      BY <1>0, <2>5, <3>1, NoIdToReadStep
  <2>6. CASE CannotOpen(p, r)
    <3>1. lastId' = lastId
      BY <2>6 DEF CannotOpen, NoId, counter
    <3> QED
      BY <1>0, <2>6, <3>1, CannotOpenStep
  <2>7. CASE TruncateLastId(p, r)
    <3>1. lastId' = lastId
      BY <2>7 DEF TruncateLastId
    <3> QED
      BY <1>0, <2>7, <3>1, TruncateLastIdStep
  <2>8. CASE WriteId(p, r)
    <3>1. Inv' /\ (~ misread' => lastId' = lastId + 1)
      BY <2>8, WriteIdStep
    <3> QED
      BY <1>0, <3>1
  <2>9. CASE Save(p, r)
    <3>1. lastId' = lastId
      BY <2>9 DEF Save, counter
    <3> QED
      BY <1>0, <2>9, <3>1, SaveStep
  <2> QED
    BY <1>7, <2>1, <2>2, <2>3, <2>4, <2>5, <2>6, <2>7, <2>8, <2>9 DEF Take
<1>8. CASE UNCHANGED vars
  <2>1. UNCHANGED <<supervisor, phase, counter, locks, numbers, replays, faults>>
    BY <1>8 DEF vars
  <2>2. /\ UNCHANGED <<multirole_pid, signaled, phase, file, lastId, holder, mLastId>>
        /\ UNCHANGED <<newId, id, saved, overwritten, torn, unopened, misread>>
    BY <2>1 DEF supervisor, counter, locks, numbers, replays, faults
  <2>3. TypeOK' /\ Supervised' /\ Locked'
    BY <2>2 DEF Inv, TypeOK, Supervised, Locked
  <2>4. ~ misread' => Given'
    BY <2>1, <2>2, GivenAndProcesses
  <2> QED
    BY <1>0, <2>2, <2>3, <2>4 DEF Inv
<1> QED
  <2>1. \A p \in Processes : Inv' /\ lastId' = lastId => Inv' /\ lastId' >= lastId
    BY <1>0
  <2> QED
    BY <1>0, <1>1, <1>2, <1>3, <1>4, <1>5, <1>6, <1>7, <1>8, <2>1 DEF Next, Supervise, Deploy

\* The invariant holds for any number of processes, rooms and duels.
THEOREM ReplayIdsInvariant == Spec => []Inv
<1>1. Init => Inv
  BY InvInit
<1>2. Inv /\ [Next]_vars => Inv'
  BY InvStep
<1> QED
  BY <1>1, <1>2, PTL DEF Spec

\* Every variable keeps its type.
THEOREM ReplayIdsTypes == Spec => []TypeOK
<1>1. Inv => TypeOK
  BY DEF Inv
<1> QED
  BY <1>1, ReplayIdsInvariant, PTL

\* NewId and Save of any number of overlapping processes never write a replay over
\* another one, but for those that are given 0: by a lastId that a process truncated
\* and did not write, because it died or the write failed, and from the second time on
\* that lastId cannot be opened.  It holds until a number cannot be read from lastId.
THEOREM NumbersAreKept == Spec => []ReplaysKept
<1>1. Inv => ReplaysKept
  BY DEF Inv, Given, ReplaysKept, Spoilt
<1> QED
  BY <1>1, ReplayIdsInvariant, PTL

\* Until a number cannot be read from it, the number in lastId never goes back, although
\* the constructor writes the first one without the file lock.
THEOREM NumbersGrow == Spec => IdsGrow
<1>1. Inv /\ [Next]_vars => [~ misread' => lastId' >= lastId]_vars
  BY InvStep
<1> QED
  BY <1>1, ReplayIdsInvariant, PTL DEF Spec, IdsGrow

=============================================================================
