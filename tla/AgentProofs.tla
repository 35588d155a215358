---------------------------- MODULE AgentProofs ----------------------------
(***************************************************************************)
(* Proofs about the desktop agent.  Module UdpSlots: for any number of     *)
(* requests and slots, a live session is never dropped from its slot or    *)
(* replaced there because of what happened to an earlier one.  Module      *)
(* DnsGuard: for any interfaces, processes, faults and crashes, the former *)
(* DNS settings are put back or on record.  And the proofs of TunUdpProofs *)
(* and TunHostProofs carry over to an agent that does not proxy UDP and to *)
(* one on macOS.                                                           *)
(***************************************************************************)
EXTENDS MCAgent, FiniteSetTheorems, FunctionTheorems, WellFoundedInduction, TLAPS

Places == {"idle", "lock", "connect", "open", "clear", "fall_back"}
RequestRecord == [pc : Places, slot : Slots \cup {NativeSlots!None}, attempt : {0, 1}, handle : NativeSlots!Ids \cup {NativeSlots!None}]
States == {"live", "timeout", "error", "timed_out"}

SlotsTyped ==
    /\ slot \in [Slots -> NativeSlots!Ids \cup {NativeSlots!None}] /\ holder \in [Slots -> Requests \cup {NativeSlots!None}]
    /\ fallback \in [Slots -> BOOLEAN] /\ session \in [NativeSlots!Ids -> States]
    /\ slots_req \in [Requests -> RequestRecord]

\* A slot stays locked exactly while its holder sets up a session.
HolderConnects == \A s \in Slots, r \in Requests :
                     holder[s] = r <=> slots_req[r].pc = "connect" /\ slots_req[r].slot = s

\* A request that is not over has a slot, and a handle while it opens a channel on it.
SlotChosen == \A r \in Requests : slots_req[r].pc # "idle" => slots_req[r].slot \in Slots
HandleInHand == \A r \in Requests : IF slots_req[r].pc \in {"open", "clear"} THEN slots_req[r].handle \in NativeSlots!Ids
                                    ELSE slots_req[r].handle = NativeSlots!None

\* Whoever sets up a session found the slot empty or its session dead, and it is dead
\* still; whoever clears a slot has the handle of a dead session.
Dead(i) == i = NativeSlots!None \/ session[i] # "live"
ConnectReplacesDead == \A r \in Requests : slots_req[r].pc = "connect" => Dead(slot[slots_req[r].slot])
ClearedIsDead == \A r \in Requests : slots_req[r].pc = "clear" => Dead(slots_req[r].handle)

\* The inductive invariant.
SlotsInv == /\ SlotsTyped /\ HolderConnects /\ SlotChosen /\ HandleInHand
            /\ ConnectReplacesDead /\ ClearedIsDead
-----------------------------------------------------------------------------
\* The slots count with the Cardinality of every module.
LEMMA SameSlotCount == \A S : NativeSlots!Cardinality(S) = Cardinality(S)
BY Zenon DEF Cardinality, NativeSlots!Cardinality

LEMMA SlotsAreFinite ==
    ASSUME NativeSlots!SlotsConstants PROVE IsFiniteSet(Requests) /\ IsFiniteSet(Slots)
BY Zenon DEF IsFiniteSet, NativeSlots!IsFiniteSet, NativeSlots!SlotsConstants

\* Ids suffice: while a request sets up a session, the slots and the handles of the
\* rest leave one.
LEMMA FreshIdIsFree ==
    ASSUME NativeSlots!SlotsConstants, SlotsInv, NEW r \in Requests, slots_req[r].pc = "connect"
    PROVE  NativeSlots!FreshId \in NativeSlots!FreeIds /\ NativeSlots!FreshId \in NativeSlots!Ids
<1> DEFINE rest == Requests \ {r}
           handles == {slots_req[o].handle : o \in rest}
           slotted == {slot[s] : s \in Slots}
<1>1. /\ IsFiniteSet(Requests) /\ IsFiniteSet(Slots) /\ Cardinality(Requests) \in Nat
      /\ Cardinality(Slots) \in Nat
  BY SlotsAreFinite, FS_CardinalityType
<1>2. /\ IsFiniteSet(rest) /\ Cardinality(rest) = Cardinality(Requests) - 1
      /\ Cardinality(rest) \in Nat
  <2>1. IsFiniteSet(rest) /\ Cardinality(rest) = Cardinality(Requests) - 1
    BY <1>1, FS_RemoveElement
  <2> QED
    BY <2>1, FS_CardinalityType
<1>3. /\ IsFiniteSet(handles) /\ Cardinality(handles) <= Cardinality(rest)
      /\ Cardinality(handles) \in Nat
  <2>1. [o \in rest |-> slots_req[o].handle] \in Surjection(rest, handles)
    BY DEF Surjection
  <2>2. IsFiniteSet(handles) /\ Cardinality(handles) <= Cardinality(rest)
    BY <1>2, <2>1, FS_Surjection
  <2> QED
    BY <2>2, FS_CardinalityType
<1>4. /\ IsFiniteSet(slotted) /\ Cardinality(slotted) <= Cardinality(Slots)
      /\ Cardinality(slotted) \in Nat
  <2>1. [s \in Slots |-> slot[s]] \in Surjection(Slots, slotted)
    BY DEF Surjection
  <2>2. IsFiniteSet(slotted) /\ Cardinality(slotted) <= Cardinality(Slots)
    BY <1>1, <2>1, FS_Surjection
  <2> QED
    BY <2>2, FS_CardinalityType
<1>5. /\ IsFiniteSet(slotted \cup handles) /\ Cardinality(slotted \cup handles) \in Nat
      /\ Cardinality(slotted \cup handles) <= Cardinality(slotted) + Cardinality(handles)
  <2> HIDE DEF handles, slotted
  <2>1. IsFiniteSet(slotted \cap handles) /\ Cardinality(slotted \cap handles) \in Nat
    BY <1>4, FS_Intersection, FS_CardinalityType
  <2>2. /\ IsFiniteSet(slotted \cup handles)
        /\ Cardinality(slotted \cup handles) =
             Cardinality(slotted) + Cardinality(handles) - Cardinality(slotted \cap handles)
    BY <1>3, <1>4, FS_Union
  <2>3. Cardinality(slotted \cup handles) \in Nat
    BY <2>2, FS_CardinalityType
  <2> QED
    BY <1>3, <1>4, <2>1, <2>2, <2>3
<1>6. IsFiniteSet(NativeSlots!Ids) /\ Cardinality(NativeSlots!Ids) = Cardinality(Slots) + Cardinality(Requests)
      /\ NativeSlots!Ids \subseteq Nat /\ NativeSlots!None \notin NativeSlots!Ids
  <2> DEFINE n == Cardinality(Slots) + Cardinality(Requests)
  <2>0. n \in Nat /\ NativeSlots!Ids = 1..n
    BY <1>1, SameSlotCount DEF NativeSlots!Ids
  <2> HIDE DEF n
  <2>3. IsFiniteSet(1..n) /\ Cardinality(1..n) = n
    BY <2>0, FS_Interval
  <2>1. IsFiniteSet(NativeSlots!Ids) /\ Cardinality(NativeSlots!Ids) = Cardinality(Slots) + Cardinality(Requests)
    BY <2>0, <2>3 DEF n
  <2>2. NativeSlots!Ids \subseteq Nat /\ NativeSlots!None \notin NativeSlots!Ids
    BY <1>1, SameSlotCount DEF NativeSlots!Ids, NativeSlots!None
  <2> QED
    BY <2>1, <2>2
<1>7. slots_req[r].handle = NativeSlots!None
  BY DEF SlotsInv, HandleInHand
<1>8. NativeSlots!FreeIds # {}
  <2> SUFFICES ASSUME NativeSlots!FreeIds = {} PROVE FALSE
    OBVIOUS
  <2>1. NativeSlots!Ids \subseteq slotted \cup handles
    BY <1>6, <1>7 DEF NativeSlots!FreeIds
  <2>2. Cardinality(NativeSlots!Ids) <= Cardinality(slotted \cup handles)
    BY <1>5, <2>1, FS_Subset
  <2> HIDE DEF handles, slotted, rest
  <2> QED
    BY <1>1, <1>2, <1>3, <1>4, <1>5, <1>6, <2>2
<1>9. NativeSlots!FreeIds \subseteq NativeSlots!Ids /\ NativeSlots!FreeIds \subseteq Nat
  BY <1>6 DEF NativeSlots!FreeIds
<1>10. \E i \in NativeSlots!FreeIds : \A j \in NativeSlots!FreeIds : i <= j
  <2>1. \E i \in NativeSlots!FreeIds : \A j \in NativeSlots!FreeIds : ~(<<j, i>> \in OpToRel(<, Nat))
    BY <1>8, <1>9, NatLessThanWellFounded, WFMin
  <2>2. PICK i \in NativeSlots!FreeIds : \A j \in NativeSlots!FreeIds : ~(<<j, i>> \in OpToRel(<, Nat))
    BY <2>1
  <2>3. \A j \in NativeSlots!FreeIds : ~(j < i)
    BY <1>9, <2>2 DEF OpToRel
  <2> QED
    BY <1>9, <2>3
<1> QED
  BY <1>9, <1>10 DEF NativeSlots!FreshId

\* A session that a slot or a request holds after the step keeps its state.
LEMMA HeldIsKept ==
    ASSUME SlotsInv, NativeSlots!DropUnheld
    PROVE  /\ session' \in [NativeSlots!Ids -> States]
           /\ \A s \in Slots : slot'[s] \in NativeSlots!Ids => session'[slot'[s]] = session[slot'[s]]
           /\ \A r \in Requests : slots_req'[r].handle \in NativeSlots!Ids =>
                                      session'[slots_req'[r].handle] = session[slots_req'[r].handle]
<1>1. session \in [NativeSlots!Ids -> States]
  BY DEF SlotsInv, SlotsTyped
<1>2. \A i \in NativeSlots!Ids : i \notin NativeSlots!FreeIds' => session'[i] = session[i]
  BY DEF NativeSlots!DropUnheld
<1>3. session' \in [NativeSlots!Ids -> States]
  BY <1>1 DEF NativeSlots!DropUnheld, States
<1> QED
  BY <1>2, <1>3 DEF NativeSlots!FreeIds

\* Updating two or three fields of one record is replacing the record.
LEMMA TwoFields ==
    ASSUME NEW S, NEW T, NEW f \in [S -> T], NEW r \in S, NEW a, NEW b
    PROVE  [f EXCEPT ![r].pc = a, ![r].handle = b] =
             [f EXCEPT ![r] = [f[r] EXCEPT !.pc = a, !.handle = b]]
OBVIOUS

LEMMA ThreeFields ==
    ASSUME NEW S, NEW T, NEW f \in [S -> T], NEW r \in S, NEW a, NEW b, NEW d
    PROVE  [f EXCEPT ![r].pc = a, ![r].attempt = d, ![r].handle = b] =
             [f EXCEPT ![r] = [f[r] EXCEPT !.pc = a, !.attempt = d, !.handle = b]]
OBVIOUS

\* One request moves, and with it the slot it works on.
LEMMA RequestMoves ==
    ASSUME SlotsInv, NEW r \in Requests, NEW q \in RequestRecord, slots_req' = [slots_req EXCEPT ![r] = q],
           q.pc # "idle" => q.slot \in Slots,
           IF q.pc \in {"open", "clear"} THEN q.handle \in NativeSlots!Ids ELSE q.handle = NativeSlots!None,
           slot' \in [Slots -> NativeSlots!Ids \cup {NativeSlots!None}], holder' \in [Slots -> Requests \cup {NativeSlots!None}],
           fallback' \in [Slots -> BOOLEAN], session' \in [NativeSlots!Ids -> States],
           \A s \in Slots : holder'[s] = r <=> q.pc = "connect" /\ q.slot = s,
           \A s \in Slots : \A o \in Requests \ {r} : holder'[s] = o <=> holder[s] = o,
           \A s \in Slots : slot'[s] = slot[s] \/ holder[s] \notin Requests \ {r},
           \A s \in Slots : slot'[s] \in NativeSlots!Ids => session'[slot'[s]] = session[slot'[s]],
           \A o \in Requests : slots_req'[o].handle \in NativeSlots!Ids =>
                                  session'[slots_req'[o].handle] = session[slots_req'[o].handle],
           q.pc = "connect" => Dead(slot'[q.slot]),
           q.pc = "clear" => Dead(q.handle)
    PROVE  SlotsInv'
<1>0. /\ SlotsTyped /\ HolderConnects /\ SlotChosen /\ HandleInHand
      /\ ConnectReplacesDead /\ ClearedIsDead
  BY DEF SlotsInv
<1>1. \A o \in Requests : slots_req'[o] = IF o = r THEN q ELSE slots_req[o]
  BY <1>0 DEF SlotsTyped
<1>2. SlotsTyped'
  BY <1>0 DEF SlotsTyped
<1>3. HolderConnects'
  BY <1>0, <1>1 DEF HolderConnects
<1>4. SlotChosen' /\ HandleInHand'
  BY <1>0, <1>1 DEF SlotChosen, HandleInHand
<1>5. ConnectReplacesDead'
  <2> SUFFICES ASSUME NEW o \in Requests, slots_req'[o].pc = "connect"
               PROVE  Dead(slot[slots_req[o].slot])'
    BY DEF ConnectReplacesDead
  <2> DEFINE s == slots_req'[o].slot
  <2>1. s \in Slots /\ slot'[s] \in NativeSlots!Ids \cup {NativeSlots!None}
    BY <1>4 DEF SlotChosen
  <2>2. Dead(slot'[s])
    <3>1. CASE o = r
      BY <1>1, <3>1
    <3>2. CASE o # r
      <4>1. slots_req'[o] = slots_req[o] /\ holder[s] = o
        BY <1>0, <1>1, <2>1, <3>2 DEF HolderConnects
      <4>2. slot'[s] = slot[s] /\ Dead(slot[s])
        BY <1>0, <2>1, <3>2, <4>1 DEF ConnectReplacesDead
      <4> QED
        BY <4>2
    <3> QED
      BY <3>1, <3>2
  <2> QED
    BY <2>1, <2>2 DEF Dead
<1>6. ClearedIsDead'
  <2> SUFFICES ASSUME NEW o \in Requests, slots_req'[o].pc = "clear"
               PROVE  Dead(slots_req[o].handle)'
    BY DEF ClearedIsDead
  <2>1. slots_req'[o].handle \in NativeSlots!Ids
    BY <1>4 DEF HandleInHand
  <2>2. Dead(slots_req'[o].handle)
    BY <1>0, <1>1 DEF ClearedIsDead
  <2>3. session'[slots_req'[o].handle] = session[slots_req'[o].handle]
    BY <2>1
  <2> QED
    BY <2>2, <2>3 DEF Dead
<1> QED
  BY <1>2, <1>3, <1>4, <1>5, <1>6 DEF SlotsInv
-----------------------------------------------------------------------------
(* Every step preserves the inductive invariant. *)

LEMMA NoneIsNoId == ASSUME NativeSlots!SlotsConstants PROVE NativeSlots!None \notin NativeSlots!Ids
<1>1. Cardinality(Requests) \in Nat /\ Cardinality(Slots) \in Nat
  BY SlotsAreFinite, FS_CardinalityType
<1> QED
  BY <1>1, SameSlotCount DEF NativeSlots!Ids, NativeSlots!None

LEMMA NewTyped == NativeSlots!NewRequest \in RequestRecord /\ NativeSlots!NewRequest.pc = "idle" /\ NativeSlots!NewRequest.handle = NativeSlots!None
BY DEF NativeSlots!NewRequest, RequestRecord, Places

LEMMA SlotsInit == ASSUME NativeSlots!SlotsConstants, NativeSlots!Init PROVE SlotsInv
<1>1. SlotsTyped
  BY NewTyped DEF NativeSlots!Init, SlotsTyped, States
<1>2. HolderConnects
  BY NewTyped DEF NativeSlots!Init, HolderConnects, NativeSlots!SlotsConstants
<1>3. SlotChosen /\ HandleInHand /\ ConnectReplacesDead /\ ClearedIsDead
  BY NewTyped DEF NativeSlots!Init, SlotChosen, HandleInHand, ConnectReplacesDead, ClearedIsDead
<1> QED
  BY <1>1, <1>2, <1>3 DEF SlotsInv

\* What a request's step starts from.
LEMMA RequestFacts ==
    ASSUME NativeSlots!SlotsConstants, SlotsInv, NEW r \in Requests
    PROVE  /\ slot \in [Slots -> NativeSlots!Ids \cup {NativeSlots!None}] /\ holder \in [Slots -> Requests \cup {NativeSlots!None}]
           /\ fallback \in [Slots -> BOOLEAN] /\ session \in [NativeSlots!Ids -> States]
           /\ slots_req \in [Requests -> RequestRecord] /\ slots_req[r] \in RequestRecord
           /\ slots_req[r].pc # "idle" => slots_req[r].slot \in Slots
           /\ IF slots_req[r].pc \in {"open", "clear"} THEN slots_req[r].handle \in NativeSlots!Ids ELSE slots_req[r].handle = NativeSlots!None
           /\ \A s \in Slots, o \in Requests : holder[s] = o <=> slots_req[o].pc = "connect" /\ slots_req[o].slot = s
           /\ slots_req[r].pc = "connect" => Dead(slot[slots_req[r].slot])
           /\ slots_req[r].pc = "clear" => Dead(slots_req[r].handle)
           /\ NativeSlots!None \notin NativeSlots!Ids /\ NativeSlots!None \notin Requests
BY NoneIsNoId DEF SlotsInv, SlotsTyped, HolderConnects, SlotChosen, HandleInHand,
                  ConnectReplacesDead, ClearedIsDead, NativeSlots!SlotsConstants

\* A request that holds no lock moves; the slots stay.
LEMMA OwnMove ==
    ASSUME NativeSlots!SlotsConstants, SlotsInv, NEW r \in Requests, NEW q \in RequestRecord,
           slots_req' = [slots_req EXCEPT ![r] = q], slots_req[r].pc # "connect", q.pc # "connect",
           q.pc # "idle" => q.slot \in Slots,
           IF q.pc \in {"open", "clear"} THEN q.handle \in NativeSlots!Ids ELSE q.handle = NativeSlots!None,
           UNCHANGED <<slot, holder>>, fallback' \in [Slots -> BOOLEAN],
           UNCHANGED session \/ NativeSlots!DropUnheld,
           q.pc = "clear" => Dead(q.handle)
    PROVE  SlotsInv'
<1>1. /\ slot \in [Slots -> NativeSlots!Ids \cup {NativeSlots!None}] /\ holder \in [Slots -> Requests \cup {NativeSlots!None}]
      /\ session \in [NativeSlots!Ids -> States]
      /\ \A s \in Slots, o \in Requests : holder[s] = o <=> slots_req[o].pc = "connect" /\ slots_req[o].slot = s
  BY RequestFacts
<1>2. /\ session' \in [NativeSlots!Ids -> States]
      /\ \A s \in Slots : slot'[s] \in NativeSlots!Ids => session'[slot'[s]] = session[slot'[s]]
      /\ \A o \in Requests : slots_req'[o].handle \in NativeSlots!Ids =>
                                session'[slots_req'[o].handle] = session[slots_req'[o].handle]
  BY <1>1, HeldIsKept
<1>3. /\ \A s \in Slots : holder'[s] = r <=> q.pc = "connect" /\ q.slot = s
      /\ \A s \in Slots : \A o \in Requests \ {r} : holder'[s] = o <=> holder[s] = o
      /\ \A s \in Slots : slot'[s] = slot[s] \/ holder[s] \notin Requests \ {r}
  BY <1>1
<1>4. slot' \in [Slots -> NativeSlots!Ids \cup {NativeSlots!None}] /\ holder' \in [Slots -> Requests \cup {NativeSlots!None}]
  BY <1>1
<1> QED
  BY <1>2, <1>3, <1>4, RequestMoves

LEMMA StartStep ==
    ASSUME NativeSlots!SlotsConstants, SlotsInv, NEW r \in Requests, NativeSlots!connect_to_target(r) \/ NativeSlots!FallBack(r)
    PROVE  SlotsInv'
<1>1. slots_req[r].pc \in {"idle", "fall_back"} /\ UNCHANGED <<slot, holder, session>>
  BY DEF NativeSlots!connect_to_target, NativeSlots!FallBack
<1>2. fallback' \in [Slots -> BOOLEAN]
  <2>1. fallback \in [Slots -> BOOLEAN]
    BY RequestFacts
  <2>2. UNCHANGED fallback \/ fallback' = [fallback EXCEPT ![slots_req[r].slot] = TRUE]
    BY DEF NativeSlots!connect_to_target, NativeSlots!FallBack
  <2> QED
    BY <2>1, <2>2
<1>3. CASE NativeSlots!connect_to_target(r)
  <2>1. PICK s \in Slots : slots_req' = [slots_req EXCEPT ![r] = [NativeSlots!NewRequest EXCEPT !.pc = "lock", !.slot = s]]
    BY <1>3 DEF NativeSlots!connect_to_target
  <2> DEFINE q == [NativeSlots!NewRequest EXCEPT !.pc = "lock", !.slot = s]
  <2>2. q \in RequestRecord /\ q.pc = "lock" /\ q.slot = s /\ q.handle = NativeSlots!None
    BY NewTyped DEF RequestRecord, Places
  <2>3. slots_req' = [slots_req EXCEPT ![r] = q]
    BY <2>1
  <2> HIDE DEF q
  <2> QED
    BY <1>1, <1>2, <2>2, <2>3, OwnMove
<1>4. CASE NativeSlots!FallBack(r)
  <2>1. slots_req' = [slots_req EXCEPT ![r] = NativeSlots!NewRequest]
    BY <1>4 DEF NativeSlots!FallBack
  <2> QED
    BY <1>1, <1>2, <2>1, NewTyped, OwnMove
<1> QED
  BY <1>3, <1>4

LEMMA LockStep ==
    ASSUME NativeSlots!SlotsConstants, SlotsInv, NEW r \in Requests, NativeSlots!LockSlot(r)
    PROVE  SlotsInv'
<1> DEFINE s == slots_req[r].slot
           i == slot[s]
<1>1. slots_req[r].pc = "lock" /\ holder[s] = NativeSlots!None /\ UNCHANGED <<slot, fallback, session>>
  BY DEF NativeSlots!LockSlot
<1>2. /\ slot \in [Slots -> NativeSlots!Ids \cup {NativeSlots!None}] /\ holder \in [Slots -> Requests \cup {NativeSlots!None}]
      /\ fallback \in [Slots -> BOOLEAN] /\ session \in [NativeSlots!Ids -> States]
      /\ slots_req \in [Requests -> RequestRecord] /\ slots_req[r] \in RequestRecord
      /\ s \in Slots /\ slots_req[r].handle = NativeSlots!None
      /\ \A t \in Slots, o \in Requests : holder[t] = o <=> slots_req[o].pc = "connect" /\ slots_req[o].slot = t
      /\ NativeSlots!None \notin NativeSlots!Ids /\ NativeSlots!None \notin Requests
  BY <1>1, RequestFacts
<1>3. CASE Mode = "auto" /\ i # NativeSlots!None /\ NativeSlots!timed_out(i)
  <2> DEFINE q == [slots_req[r] EXCEPT !.pc = "fall_back"]
  <2>1. q \in RequestRecord /\ q.pc = "fall_back" /\ q.slot = s /\ q.handle = NativeSlots!None
    BY <1>2 DEF RequestRecord, Places
  <2>2. slots_req' = [slots_req EXCEPT ![r] = q] /\ UNCHANGED holder
    BY <1>2, <1>3 DEF NativeSlots!LockSlot
  <2> HIDE DEF q
  <2> QED
    BY <1>1, <1>2, <2>1, <2>2, OwnMove
<1>4. CASE ~(Mode = "auto" /\ i # NativeSlots!None /\ NativeSlots!timed_out(i)) /\ (i = NativeSlots!None \/ NativeSlots!is_closed(i))
  <2> DEFINE q == [slots_req[r] EXCEPT !.pc = "connect"]
  <2>1. q \in RequestRecord /\ q.pc = "connect" /\ q.slot = s /\ q.handle = NativeSlots!None
    BY <1>2 DEF RequestRecord, Places
  <2>2. slots_req' = [slots_req EXCEPT ![r] = q] /\ holder' = [holder EXCEPT ![s] = r]
    BY <1>2, <1>4 DEF NativeSlots!LockSlot
  <2>3. Dead(slot'[s])
    BY <1>1, <1>4 DEF Dead, NativeSlots!is_closed
  <2>4. \A t \in Slots : holder'[t] = IF t = s THEN r ELSE holder[t]
    BY <1>2, <2>2
  <2> HIDE DEF q
  <2>5. /\ \A t \in Slots : holder'[t] = r <=> q.pc = "connect" /\ q.slot = t
        /\ \A t \in Slots : \A o \in Requests \ {r} : holder'[t] = o <=> holder[t] = o
    BY <1>1, <1>2, <2>1, <2>4
  <2>6. holder' \in [Slots -> Requests \cup {NativeSlots!None}]
    BY <1>2, <2>2
  <2>7. /\ slot' \in [Slots -> NativeSlots!Ids \cup {NativeSlots!None}] /\ session' \in [NativeSlots!Ids -> States]
        /\ fallback' \in [Slots -> BOOLEAN]
        /\ \A t \in Slots : slot'[t] = slot[t] \/ holder[t] \notin Requests \ {r}
        /\ \A t \in Slots : slot'[t] \in NativeSlots!Ids => session'[slot'[t]] = session[slot'[t]]
        /\ \A o \in Requests : slots_req'[o].handle \in NativeSlots!Ids =>
                                  session'[slots_req'[o].handle] = session[slots_req'[o].handle]
    BY <1>1, <1>2
  <2>8. /\ q.pc # "idle" => q.slot \in Slots
        /\ IF q.pc \in {"open", "clear"} THEN q.handle \in NativeSlots!Ids ELSE q.handle = NativeSlots!None
        /\ q.pc = "connect" => Dead(slot'[q.slot])
        /\ q.pc = "clear" => Dead(q.handle)
    BY <1>2, <2>1, <2>3
  <2> QED
    BY <2>1, <2>2, <2>5, <2>6, <2>7, <2>8, RequestMoves
<1>5. CASE i # NativeSlots!None /\ ~(Mode = "auto" /\ NativeSlots!timed_out(i)) /\ ~NativeSlots!is_closed(i)
  <2> DEFINE q == [slots_req[r] EXCEPT !.pc = "open", !.handle = i]
  <2>1. q \in RequestRecord /\ q.pc = "open" /\ q.slot = s /\ q.handle \in NativeSlots!Ids
    <3>1. i \in NativeSlots!Ids
      BY <1>2, <1>5
    <3> HIDE DEF i
    <3> QED
      BY <1>2, <3>1 DEF RequestRecord, Places
  <2>2. slots_req' = [slots_req EXCEPT ![r] = q] /\ UNCHANGED holder
    <3>1. slots_req' = [slots_req EXCEPT ![r].pc = "open", ![r].handle = i] /\ UNCHANGED holder
      BY <1>5 DEF NativeSlots!LockSlot
    <3> HIDE DEF i
    <3>2. slots_req \in [Requests -> RequestRecord]
      BY <1>2
    <3>3. [slots_req EXCEPT ![r].pc = "open", ![r].handle = i] = [slots_req EXCEPT ![r] = q]
      BY ONLY <3>2, r \in Requests, TwoFields, Zenon
    <3> QED
      BY <3>1, <3>3
  <2> HIDE DEF q
  <2> QED
    BY <1>1, <1>2, <2>1, <2>2, OwnMove
<1> QED
  BY <1>3, <1>4, <1>5

LEMMA ConnectedStep ==
    ASSUME NativeSlots!SlotsConstants, SlotsInv, NEW r \in Requests, NativeSlots!Connected(r)
    PROVE  SlotsInv'
<1> DEFINE s == slots_req[r].slot
           i == NativeSlots!FreshId
           q == [slots_req[r] EXCEPT !.pc = "open", !.handle = i]
<1>1. slots_req[r].pc = "connect" /\ NativeSlots!DropUnheld /\ UNCHANGED fallback
  BY DEF NativeSlots!Connected
<1>2. /\ slot \in [Slots -> NativeSlots!Ids \cup {NativeSlots!None}] /\ holder \in [Slots -> Requests \cup {NativeSlots!None}]
      /\ fallback \in [Slots -> BOOLEAN]
      /\ slots_req \in [Requests -> RequestRecord] /\ slots_req[r] \in RequestRecord /\ s \in Slots
      /\ \A t \in Slots, o \in Requests : holder[t] = o <=> slots_req[o].pc = "connect" /\ slots_req[o].slot = t
      /\ NativeSlots!None \notin NativeSlots!Ids /\ NativeSlots!None \notin Requests
  BY <1>1, RequestFacts
<1>3. i \in NativeSlots!Ids
  BY <1>1, FreshIdIsFree
<1>4. /\ slot' = [slot EXCEPT ![s] = i] /\ holder' = [holder EXCEPT ![s] = NativeSlots!None]
      /\ slots_req' = [slots_req EXCEPT ![r] = q]
  <2>1. /\ slot' = [slot EXCEPT ![s] = i] /\ holder' = [holder EXCEPT ![s] = NativeSlots!None]
        /\ slots_req' = [slots_req EXCEPT ![r].pc = "open", ![r].handle = i]
    BY DEF NativeSlots!Connected
  <2> HIDE DEF i
  <2>2. slots_req \in [Requests -> RequestRecord]
    BY <1>2
  <2>3. [slots_req EXCEPT ![r].pc = "open", ![r].handle = i] = [slots_req EXCEPT ![r] = q]
    BY ONLY <2>2, r \in Requests, TwoFields, Zenon
  <2> QED
    BY <2>1, <2>3
<1> HIDE DEF i
<1>5. q \in RequestRecord /\ q.pc = "open" /\ q.slot = s /\ q.handle \in NativeSlots!Ids
  BY <1>2, <1>3 DEF RequestRecord, Places
<1> HIDE DEF q
<1>6. /\ session' \in [NativeSlots!Ids -> States]
      /\ \A t \in Slots : slot'[t] \in NativeSlots!Ids => session'[slot'[t]] = session[slot'[t]]
      /\ \A o \in Requests : slots_req'[o].handle \in NativeSlots!Ids =>
                                session'[slots_req'[o].handle] = session[slots_req'[o].handle]
  BY <1>1, HeldIsKept
<1>7. /\ slot' \in [Slots -> NativeSlots!Ids \cup {NativeSlots!None}] /\ holder' \in [Slots -> Requests \cup {NativeSlots!None}]
      /\ holder[s] = r
      /\ \A t \in Slots : holder'[t] = IF t = s THEN NativeSlots!None ELSE holder[t]
      /\ \A t \in Slots : slot'[t] = IF t = s THEN i ELSE slot[t]
  BY <1>1, <1>2, <1>3, <1>4
<1>8. /\ \A t \in Slots : holder'[t] = r <=> q.pc = "connect" /\ q.slot = t
      /\ \A t \in Slots : \A o \in Requests \ {r} : holder'[t] = o <=> holder[t] = o
      /\ \A t \in Slots : slot'[t] = slot[t] \/ holder[t] \notin Requests \ {r}
  BY <1>1, <1>2, <1>5, <1>7
<1> QED
  BY <1>1, <1>2, <1>4, <1>5, <1>6, <1>7, <1>8, RequestMoves

LEMMA FailsStep ==
    ASSUME NativeSlots!SlotsConstants, SlotsInv, NEW r \in Requests, NativeSlots!ConnectFails(r)
    PROVE  SlotsInv'
<1> DEFINE s == slots_req[r].slot
<1>1. /\ slots_req[r].pc = "connect" /\ holder' = [holder EXCEPT ![s] = NativeSlots!None]
      /\ UNCHANGED <<slot, fallback, session>>
  BY DEF NativeSlots!ConnectFails
<1>2. /\ slot \in [Slots -> NativeSlots!Ids \cup {NativeSlots!None}] /\ holder \in [Slots -> Requests \cup {NativeSlots!None}]
      /\ fallback \in [Slots -> BOOLEAN] /\ session \in [NativeSlots!Ids -> States]
      /\ slots_req \in [Requests -> RequestRecord] /\ slots_req[r] \in RequestRecord /\ s \in Slots
      /\ \A t \in Slots, o \in Requests : holder[t] = o <=> slots_req[o].pc = "connect" /\ slots_req[o].slot = t
      /\ slots_req[r].handle = NativeSlots!None /\ NativeSlots!None \notin Requests
  BY <1>1, RequestFacts
<1>3. \E q \in RequestRecord : /\ slots_req' = [slots_req EXCEPT ![r] = q] /\ q.handle = NativeSlots!None
                               /\ q.pc \in {"idle", "fall_back"} /\ (q.pc = "fall_back" => q.slot = s)
  <2>1. CASE slots_req' = [slots_req EXCEPT ![r] = NativeSlots!NewRequest]
    BY <2>1, NewTyped
  <2>2. CASE slots_req' = [slots_req EXCEPT ![r].pc = "fall_back"]
    <3> DEFINE q == [slots_req[r] EXCEPT !.pc = "fall_back"]
    <3>1. q \in RequestRecord /\ q.pc = "fall_back" /\ q.slot = s /\ q.handle = NativeSlots!None
      BY <1>2 DEF RequestRecord, Places
    <3>2. slots_req' = [slots_req EXCEPT ![r] = q]
      BY <1>2, <2>2
    <3> HIDE DEF q
    <3> QED
      BY <3>1, <3>2
  <2> QED
    BY <2>1, <2>2 DEF NativeSlots!ConnectFails
<1>4. PICK q \in RequestRecord : /\ slots_req' = [slots_req EXCEPT ![r] = q] /\ q.handle = NativeSlots!None
                                 /\ q.pc \in {"idle", "fall_back"} /\ (q.pc = "fall_back" => q.slot = s)
  BY <1>3
<1>5. /\ holder' \in [Slots -> Requests \cup {NativeSlots!None}] /\ holder[s] = r
      /\ \A t \in Slots : holder'[t] = IF t = s THEN NativeSlots!None ELSE holder[t]
  BY <1>1, <1>2
<1>6. /\ \A t \in Slots : holder'[t] = r <=> q.pc = "connect" /\ q.slot = t
      /\ \A t \in Slots : \A o \in Requests \ {r} : holder'[t] = o <=> holder[t] = o
  BY <1>1, <1>2, <1>4, <1>5
<1> QED
  BY <1>1, <1>2, <1>4, <1>5, <1>6, RequestMoves, ZenonT(60)

LEMMA OpenStep ==
    ASSUME NativeSlots!SlotsConstants, SlotsInv, NEW r \in Requests, NativeSlots!OpenChannel(r)
    PROVE  SlotsInv'
<1>1. slots_req[r].pc = "open" /\ UNCHANGED <<slot, holder, fallback>> /\ NativeSlots!DropUnheld
  BY DEF NativeSlots!OpenChannel
<1>2. /\ fallback' \in [Slots -> BOOLEAN] /\ slots_req \in [Requests -> RequestRecord]
      /\ slots_req[r] \in RequestRecord /\ slots_req[r].slot \in Slots /\ slots_req[r].handle \in NativeSlots!Ids
  BY <1>1, RequestFacts
<1>3. CASE NativeSlots!is_closed(slots_req[r].handle) /\ slots_req[r].attempt = 0
  <2> DEFINE q == [slots_req[r] EXCEPT !.pc = "clear"]
  <2>1. q \in RequestRecord /\ q.pc = "clear" /\ q.slot \in Slots /\ q.handle = slots_req[r].handle
    BY <1>2 DEF RequestRecord, Places
  <2>2. slots_req' = [slots_req EXCEPT ![r] = q]
    BY <1>2, <1>3 DEF NativeSlots!OpenChannel
  <2> HIDE DEF q
  <2>3. Dead(q.handle)
    BY <1>3, <2>1 DEF Dead, NativeSlots!is_closed
  <2> QED
    BY <1>1, <1>2, <2>1, <2>2, <2>3, OwnMove
<1>4. CASE ~(NativeSlots!is_closed(slots_req[r].handle) /\ slots_req[r].attempt = 0)
  <2>1. slots_req' = [slots_req EXCEPT ![r] = NativeSlots!NewRequest]
    BY <1>2, <1>4 DEF NativeSlots!OpenChannel
  <2> QED
    BY <1>1, <1>2, <2>1, NewTyped, OwnMove
<1> QED
  BY <1>3, <1>4

LEMMA ClearStep ==
    ASSUME NativeSlots!SlotsConstants, SlotsInv, NEW r \in Requests, NativeSlots!ClearSlot(r)
    PROVE  SlotsInv'
<1> DEFINE s == slots_req[r].slot
           q == [slots_req[r] EXCEPT !.pc = "lock", !.attempt = 1, !.handle = NativeSlots!None]
<1>1. /\ slots_req[r].pc = "clear" /\ holder[s] = NativeSlots!None /\ UNCHANGED <<holder, fallback>> /\ NativeSlots!DropUnheld
      /\ slot' = [slot EXCEPT ![s] = IF @ = slots_req[r].handle THEN NativeSlots!None ELSE @]
  BY DEF NativeSlots!ClearSlot
<1>2. /\ slot \in [Slots -> NativeSlots!Ids \cup {NativeSlots!None}] /\ holder \in [Slots -> Requests \cup {NativeSlots!None}]
      /\ fallback \in [Slots -> BOOLEAN]
      /\ slots_req \in [Requests -> RequestRecord] /\ slots_req[r] \in RequestRecord /\ s \in Slots
      /\ \A t \in Slots, o \in Requests : holder[t] = o <=> slots_req[o].pc = "connect" /\ slots_req[o].slot = t
      /\ NativeSlots!None \notin Requests
  BY <1>1, RequestFacts
<1>3. slots_req' = [slots_req EXCEPT ![r] = q]
  <2>1. slots_req' = [slots_req EXCEPT ![r].pc = "lock", ![r].attempt = 1, ![r].handle = NativeSlots!None]
    BY DEF NativeSlots!ClearSlot
  <2>2. slots_req \in [Requests -> RequestRecord]
    BY <1>2
  <2> QED
    BY ONLY <2>1, <2>2, r \in Requests, ThreeFields, Zenon
<1>4. q \in RequestRecord /\ q.pc = "lock" /\ q.slot = s /\ q.handle = NativeSlots!None
  BY <1>2 DEF RequestRecord, Places
<1> HIDE DEF q
<1>5. /\ session' \in [NativeSlots!Ids -> States]
      /\ \A t \in Slots : slot'[t] \in NativeSlots!Ids => session'[slot'[t]] = session[slot'[t]]
      /\ \A o \in Requests : slots_req'[o].handle \in NativeSlots!Ids =>
                                session'[slots_req'[o].handle] = session[slots_req'[o].handle]
  BY <1>1, HeldIsKept
<1>6. /\ slot' \in [Slots -> NativeSlots!Ids \cup {NativeSlots!None}]
      /\ \A t \in Slots : t # s => slot'[t] = slot[t]
  BY <1>1, <1>2
<1>7. /\ \A t \in Slots : holder'[t] = r <=> q.pc = "connect" /\ q.slot = t
      /\ \A t \in Slots : \A o \in Requests \ {r} : holder'[t] = o <=> holder[t] = o
      /\ \A t \in Slots : slot'[t] = slot[t] \/ holder[t] \notin Requests \ {r}
  BY <1>1, <1>2, <1>4, <1>6
<1> QED
  BY <1>1, <1>2, <1>3, <1>4, <1>5, <1>6, <1>7, RequestMoves, ZenonT(60)

\* A driver's steps only take sessions away from "live".
LEMMA DriverStep ==
    ASSUME NativeSlots!SlotsConstants, SlotsInv, NEW i \in NativeSlots!Ids, NativeSlots!DriverReturns(i) \/ NativeSlots!StoreTimedOut(i)
    PROVE  SlotsInv'
<1>0. /\ SlotsTyped /\ HolderConnects /\ SlotChosen /\ HandleInHand
      /\ ConnectReplacesDead /\ ClearedIsDead
  BY DEF SlotsInv
<1>1. UNCHANGED <<slot, holder, fallback, slots_req>>
  BY DEF NativeSlots!DriverReturns, NativeSlots!StoreTimedOut
<1>2. /\ session' \in [NativeSlots!Ids -> States]
      /\ \A j \in NativeSlots!Ids : session[j] # "live" => session'[j] # "live"
  BY <1>0 DEF NativeSlots!DriverReturns, NativeSlots!StoreTimedOut, SlotsTyped, States
<1>3. \A j \in NativeSlots!Ids \cup {NativeSlots!None} : Dead(j) => (j = NativeSlots!None \/ session'[j] # "live")
  BY <1>2 DEF Dead
<1>4. SlotsTyped' /\ HolderConnects' /\ SlotChosen' /\ HandleInHand'
  BY <1>0, <1>1, <1>2 DEF SlotsTyped, HolderConnects, SlotChosen, HandleInHand
<1>5. ConnectReplacesDead'
  <2> SUFFICES ASSUME NEW r \in Requests, slots_req[r].pc = "connect"
               PROVE  slot[slots_req[r].slot] = NativeSlots!None \/ session'[slot[slots_req[r].slot]] # "live"
    BY <1>1 DEF ConnectReplacesDead, Dead
  <2>1. slots_req[r].slot \in Slots /\ slot[slots_req[r].slot] \in NativeSlots!Ids \cup {NativeSlots!None}
    BY <1>0 DEF SlotChosen, SlotsTyped
  <2> QED
    BY <1>0, <1>3, <2>1 DEF ConnectReplacesDead
<1>6. ClearedIsDead'
  <2> SUFFICES ASSUME NEW r \in Requests, slots_req[r].pc = "clear"
               PROVE  slots_req[r].handle = NativeSlots!None \/ session'[slots_req[r].handle] # "live"
    BY <1>1 DEF ClearedIsDead, Dead
  <2>1. slots_req[r].handle \in NativeSlots!Ids
    BY <1>0 DEF HandleInHand
  <2> QED
    BY <1>0, <1>3, <2>1 DEF ClearedIsDead
<1> QED
  BY <1>4, <1>5, <1>6 DEF SlotsInv
-----------------------------------------------------------------------------
LEMMA SlotsStep == ASSUME NativeSlots!SlotsConstants, SlotsInv, [NativeSlots!Next]_(NativeSlots!vars) PROVE SlotsInv'
<1>1. CASE UNCHANGED NativeSlots!vars
  BY <1>1 DEF NativeSlots!vars, SlotsInv, SlotsTyped, HolderConnects, SlotChosen, HandleInHand,
              ConnectReplacesDead, ClearedIsDead, Dead
<1>2. CASE \E i \in NativeSlots!Ids : NativeSlots!DriverReturns(i) \/ NativeSlots!StoreTimedOut(i)
  BY <1>2, DriverStep
<1>3. ASSUME NEW r \in Requests,
             NativeSlots!connect_to_target(r) \/ NativeSlots!ElsewhereRoute(r) \/ NativeSlots!Step(r) \/ NativeSlots!Locking(r)
      PROVE  SlotsInv'
  <2>1. CASE NativeSlots!ElsewhereRoute(r)
    BY <1>1, <2>1 DEF NativeSlots!ElsewhereRoute
  <2> QED
    BY <1>3, <2>1, StartStep, ConnectedStep, FailsStep, OpenStep, LockStep, ClearStep
       DEF NativeSlots!Step, NativeSlots!Locking
<1> QED
  BY <1>1, <1>2, <1>3 DEF NativeSlots!Next

\* In a behaviour of the suite the slots do what their own specification allows: the
\* other parts leave them alone.
LEMMA SlotsPart == SuiteSpec => NativeSlots!Spec
<1>1. SuiteInit => NativeSlots!Init
  BY DEF SuiteInit
<1>2. [SuiteNext]_suite_vars => [NativeSlots!Next]_(NativeSlots!vars)
  BY DEF SuiteNext, OnlyPool, OnlyNativeSlots, OnlyShard, OnlySessions, OnlyDirectSessions,
         OnlyDns, OnlyAndroidDns, OnlyRoutes, OnlyMacos, OnlyGuard, OnlyHelper, suite_vars, slots_vars,
         NativeSlots!vars
<1> QED
  BY <1>1, <1>2, PTL DEF SuiteSpec, NativeSlots!Spec

\* A slot stays locked exactly while its holder sets up a session there.
THEOREM SlotsTypes == ASSUME NativeSlots!SlotsConstants PROVE SuiteSpec => []NativeSlots!TypeOK
<1>1. NativeSlots!Init => SlotsInv
  BY SlotsInit
<1>2. SlotsInv /\ [NativeSlots!Next]_(NativeSlots!vars) => SlotsInv'
  BY SlotsStep
<1>3. SlotsInv => NativeSlots!TypeOK
  BY DEF SlotsInv, SlotsTyped, HolderConnects, NativeSlots!TypeOK, States
<1> QED
  BY SlotsPart, <1>1, <1>2, <1>3, PTL DEF NativeSlots!Spec

\* A live session leaves its slot in no step, whatever the requests that use an earlier
\* session of the slot see, retry and clear (connect.rs:157-164).
THEOREM SlotKeepsLiveSession ==
    ASSUME NativeSlots!SlotsConstants PROVE SuiteSpec => LiveSessionIsKept
<1> DEFINE Kept == \A s \in Slots : slot[s] # NativeSlots!None /\ slot'[s] # slot[s] => session[slot[s]] # "live"
<1>1. NativeSlots!Init => SlotsInv
  BY SlotsInit
<1>2. SlotsInv /\ [NativeSlots!Next]_(NativeSlots!vars) => SlotsInv'
  BY SlotsStep
<1>3. SlotsInv /\ [NativeSlots!Next]_(NativeSlots!vars) => [Kept]_(NativeSlots!vars)
  <2> SUFFICES ASSUME SlotsInv, [NativeSlots!Next]_(NativeSlots!vars), NEW s \in Slots, slot[s] # NativeSlots!None, slot'[s] # slot[s]
               PROVE  Dead(slot[s])
    BY DEF Dead
  <2>1. \E r \in Requests : NativeSlots!Connected(r) \/ NativeSlots!ClearSlot(r)
    BY DEF NativeSlots!Next, NativeSlots!vars, NativeSlots!connect_to_target, NativeSlots!ElsewhereRoute, NativeSlots!Step, NativeSlots!Locking, NativeSlots!LockSlot, NativeSlots!ConnectFails,
           NativeSlots!OpenChannel, NativeSlots!FallBack, NativeSlots!DriverReturns, NativeSlots!StoreTimedOut
  <2>2. PICK r \in Requests : NativeSlots!Connected(r) \/ NativeSlots!ClearSlot(r)
    BY <2>1
  <2>3. /\ slot \in [Slots -> NativeSlots!Ids \cup {NativeSlots!None}] /\ slots_req[r].pc \in {"connect", "clear"}
        /\ slots_req[r].slot \in Slots
        /\ slots_req[r].pc = "connect" => Dead(slot[slots_req[r].slot])
        /\ slots_req[r].pc = "clear" => Dead(slots_req[r].handle)
    BY <2>2, RequestFacts DEF NativeSlots!Connected, NativeSlots!ClearSlot
  <2>4. s = slots_req[r].slot
    BY <2>2, <2>3 DEF NativeSlots!Connected, NativeSlots!ClearSlot
  <2>5. CASE NativeSlots!Connected(r)
    BY <2>3, <2>4, <2>5 DEF NativeSlots!Connected
  <2>6. CASE NativeSlots!ClearSlot(r)
    <3>1. slot' = [slot EXCEPT ![s] = IF @ = slots_req[r].handle THEN NativeSlots!None ELSE @] /\ slots_req[r].pc = "clear"
      BY <2>4, <2>6 DEF NativeSlots!ClearSlot
    <3>2. slot[s] = slots_req[r].handle
      BY <2>3, <3>1
    <3> QED
      BY <2>3, <3>1, <3>2
  <2> QED
    BY <2>2, <2>5, <2>6
<1>4. ([][Kept]_(NativeSlots!vars)) => LiveSessionIsKept
  BY PTL DEF LiveSessionIsKept, NativeSlots!LiveSessionIsKept
<1> HIDE DEF Kept
<1> QED
  BY SlotsPart, <1>1, <1>2, <1>3, <1>4, PTL DEF NativeSlots!Spec

-----------------------------------------------------------------------------
(* The system's DNS setting (DnsGuard). *)

\* A record as install writes it, of an interface whose setting the agent has not touched.
GoodRecord(r) == \E i \in Ifs : r = Guard!Record(i, Original[i])
GoodRecords(rs) == \A n \in DOMAIN rs : GoodRecord(rs[n])
Untouched == \A i \in Ifs : dns[i] = Original[i]
TouchedIn(rs) == \A i \in Ifs : dns[i] # Original[i] => \E n \in DOMAIN rs : rs[n] = Guard!Record(i, Original[i])
OnlyTarget(rs) == /\ \E n \in DOMAIN rs : rs[n] = Guard!Record(target, Original[target])
                  /\ \A n \in DOMAIN rs : rs[n] = Guard!Record(target, Original[target])

\* No record anywhere has the address of the TUN as a former setting.
NoTun(rs) == \A n \in DOMAIN rs : rs[n].previous # "tun"
TunIsNowhere == /\ previous # "tun" /\ NoTun(records) /\ NoTun(dnsguard_todo)
                /\ Guard!Lease => NoTun(dnsguard_file.records)

\* Phase by phase, what has been taken over and where the former setting is.
TakenOver ==
    /\ dnsguard_phase \in {"off", "idle"} =>
          IF Guard!Lease THEN GoodRecords(dnsguard_file.records) /\ TouchedIn(dnsguard_file.records) ELSE Untouched
    /\ dnsguard_phase = "restoring" =>
          /\ Guard!Lease /\ GoodRecords(dnsguard_file.records) /\ TouchedIn(dnsguard_file.records)
          /\ DOMAIN records = {} /\ GoodRecords(dnsguard_todo) /\ TouchedIn(dnsguard_todo)
    /\ dnsguard_phase \in {"installing", "recording"} => Untouched /\ ~Guard!Lease /\ DOMAIN records = {}
    /\ dnsguard_phase \in {"recording", "setting", "dropping"} => target \in Ifs /\ previous = Original[target]
    /\ dnsguard_phase \in {"setting", "dropping"} => Untouched
    /\ dnsguard_phase = "running" /\ target = NoIf => Untouched /\ ~Guard!Lease
    /\ dnsguard_phase = "running" /\ target # NoIf =>
          target \in Ifs /\ previous = Original[target] /\ \A i \in Ifs \ {target} : dns[i] = Original[i]
    /\ dnsguard_phase \in {"setting", "dropping"} \/ (dnsguard_phase = "running" /\ target # NoIf) =>
          Guard!Lease /\ OnlyTarget(records) /\ OnlyTarget(dnsguard_file.records)
    /\ dnsguard_phase # "undoing"
    /\ dnsguard_phase \in {"off", "idle", "restoring", "installing"} => target = NoIf

GuardTyped ==
    /\ dnsguard_phase \in {"off", "idle", "restoring", "installing", "recording", "setting", "undoing", "running", "dropping"}
    /\ DOMAIN dns = Ifs /\ dnsguard_faults \in Nat /\ ignored \in BOOLEAN
    /\ dnsguard_file.kind \in {"lease", "none", "torn"}

\* The inductive invariant: with a failure, or a lease left alone, the second part stays.
GuardInv == GuardTyped /\ TunIsNowhere /\ (dnsguard_faults = 0 /\ ~ignored => TakenOver)
-----------------------------------------------------------------------------
\* A record pushed is in the Vec, with what was there before and nothing else.
LEMMA PushedIsNew ==
    \A rs, r : /\ \A n \in DOMAIN Guard!push(rs, r) : Guard!push(rs, r)[n] = r \/ (n \in DOMAIN rs /\ Guard!push(rs, r)[n] = rs[n])
               /\ \E n \in DOMAIN Guard!push(rs, r) : Guard!push(rs, r)[n] = r
BY DEF Guard!push

\* What persist leaves: the lease as it is now, or the former file and a fault.
LEMMA FileWritten ==
    /\ Guard!Missing.kind = "none"
    /\ \A rs : /\ Guard!LeaseOf(pid, rs).kind = "lease" /\ Guard!LeaseOf(pid, rs).records = rs
               /\ Guard!persist(rs) => \/ dnsguard_file' = Guard!LeaseOf(pid, rs) /\ dnsguard_faults' = dnsguard_faults
                                       \/ dnsguard_file' = dnsguard_file /\ dnsguard_faults' = dnsguard_faults + 1
    /\ Guard!Lease <=> dnsguard_file.kind = "lease"
    /\ Guard!Lease' <=> dnsguard_file'.kind = "lease"
BY DEF Guard!Missing, Guard!LeaseOf, Guard!persist, Guard!Fault, Guard!Lease

LEMMA GuardInit == ASSUME Guard!GuardConstants, Guard!Init PROVE GuardInv
<1>1. /\ dnsguard_phase = "off" /\ dns = Original /\ dnsguard_file = Guard!Missing /\ records = << >> /\ dnsguard_todo = << >>
      /\ target = NoIf /\ previous = "empty" /\ ignored = FALSE /\ dnsguard_faults = 0
  BY DEF Guard!Init
<1>2. dnsguard_file.kind = "none" /\ DOMAIN records = {} /\ DOMAIN dnsguard_todo = {} /\ ~Guard!Lease
  BY <1>1 DEF Guard!Missing, Guard!Lease
<1>3. DOMAIN dns = Ifs
  BY <1>1 DEF Guard!GuardConstants
<1>4. GuardTyped
  BY <1>1, <1>2, <1>3 DEF GuardTyped
<1>5. TunIsNowhere
  BY <1>1, <1>2 DEF TunIsNowhere, NoTun
<1>6. TakenOver
  BY <1>1, <1>2 DEF TakenOver, Untouched
<1> QED
  BY <1>4, <1>5, <1>6 DEF GuardInv

\* Steps that leave the settings, the file and the records alone.
LEMMA GuardMoves ==
    ASSUME Guard!GuardConstants, GuardInv,
           \/ Guard!StartProcess \/ Guard!OtherProcess \/ Guard!NoTakeover \/ Guard!StopWithoutGuard \/ UNCHANGED Guard!vars
    PROVE  GuardInv'
<1>0. GuardTyped /\ TunIsNowhere /\ (dnsguard_faults = 0 /\ ~ignored => TakenOver)
  BY DEF GuardInv
<1>1. /\ UNCHANGED <<dns, dnsguard_file, records, dnsguard_todo, target, previous, ignored, dnsguard_faults>>
      /\ \/ dnsguard_phase' = dnsguard_phase
         \/ dnsguard_phase = "off" /\ dnsguard_phase' = "idle"
         \/ dnsguard_phase = "installing" /\ dnsguard_phase' = "running"
         \/ dnsguard_phase = "running" /\ target = NoIf /\ dnsguard_phase' = "idle"
  BY DEF Guard!StartProcess, Guard!OtherProcess, Guard!NoTakeover, Guard!StopWithoutGuard, Guard!vars
<1>2. GuardTyped' /\ TunIsNowhere'
  BY <1>0, <1>1 DEF GuardTyped, TunIsNowhere, NoTun, Guard!Lease
<1>3. /\ Guard!Lease' = Guard!Lease /\ Untouched' = Untouched /\ GoodRecords(dnsguard_file.records)' = GoodRecords(dnsguard_file.records)
      /\ TouchedIn(dnsguard_file.records)' = TouchedIn(dnsguard_file.records)
      /\ GoodRecords(dnsguard_todo)' = GoodRecords(dnsguard_todo) /\ TouchedIn(dnsguard_todo)' = TouchedIn(dnsguard_todo)
      /\ OnlyTarget(records)' = OnlyTarget(records) /\ OnlyTarget(dnsguard_file.records)' = OnlyTarget(dnsguard_file.records)
  BY <1>1 DEF Guard!Lease, Untouched, GoodRecords, GoodRecord, TouchedIn, OnlyTarget
<1>4. TakenOver => TakenOver'
  BY <1>1, <1>3 DEF TakenOver
<1> QED
  BY <1>0, <1>1, <1>2, <1>4 DEF GuardInv

\* cleanup_stale_records: with no lease left alone, the records of the file are to be
\* restored, or there is no lease and nothing to restore.
LEMMA CleanupStep == ASSUME Guard!GuardConstants, GuardInv, Guard!cleanup_stale_records PROVE GuardInv'
<1>0. GuardTyped /\ TunIsNowhere /\ (dnsguard_faults = 0 /\ ~ignored => TakenOver)
  BY DEF GuardInv
<1> DEFINE skip == Guard!Lease => dnsguard_file.pid = pid \/ Guard!current_process_is_alive(dnsguard_file.pid)
<1>1. /\ dnsguard_phase = "idle" /\ records' = << >> /\ UNCHANGED <<dns, target, previous, dnsguard_faults>>
      /\ dnsguard_todo' = (IF skip THEN << >> ELSE dnsguard_file.records)
      /\ dnsguard_phase' = (IF skip THEN "installing" ELSE "restoring")
      /\ ignored' = (ignored \/ (Guard!Lease /\ dnsguard_file.pid \in others \cup {pid}))
      /\ dnsguard_file' = IF dnsguard_file = Guard!Torn THEN Guard!Missing ELSE dnsguard_file
  BY Zenon DEF Guard!cleanup_stale_records
<1>2. /\ skip => dnsguard_todo' = << >> /\ dnsguard_phase' = "installing"
      /\ ~skip => dnsguard_todo' = dnsguard_file.records /\ dnsguard_phase' = "restoring" /\ Guard!Lease
      /\ DOMAIN records' = {}
  BY <1>1
<1>3. ~ignored' => ~ignored /\ (skip => ~Guard!Lease)
  BY <1>1 DEF Guard!current_process_is_alive
<1>4. /\ dnsguard_file'.kind \in {"lease", "none", "torn"} /\ Guard!Lease' = Guard!Lease /\ (Guard!Lease => dnsguard_file' = dnsguard_file)
  <2>1. CASE dnsguard_file = Guard!Torn
    BY <1>1, <2>1 DEF Guard!Torn, Guard!Missing, Guard!Lease
  <2>2. CASE dnsguard_file # Guard!Torn
    BY <1>0, <1>1, <2>2 DEF GuardTyped, Guard!Lease
  <2> QED
    BY <2>1, <2>2
<1>5. ignored' \in BOOLEAN
  BY <1>0, <1>1 DEF GuardTyped
<1> HIDE DEF skip
<1>6. GuardTyped'
  BY <1>0, <1>1, <1>2, <1>4, <1>5 DEF GuardTyped
<1>7. TunIsNowhere'
  <2>1. NoTun(records') /\ NoTun(dnsguard_todo')
    BY <1>0, <1>1, <1>2 DEF TunIsNowhere, NoTun
  <2>2. Guard!Lease' => NoTun(dnsguard_file'.records)
    BY <1>0, <1>4 DEF TunIsNowhere
  <2> QED
    BY <1>0, <1>1, <2>1, <2>2 DEF TunIsNowhere
<1>8. ASSUME dnsguard_faults' = 0, ~ignored' PROVE TakenOver'
  <2>0. TakenOver /\ target = NoIf
    BY <1>0, <1>1, <1>3, <1>8 DEF TakenOver
  <2>1. CASE skip
    <3>1. ~Guard!Lease /\ Untouched
      BY <1>1, <1>3, <1>8, <2>0, <2>1 DEF TakenOver
    <3>2. Untouched' /\ ~Guard!Lease' /\ dnsguard_phase' = "installing" /\ target' = NoIf
      BY <1>1, <1>2, <1>4, <2>0, <2>1, <3>1 DEF Untouched
    <3> QED
      BY <1>2, <3>2 DEF TakenOver
  <2>2. CASE ~skip
    <3>1. Guard!Lease /\ GoodRecords(dnsguard_file.records) /\ TouchedIn(dnsguard_file.records)
      BY <1>1, <1>2, <2>0, <2>2 DEF TakenOver
    <3>2. Guard!Lease' /\ GoodRecords(dnsguard_file.records)' /\ TouchedIn(dnsguard_file.records)'
      BY <1>1, <1>4, <3>1 DEF GoodRecords, GoodRecord, TouchedIn
    <3>3. GoodRecords(dnsguard_todo)' /\ TouchedIn(dnsguard_todo)' /\ dnsguard_phase' = "restoring" /\ target' = NoIf
      BY <1>1, <1>2, <2>0, <2>2, <3>1 DEF GoodRecords, GoodRecord, TouchedIn
    <3> QED
      BY <1>2, <3>2, <3>3 DEF TakenOver
  <2> QED
    BY <2>1, <2>2
<1> QED
  BY <1>6, <1>7, <1>8 DEF GuardInv

\* restore_dns_record: the first record is put back, or kept after a failure.
LEMMA RestoreStep == ASSUME Guard!GuardConstants, GuardInv, Guard!restore_dns_record PROVE GuardInv'
<1>0. GuardTyped /\ TunIsNowhere /\ (dnsguard_faults = 0 /\ ~ignored => TakenOver)
  BY DEF GuardInv
<1>1. PICK n \in DOMAIN dnsguard_todo :
        /\ dnsguard_todo' = [m \in DOMAIN dnsguard_todo \ {n} |-> dnsguard_todo[m]]
        /\ \/ /\ dns' = [dns EXCEPT ![dnsguard_todo[n].target] = dnsguard_todo[n].previous]
              /\ UNCHANGED <<records, dnsguard_faults>>
           \/ /\ dnsguard_faults' = dnsguard_faults + 1
              /\ records' = Guard!push(records, dnsguard_todo[n]) /\ UNCHANGED dns
  BY DEF Guard!restore_dns_record, Guard!set_dns_servers, Guard!Fault
<1>2. dnsguard_phase = "restoring" /\ UNCHANGED <<dnsguard_phase, dnsguard_file, target, previous, ignored>>
  BY DEF Guard!restore_dns_record
<1>3. GuardTyped'
  BY <1>0, <1>1, <1>2 DEF GuardTyped
<1>4. TunIsNowhere'
  <2>1. NoTun(dnsguard_todo') /\ dnsguard_todo[n].previous # "tun"
    BY <1>0, <1>1 DEF TunIsNowhere, NoTun
  <2>2. NoTun(records')
    BY <1>0, <1>1, <2>1, PushedIsNew DEF TunIsNowhere, NoTun
  <2> QED
    BY <1>0, <1>2, <2>1, <2>2 DEF TunIsNowhere, NoTun, Guard!Lease
<1>5. ASSUME dnsguard_faults' = 0, ~ignored' PROVE TakenOver'
  <2>0. TakenOver /\ records' = records /\ dns' = [dns EXCEPT ![dnsguard_todo[n].target] = dnsguard_todo[n].previous]
    BY <1>0, <1>1, <1>2, <1>5 DEF GuardTyped
  <2>1. /\ Guard!Lease /\ GoodRecords(dnsguard_file.records) /\ TouchedIn(dnsguard_file.records) /\ target = NoIf
        /\ DOMAIN records = {} /\ GoodRecords(dnsguard_todo) /\ TouchedIn(dnsguard_todo)
    BY <1>2, <2>0 DEF TakenOver
  <2>2. PICK j \in Ifs : dnsguard_todo[n] = Guard!Record(j, Original[j])
    BY <2>1 DEF GoodRecords, GoodRecord
  <2>3. dnsguard_todo[n].target = j /\ dnsguard_todo[n].previous = Original[j]
    BY <2>2 DEF Guard!Record
  <2>4. \A i \in Ifs : dns'[i] # Original[i] => dns[i] # Original[i] /\ i # j
    BY <1>0, <2>0, <2>3 DEF GuardTyped
  <2>5. GoodRecords(dnsguard_todo)'
    BY <1>1, <2>1 DEF GoodRecords, GoodRecord
  <2>6. TouchedIn(dnsguard_todo)'
    <3> SUFFICES ASSUME NEW i \in Ifs, dns'[i] # Original[i]
                 PROVE  \E m \in DOMAIN dnsguard_todo' : dnsguard_todo'[m] = Guard!Record(i, Original[i])
      BY DEF TouchedIn
    <3>1. PICK m \in DOMAIN dnsguard_todo : dnsguard_todo[m] = Guard!Record(i, Original[i])
      BY <2>1, <2>4 DEF TouchedIn
    <3>2. m # n
      BY <2>3, <2>4, <3>1 DEF Guard!Record
    <3> QED
      BY <1>1, <3>1, <3>2
  <2>7. GoodRecords(dnsguard_file.records)' /\ TouchedIn(dnsguard_file.records)' /\ Guard!Lease'
    BY <1>2, <2>1, <2>4 DEF GoodRecords, GoodRecord, TouchedIn, Guard!Lease
  <2> QED
    BY <1>2, <2>0, <2>1, <2>5, <2>6, <2>7 DEF TakenOver
<1> QED
  BY <1>3, <1>4, <1>5 DEF GuardInv

\* The end of the cleanup: without failures no record is left, and the file goes.
LEMMA CleanupEnds == ASSUME Guard!GuardConstants, GuardInv, Guard!StaleRecordsDone PROVE GuardInv'
<1>0. GuardTyped /\ TunIsNowhere /\ (dnsguard_faults = 0 /\ ~ignored => TakenOver)
  BY DEF GuardInv
<1>1. /\ dnsguard_phase = "restoring" /\ DOMAIN dnsguard_todo = {} /\ dnsguard_phase' = "installing"
      /\ UNCHANGED <<dns, records, dnsguard_todo, target, previous, ignored>>
      /\ (DOMAIN records = {} => dnsguard_file' = Guard!Missing /\ dnsguard_faults' = dnsguard_faults)
      /\ (DOMAIN records # {} => Guard!persist(records))
  BY DEF Guard!StaleRecordsDone, Guard!is_empty
<1>2. \/ dnsguard_file' = Guard!Missing /\ dnsguard_faults' = dnsguard_faults
      \/ dnsguard_file' = Guard!LeaseOf(pid, records) /\ dnsguard_faults' = dnsguard_faults
      \/ dnsguard_file' = dnsguard_file /\ dnsguard_faults' = dnsguard_faults + 1
  <2>1. CASE DOMAIN records = {}
    BY <1>1, <2>1
  <2>2. CASE DOMAIN records # {}
    BY <1>1, <2>2, FileWritten
  <2> QED
    BY <2>1, <2>2
<1>3. GuardTyped'
  BY <1>0, <1>1, <1>2, FileWritten DEF GuardTyped
<1>4. TunIsNowhere'
  BY <1>0, <1>1, <1>2, FileWritten DEF TunIsNowhere, NoTun
<1>5. ASSUME dnsguard_faults' = 0, ~ignored' PROVE TakenOver'
  <2>1. TakenOver
    BY <1>0, <1>1, <1>2, <1>5 DEF GuardTyped
  <2>2. DOMAIN records = {} /\ Untouched /\ target = NoIf
    BY <1>1, <2>1 DEF TakenOver, TouchedIn, Untouched
  <2>3. ~Guard!Lease'
    BY <1>1, <2>2 DEF Guard!Lease, Guard!Missing
  <2> QED
    BY <1>1, <2>2, <2>3 DEF TakenOver, Untouched
<1> QED
  BY <1>3, <1>4, <1>5 DEF GuardInv

\* windows_previous_dns: the setting found is the user's, or what an earlier run left.
LEMMA PreviousStep == ASSUME Guard!GuardConstants, GuardInv, Guard!windows_previous_dns PROVE GuardInv'
<1>0. GuardTyped /\ TunIsNowhere /\ (dnsguard_faults = 0 /\ ~ignored => TakenOver)
  BY DEF GuardInv
<1>1. /\ dnsguard_phase = "installing" /\ dnsguard_phase' = "recording"
      /\ UNCHANGED <<dns, dnsguard_file, records, dnsguard_todo, ignored, dnsguard_faults>>
      /\ target' \in Ifs /\ previous' = IF dns[target'] = "tun" THEN "empty" ELSE dns[target']
  BY DEF Guard!windows_previous_dns, Guard!normalize_previous_dns
<1>2. GuardTyped' /\ TunIsNowhere'
  BY <1>0, <1>1 DEF GuardTyped, TunIsNowhere, NoTun, Guard!Lease
<1>3. ASSUME dnsguard_faults' = 0, ~ignored' PROVE TakenOver'
  <2>1. Untouched /\ ~Guard!Lease /\ DOMAIN records = {}
    BY <1>0, <1>1, <1>3 DEF TakenOver
  <2>2. previous' = Original[target']
    BY <1>1, <2>1 DEF Untouched, Guard!GuardConstants
  <2>3. Untouched' /\ ~Guard!Lease' /\ DOMAIN records' = {}
    BY <1>1, <2>1 DEF Untouched, Guard!Lease
  <2> QED
    BY <1>1, <2>2, <2>3 DEF TakenOver
<1> QED
  BY <1>2, <1>3 DEF GuardInv

\* record_active: the one record, in memory and in the file before the setting is touched.
LEMMA RecordStep == ASSUME Guard!GuardConstants, GuardInv, Guard!record_active PROVE GuardInv'
<1>0. GuardTyped /\ TunIsNowhere /\ (dnsguard_faults = 0 /\ ~ignored => TakenOver)
  BY DEF GuardInv
<1>1. /\ dnsguard_phase = "recording" /\ dnsguard_phase' = "setting"
      /\ records' = Guard!push(records, Guard!Record(target, previous)) /\ Guard!persist(records')
      /\ UNCHANGED <<dns, dnsguard_todo, target, previous, ignored>>
  BY DEF Guard!record_active
<1>2. NoTun(records')
  BY <1>0, <1>1, PushedIsNew DEF TunIsNowhere, NoTun, Guard!Record
<1>3. GuardTyped' /\ TunIsNowhere'
  BY <1>0, <1>1, <1>2, FileWritten DEF GuardTyped, TunIsNowhere, NoTun
<1>4. ASSUME dnsguard_faults' = 0, ~ignored' PROVE TakenOver'
  <2>1. TakenOver /\ dnsguard_file' = Guard!LeaseOf(pid, records')
    BY <1>0, <1>1, <1>4, FileWritten DEF GuardTyped
  <2>2. Untouched /\ DOMAIN records = {} /\ target \in Ifs /\ previous = Original[target]
    BY <1>1, <2>1 DEF TakenOver
  <2>3. OnlyTarget(records)'
    BY <1>1, <2>2, PushedIsNew DEF OnlyTarget
  <2>4. Guard!Lease' /\ dnsguard_file'.records = records'
    BY <2>1 DEF Guard!Lease, Guard!LeaseOf
  <2>5. OnlyTarget(dnsguard_file.records)' /\ Untouched'
    BY <1>1, <2>2, <2>3, <2>4 DEF OnlyTarget, Untouched
  <2> QED
    BY <1>1, <2>2, <2>3, <2>4, <2>5 DEF TakenOver
<1> QED
  BY <1>3, <1>4 DEF GuardInv

\* install sets the interface to the TUN's DNS; Drop puts the former setting back.
LEMMA SettingStep == ASSUME Guard!GuardConstants, GuardInv, Guard!install \/ Guard!RestorePrevious PROVE GuardInv'
<1>0. GuardTyped /\ TunIsNowhere /\ (dnsguard_faults = 0 /\ ~ignored => TakenOver)
  BY DEF GuardInv
<1>1. /\ UNCHANGED <<dnsguard_file, records, dnsguard_todo, previous, ignored>>
      /\ \/ /\ dnsguard_phase = "setting" /\ dnsguard_phase' = "running" /\ dns' = [dns EXCEPT ![target] = "tun"]
            /\ UNCHANGED <<target, dnsguard_faults>>
         \/ /\ (dnsguard_phase = "running" /\ target # NoIf) \/ dnsguard_phase = "undoing"
            /\ dnsguard_phase' = "dropping" /\ dns' = [dns EXCEPT ![target] = previous] /\ UNCHANGED <<target, dnsguard_faults>>
         \/ dnsguard_faults' = dnsguard_faults + 1 /\ dnsguard_phase' \in {"undoing", "running", "idle"} /\ UNCHANGED dns
  BY DEF Guard!install, Guard!RestorePrevious, Guard!set_dns_servers, Guard!Fault
<1>2. GuardTyped' /\ TunIsNowhere'
  BY <1>0, <1>1 DEF GuardTyped, TunIsNowhere, NoTun, Guard!Lease
<1>3. ASSUME dnsguard_faults' = 0, ~ignored' PROVE TakenOver'
  <2>1. TakenOver /\ UNCHANGED <<target, dnsguard_faults>> /\ dnsguard_phase # "undoing"
    BY <1>0, <1>1, <1>3 DEF GuardTyped, TakenOver
  <2>2. /\ Guard!Lease /\ OnlyTarget(records) /\ OnlyTarget(dnsguard_file.records) /\ target \in Ifs /\ previous = Original[target]
        /\ \A i \in Ifs \ {target} : dns[i] = Original[i]
    BY <1>0, <1>1, <1>3, <2>1 DEF TakenOver, Untouched, GuardTyped
  <2>3. Guard!Lease' /\ OnlyTarget(records)' /\ OnlyTarget(dnsguard_file.records)'
    BY <1>1, <2>1, <2>2 DEF OnlyTarget, Guard!Lease
  <2>4. target \in Ifs /\ target # NoIf /\ \A i \in Ifs \ {target} : dns'[i] = Original[i]
    BY <1>0, <1>1, <1>3, <2>2 DEF GuardTyped, Guard!GuardConstants
  <2>5. dnsguard_phase' = "dropping" => Untouched'
    BY <1>0, <1>1, <1>3, <2>2, <2>4 DEF GuardTyped, Untouched
  <2>6. dnsguard_phase' \in {"running", "dropping"}
    BY <1>0, <1>1, <1>3 DEF GuardTyped
  <2> QED
    BY <1>1, <2>1, <2>2, <2>3, <2>4, <2>5, <2>6 DEF TakenOver
<1> QED
  BY <1>2, <1>3 DEF GuardInv

\* remove_record: without failures the record was the only one, and the file goes.
LEMMA RemoveRecordStep == ASSUME Guard!GuardConstants, GuardInv, Guard!remove_record PROVE GuardInv'
<1>0. GuardTyped /\ TunIsNowhere /\ (dnsguard_faults = 0 /\ ~ignored => TakenOver)
  BY DEF GuardInv
<1>1. /\ dnsguard_phase = "dropping" /\ dnsguard_phase' = "idle" /\ target' = NoIf
      /\ UNCHANGED <<dns, dnsguard_todo, previous, ignored>>
      /\ records' = [n \in {m \in DOMAIN records : records[m].target # target} |-> records[n]]
      /\ (DOMAIN records' = {} => dnsguard_file' = Guard!Missing /\ dnsguard_faults' = dnsguard_faults)
      /\ (DOMAIN records' # {} => Guard!persist(records'))
  BY DEF Guard!remove_record, Guard!is_empty, Guard!RetainOthers
<1>2. NoTun(records')
  BY <1>0, <1>1 DEF TunIsNowhere, NoTun
<1>3. GuardTyped' /\ TunIsNowhere'
  BY <1>0, <1>1, <1>2, FileWritten DEF GuardTyped, TunIsNowhere, NoTun
<1>4. ASSUME dnsguard_faults' = 0, ~ignored' PROVE TakenOver'
  <2>1. TakenOver
    BY <1>0, <1>1, <1>4, FileWritten DEF GuardTyped
  <2>2. OnlyTarget(records) /\ Untouched
    BY <1>1, <2>1 DEF TakenOver
  <2>3. DOMAIN records' = {}
    BY <1>1, <2>2 DEF OnlyTarget, Guard!Record
  <2>4. ~Guard!Lease' /\ Untouched'
    BY <1>1, <2>2, <2>3 DEF Guard!Lease, Guard!Missing, Untouched
  <2> QED
    BY <1>1, <2>4 DEF TakenOver
<1> QED
  BY <1>3, <1>4 DEF GuardInv

\* The end of the process: what was taken over is in the file, a torn write is of a lease
\* that had taken nothing over yet.
LEMMA GuardCrash == ASSUME Guard!GuardConstants, GuardInv, Guard!Crash PROVE GuardInv'
<1>0. GuardTyped /\ TunIsNowhere /\ (dnsguard_faults = 0 /\ ~ignored => TakenOver)
  BY DEF GuardInv
<1>1. /\ dnsguard_phase # "off" /\ dnsguard_phase' = "off" /\ target' = NoIf /\ DOMAIN records' = {} /\ DOMAIN dnsguard_todo' = {}
      /\ UNCHANGED <<dns, previous, ignored, dnsguard_faults>>
      /\ dnsguard_file' = dnsguard_file \/ (dnsguard_phase = "recording" /\ dnsguard_file' = Guard!Torn)
  BY DEF Guard!Crash
<1>2. dnsguard_file'.kind \in {"lease", "none", "torn"} /\ (Guard!Lease' => Guard!Lease /\ dnsguard_file' = dnsguard_file)
  BY <1>0, <1>1 DEF GuardTyped, Guard!Lease, Guard!Torn
<1>3. GuardTyped' /\ TunIsNowhere'
  BY <1>0, <1>1, <1>2 DEF GuardTyped, TunIsNowhere, NoTun
<1>4. ASSUME dnsguard_faults' = 0, ~ignored' PROVE TakenOver'
  <2>1. TakenOver
    BY <1>0, <1>1, <1>4
  <2>2. Guard!Lease => GoodRecords(dnsguard_file.records) /\ TouchedIn(dnsguard_file.records)
    <3>1. CASE dnsguard_phase \in {"idle", "restoring", "installing", "recording"} \/ (dnsguard_phase = "running" /\ target = NoIf)
      BY <2>1, <3>1 DEF TakenOver
    <3>2. CASE dnsguard_phase \in {"setting", "dropping"} \/ (dnsguard_phase = "running" /\ target # NoIf)
      <4>1. /\ target \in Ifs /\ OnlyTarget(dnsguard_file.records) /\ \A i \in Ifs \ {target} : dns[i] = Original[i]
        BY <2>1, <3>2 DEF TakenOver, Untouched
      <4> QED
        BY <4>1 DEF OnlyTarget, GoodRecords, GoodRecord, TouchedIn
    <3> QED
      BY <1>0, <1>1, <2>1, <3>1, <3>2 DEF GuardTyped, TakenOver
  <2>3. ~Guard!Lease \/ dnsguard_phase = "recording" => Untouched
    BY <1>0, <1>1, <2>1 DEF TakenOver, GuardTyped
  <2>4. Guard!Lease' => GoodRecords(dnsguard_file.records)' /\ TouchedIn(dnsguard_file.records)'
    BY <1>1, <1>2, <2>2 DEF GoodRecords, GoodRecord, TouchedIn
  <2>5. ~Guard!Lease' => Untouched'
    BY <1>1, <2>3 DEF Untouched, Guard!Lease
  <2> QED
    BY <1>1, <2>4, <2>5 DEF TakenOver
<1> QED
  BY <1>3, <1>4 DEF GuardInv

LEMMA GuardStep == ASSUME Guard!GuardConstants, GuardInv, [Guard!Next]_(Guard!vars) PROVE GuardInv'
BY GuardMoves, CleanupStep, RestoreStep, CleanupEnds, PreviousStep, RecordStep, SettingStep, RemoveRecordStep, GuardCrash DEF Guard!Next

\* The invariant is strong enough.
LEMMA GuardSafe == ASSUME Guard!GuardConstants, GuardInv PROVE Guard!DnsIsRestorable /\ Guard!OriginalRestored /\ Guard!TunIsNeverPutBack
<1>0. GuardTyped /\ TunIsNowhere /\ (dnsguard_faults = 0 /\ ~ignored => TakenOver)
  BY DEF GuardInv
<1>1. Guard!TunIsNeverPutBack
  BY <1>0 DEF Guard!TunIsNeverPutBack, TunIsNowhere, NoTun, Guard!Range
<1>2. Guard!OriginalRestored
  <2> SUFFICES ASSUME dnsguard_faults = 0, ~ignored, dnsguard_phase \in {"installing", "running"}, NEW i \in Ifs \ {target}
               PROVE  dns[i] = Original[i]
    BY DEF Guard!OriginalRestored
  <2> QED
    BY <1>0 DEF TakenOver, Untouched
<1>3. Guard!DnsIsRestorable
  <2> SUFFICES ASSUME dnsguard_faults = 0, ~ignored, NEW i \in Ifs, dns[i] # Original[i]
               PROVE  Guard!Lease /\ \E n \in DOMAIN dnsguard_file.records : dnsguard_file.records[n] = Guard!Record(i, Original[i])
    BY DEF Guard!DnsIsRestorable, Guard!InFile, Guard!Range
  <2>1. TakenOver
    BY <1>0
  <2>2. CASE dnsguard_phase \in {"off", "idle", "restoring"}
    BY <2>1, <2>2 DEF TakenOver, TouchedIn, Untouched
  <2>3. CASE dnsguard_phase = "running"
    <3>1. target = i /\ target # NoIf
      BY <2>1, <2>3 DEF TakenOver, Untouched
    <3>2. Guard!Lease /\ OnlyTarget(dnsguard_file.records)
      BY <2>1, <2>3, <3>1 DEF TakenOver
    <3> QED
      BY <3>1, <3>2 DEF OnlyTarget
  <2>4. CASE dnsguard_phase \in {"installing", "recording", "setting", "dropping"}
    BY <2>1, <2>4 DEF TakenOver, Untouched
  <2> QED
    BY <1>0, <2>1, <2>2, <2>3, <2>4 DEF GuardTyped, TakenOver
<1> QED
  BY <1>1, <1>2, <1>3
-----------------------------------------------------------------------------
(* An agent on macOS, and one that does not proxy UDP. *)

Mac == INSTANCE TunHostProofs WITH MACOS <- TRUE, WINDOWS <- FALSE, DELETES_FAIL <- TRUE
Direct == INSTANCE TunUdpProofs WITH PROXY_UDP <- FALSE, BLOCK_QUIC <- FALSE

\* What is assumed of the constants depends neither on the platform nor on the policy.
LEMMA MacConstants == Mac!AgentConstants /\ Mac!Routes!RouteConstants
<1>1. Mac!PoolConstants /\ Mac!NativeSlots!SlotsConstants
  BY Zenon, AgentConstants
  DEF AgentConstants, PoolConstants, Mac!PoolConstants, None, Mac!None, IsFiniteSet, Mac!IsFiniteSet,
      NativeSlots!SlotsConstants, Mac!NativeSlots!SlotsConstants, NativeSlots!None, Mac!NativeSlots!None,
      NativeSlots!IsFiniteSet, Mac!NativeSlots!IsFiniteSet
<1>2. Mac!Shard!ShardConstants /\ Mac!Sessions!SessionsConstants
  BY AgentConstants DEF AgentConstants, Shard!ShardConstants, Mac!Shard!ShardConstants,
                        Sessions!SessionsConstants, Mac!Sessions!SessionsConstants
<1>3. Mac!Dns!DnsConstants
  BY Zenon, AgentConstants DEF AgentConstants, Dns!DnsConstants, Mac!Dns!DnsConstants
<1>4. Mac!Routes!RouteConstants
  <2>1. Mac!Routes!Routes = Routes!Routes /\ \A S : Mac!Routes!Phys(S) = Routes!Phys(S)
    BY DEF Routes!Routes, Mac!Routes!Routes, Routes!Phys, Mac!Routes!Phys, Routes!Tun, Mac!Routes!Tun
  <2>2. Routes!IsFiniteSet(Routes!Routes) => Mac!Routes!IsFiniteSet(Routes!Routes)
    BY Zenon DEF Routes!IsFiniteSet, Mac!Routes!IsFiniteSet
  <2> QED
    BY <2>1, <2>2, AgentConstants DEF AgentConstants, Routes!RouteConstants, Mac!Routes!RouteConstants
<1>5. Mac!Guard!GuardConstants /\ Mac!Helper!HelperConstants
  BY AgentConstants DEF AgentConstants, Guard!GuardConstants, Mac!Guard!GuardConstants,
                        Helper!HelperConstants, Mac!Helper!HelperConstants
<1> QED
  BY <1>1, <1>2, <1>3, <1>4, <1>5 DEF Mac!AgentConstants

\* The part of the suite on macOS is the instance that the proofs are about.
LEMMA MacSteps == (Routes!Init => Mac!Routes!Init) /\ (Macos!Next => Mac!Routes!Next)
<1>1. Routes!Init => Mac!Routes!Init
  BY DEF Routes!Init, Mac!Routes!Init, Routes!Routes, Mac!Routes!Routes, Routes!Tun, Mac!Routes!Tun, Routes!Phys, Mac!Routes!Phys
<1>2. Macos!Next => Mac!Routes!Next
  BY ZenonT(60) DEF Macos!Next, Mac!Routes!Next, Macos!Phys, Mac!Routes!Phys, Macos!Tun, Mac!Routes!Tun, Macos!Routes, Mac!Routes!Routes,
         Macos!bounds, Mac!Routes!bounds, Macos!Rank, Mac!Routes!Rank, Macos!Recorded, Mac!Routes!Recorded, Macos!Fault, Mac!Routes!Fault,
         Macos!dns_capture_routes, Mac!Routes!dns_capture_routes, Macos!proxy_bypass_routes, Mac!Routes!proxy_bypass_routes,
         Macos!local_network_bypass_routes, Mac!Routes!local_network_bypass_routes, Macos!split_routes, Mac!Routes!split_routes,
         Macos!Wanted, Mac!Routes!Wanted, Macos!NextToDelete, Mac!Routes!NextToDelete,
         Macos!delete_route_with_platform_tool, Mac!Routes!delete_route_with_platform_tool,
         Macos!delete_recorded_route, Mac!Routes!delete_recorded_route, Macos!cleanup_stale_routes, Mac!Routes!cleanup_stale_routes,
         Macos!cleanup_existing_tun_split_routes, Mac!Routes!cleanup_existing_tun_split_routes, Macos!CleanedUp, Mac!Routes!CleanedUp,
         Macos!InstallFails, Mac!Routes!InstallFails, Macos!Following, Mac!Routes!Following, Macos!Adding, Mac!Routes!Adding,
         Macos!add, Mac!Routes!add, Macos!remove_file, Mac!Routes!remove_file, Macos!record_installed, Mac!Routes!record_installed, Macos!KindDone, Mac!Routes!KindDone,
         Macos!WithoutFilter, Mac!Routes!WithoutFilter, Macos!FlushAndRelease, Mac!Routes!FlushAndRelease,
         Macos!macos_pf_enable, Mac!Routes!macos_pf_enable, Macos!MacosPfLoad, Mac!Routes!MacosPfLoad, Macos!drop, Mac!Routes!drop,
         Macos!dropped, Mac!Routes!dropped, Macos!Crash, Mac!Routes!Crash, Macos!TunGone, Mac!Routes!TunGone
<1> QED
  BY <1>1, <1>2

LEMMA MacSafe == Mac!Routes!RoutesAreRight => Macos!RoutesAreRight
BY DEF Macos!RoutesAreRight, Mac!Routes!RoutesAreRight, Macos!ProxyStaysReachable, Mac!Routes!ProxyStaysReachable,
       Macos!ProxyIsNotCaptured, Mac!Routes!ProxyIsNotCaptured, Macos!UserRoutesKept, Mac!Routes!UserRoutesKept, Macos!LeakBound,
       Mac!Routes!LeakBound, Macos!FilterIsReleased, Mac!Routes!FilterIsReleased, Macos!RouteTo, Mac!Routes!RouteTo, Macos!Routes,
       Mac!Routes!Routes, Macos!Phys, Mac!Routes!Phys, Macos!Tun, Mac!Routes!Tun, Macos!Recorded, Mac!Routes!Recorded

HostInv == GuardInv /\ (part = "macos" => Mac!RoutesInv)

\* For any interfaces, processes, faults and crashes: an interface that points at the DNS
\* address of the TUN has its former setting in the state file, a start past its cleanup
\* has put every other interface back (failed commands and leases left alone excepted),
\* and the TUN's own address is never what is put back (DnsGuard, DnsLease).  On macOS,
\* where deletions may fail, the system's own routes stay, no proxy is captured, the
\* connections to the proxies stay out of the TUN up to the first fault or crash, and
\* nothing is left in the packet filter but what a crash, a failed pfctl or an unread token
\* left there (RouteGuard, MacosPfDnsGuard); of routes left behind it says nothing there.
THEOREM HostIsPutBack == SuiteSpec => []HostIsRestored
<1>0. Guard!GuardConstants
  BY AgentConstants DEF AgentConstants
<1>1. SuiteInit => HostInv
  BY <1>0, MacConstants, MacSteps, GuardInit, Mac!RoutesInit DEF SuiteInit, HostInv
<1>2. HostInv /\ [SuiteNext]_suite_vars => HostInv'
  <2> SUFFICES ASSUME HostInv, [SuiteNext]_suite_vars PROVE HostInv'
    OBVIOUS
  <2>1. part' = part /\ (part = "macos" => [Macos!Next]_(Macos!vars))
    BY DEF SuiteNext, OnlyPool, OnlyNativeSlots, OnlyShard, OnlySessions, OnlyDirectSessions,
           OnlyDns, OnlyAndroidDns, OnlyRoutes, OnlyMacos, OnlyGuard, OnlyHelper, suite_vars,
           routes_vars, Macos!vars
  <2>2. [Guard!Next]_(Guard!vars)
    BY DEF SuiteNext, OnlyPool, OnlyNativeSlots, OnlyShard, OnlySessions, OnlyDirectSessions,
           OnlyDns, OnlyAndroidDns, OnlyRoutes, OnlyMacos, OnlyGuard, OnlyHelper, suite_vars,
           dnsguard_vars, Guard!vars
  <2>3. GuardInv'
    BY <1>0, <2>2, GuardStep DEF HostInv
  <2>4. ASSUME part = "macos" PROVE Mac!RoutesInv'
    <3>1. [Mac!Routes!Next]_(Mac!Routes!vars)
      BY <2>1, <2>4, MacSteps DEF Macos!vars, Mac!Routes!vars
    <3> QED
      BY <2>4, <3>1, MacConstants, Mac!RoutesStep DEF HostInv
  <2> QED
    BY <2>1, <2>3, <2>4 DEF HostInv
<1>3. HostInv => HostIsRestored
  BY <1>0, MacConstants, MacSafe, GuardSafe, Mac!RoutesSafe DEF HostInv, HostIsRestored
<1> QED
  BY <1>1, <1>2, <1>3, PTL DEF SuiteSpec

LEMMA DirectConstants == Direct!AgentConstants /\ Direct!Sessions!SessionsConstants
<1>1. Direct!PoolConstants /\ Direct!NativeSlots!SlotsConstants
  BY Zenon, AgentConstants
  DEF AgentConstants, PoolConstants, Direct!PoolConstants, None, Direct!None, IsFiniteSet, Direct!IsFiniteSet,
      NativeSlots!SlotsConstants, Direct!NativeSlots!SlotsConstants, NativeSlots!None, Direct!NativeSlots!None,
      NativeSlots!IsFiniteSet, Direct!NativeSlots!IsFiniteSet
<1>2. Direct!Shard!ShardConstants /\ Direct!Sessions!SessionsConstants
  BY AgentConstants DEF AgentConstants, Shard!ShardConstants, Direct!Shard!ShardConstants,
                        Sessions!SessionsConstants, Direct!Sessions!SessionsConstants
<1>3. Direct!Dns!DnsConstants
  BY Zenon, AgentConstants DEF AgentConstants, Dns!DnsConstants, Direct!Dns!DnsConstants
<1>4. Direct!Routes!RouteConstants
  <2>1. Direct!Routes!Routes = Routes!Routes /\ \A S : Direct!Routes!Phys(S) = Routes!Phys(S)
    BY DEF Routes!Routes, Direct!Routes!Routes, Routes!Phys, Direct!Routes!Phys, Routes!Tun, Direct!Routes!Tun
  <2>2. Routes!IsFiniteSet(Routes!Routes) => Direct!Routes!IsFiniteSet(Routes!Routes)
    BY Zenon DEF Routes!IsFiniteSet, Direct!Routes!IsFiniteSet
  <2> QED
    BY <2>1, <2>2, AgentConstants DEF AgentConstants, Routes!RouteConstants, Direct!Routes!RouteConstants
<1>5. Direct!Guard!GuardConstants /\ Direct!Helper!HelperConstants
  BY AgentConstants DEF AgentConstants, Guard!GuardConstants, Direct!Guard!GuardConstants,
                        Helper!HelperConstants, Direct!Helper!HelperConstants
<1> QED
  BY <1>1, <1>2, <1>3, <1>4, <1>5 DEF Direct!AgentConstants

\* The part of the suite that does not proxy UDP is the instance that the proofs are about.
LEMMA DirectSteps == (Sessions!Init => Direct!Sessions!Init) /\ (DirectSessions!Next => Direct!Sessions!Next)
<1>1. Sessions!Init => Direct!Sessions!Init
  BY DEF Sessions!Init, Direct!Sessions!Init
<1>2. DirectSessions!Next => Direct!Sessions!Next
  BY DEF DirectSessions!Next, Direct!Sessions!Next, DirectSessions!With, Direct!Sessions!With,
     DirectSessions!Without, Direct!Sessions!Without, DirectSessions!Cancel, Direct!Sessions!Cancel,
     DirectSessions!record_resolution, Direct!Sessions!record_resolution, DirectSessions!CacheExpires,
     Direct!Sessions!CacheExpires, DirectSessions!EgressChanges, Direct!Sessions!EgressChanges,
     DirectSessions!should_consult_udp_domain_cache, Direct!Sessions!should_consult_udp_domain_cache,
     DirectSessions!direct_access_match, Direct!Sessions!direct_access_match,
     DirectSessions!classify_udp_route, Direct!Sessions!classify_udp_route, DirectSessions!Running,
     Direct!Sessions!Running, DirectSessions!Offer, Direct!Sessions!Offer, DirectSessions!ReuseSession,
     Direct!Sessions!ReuseSession, DirectSessions!RelayFlow, Direct!Sessions!RelayFlow,
     DirectSessions!StartSession, Direct!Sessions!StartSession, DirectSessions!StopDispatcher,
     Direct!Sessions!StopDispatcher, DirectSessions!Phase, Direct!Sessions!Phase, DirectSessions!Goto,
     Direct!Sessions!Goto, DirectSessions!Rest, Direct!Sessions!Rest, DirectSessions!handle_tun_udp,
     Direct!Sessions!handle_tun_udp, DirectSessions!refresh_after_direct_failure,
     Direct!Sessions!refresh_after_direct_failure, DirectSessions!BindDirect, Direct!Sessions!BindDirect,
     DirectSessions!connect_direct_udp, Direct!Sessions!connect_direct_udp, DirectSessions!relay_direct_udp,
     Direct!Sessions!relay_direct_udp, DirectSessions!connect_to_target, Direct!Sessions!connect_to_target,
     DirectSessions!ForwardProxied, Direct!Sessions!ForwardProxied, DirectSessions!ProxiedEnds,
     Direct!Sessions!ProxiedEnds, DirectSessions!RemoveEntry, Direct!Sessions!RemoveEntry,
     DirectSessions!Dispatch, Direct!Sessions!Dispatch, DirectSessions!SessionStep,
     Direct!Sessions!SessionStep, DirectSessions!Surroundings, Direct!Sessions!Surroundings
<1> QED
  BY <1>1, <1>2

DirectInv == part = "direct" => Direct!SessionsInv

\* For any flows, rules and queue sizes, when UDP is not proxied: the table and the tasks of
\* the sessions agree, and no flow but of QUIC reaches the proxy, whatever the domain cache
\* says when the dispatcher and when the task decide (spawn_udp_sessions, handle_tun_udp).
THEOREM UnproxiedUdpStaysDirect == SuiteSpec => []UnproxiedStaysDirect
<1>1. SuiteInit => DirectInv
  BY DirectConstants, DirectSteps, Direct!SessionsInit DEF SuiteInit, DirectInv
<1>2. DirectInv /\ [SuiteNext]_suite_vars => DirectInv'
  <2> SUFFICES ASSUME DirectInv, [SuiteNext]_suite_vars PROVE DirectInv'
    OBVIOUS
  <2>1. part' = part /\ (part = "direct" => [DirectSessions!Next]_(DirectSessions!vars))
    BY DEF SuiteNext, OnlyPool, OnlyNativeSlots, OnlyShard, OnlySessions, OnlyDirectSessions,
           OnlyDns, OnlyAndroidDns, OnlyRoutes, OnlyMacos, OnlyGuard, OnlyHelper, suite_vars,
           sessions_vars, DirectSessions!vars
  <2>2. ASSUME part = "direct" PROVE [Direct!Sessions!Next]_(Direct!Sessions!vars)
    BY <2>1, <2>2, DirectSteps DEF DirectSessions!vars, Direct!Sessions!vars
  <2> QED
    BY <2>1, <2>2, DirectConstants, Direct!SessionsStep DEF DirectInv
<1>3. DirectInv => UnproxiedStaysDirect
  BY DirectConstants, Direct!SessionsSafe
  DEF DirectInv, UnproxiedStaysDirect, DirectSessions!TableMatchesTasks, Direct!Sessions!TableMatchesTasks,
      DirectSessions!DirectFlowStaysDirect, Direct!Sessions!DirectFlowStaysDirect
<1> QED
  BY <1>1, <1>2, <1>3, PTL DEF SuiteSpec
============================================================================
