----------------------------- MODULE AgentProofs -----------------------------
(***************************************************************************)
(* What the agent keeps open, for any number of sessions, streams,         *)
(* forwards, log sources, loops and slots: the accounting of the execution *)
(* slots, that nothing which runs on behalf of a client is out of reach,   *)
(* and that a client which is told of the end has all that came before it. *)
(***************************************************************************)
EXTENDS MCAgent, FiniteOrders, TLAPS

-----------------------------------------------------------------------------
(* Execution slots.                                                        *)

\* No more tokens than the channel has room for, and no state outside its type.
THEOREM TypeCorrect == Spec => []TypeOK
<1>1. Init => TypeOK
  <2> SUFFICES ASSUME Init PROVE TypeOK
    OBVIOUS
  <2>1. shutdown \in BOOLEAN
    BY Zenon DEF Init
  <2> QED
    BY <2>1, SlotsAssumption DEF SlotsAssumption, Init, TypeOK
<1>2. TypeOK /\ [Next]_vars => TypeOK'
  <2> SUFFICES ASSUME TypeOK, [Next]_vars PROVE TypeOK'
    OBVIOUS
  <2> USE SlotsAssumption DEF SlotsAssumption, TypeOK, Release
  <2>1. ASSUME NEW l \in Loops, TakeSlot(l) PROVE TypeOK'
    BY <2>1 DEF TakeSlot
  <2>2. ASSUME NEW l \in Loops, ClaimMissed(l) PROVE TypeOK'
    BY <2>2 DEF ClaimMissed
  <2>3. ASSUME NEW l \in Loops, NEW w \in Work, ClaimLost(l, w) PROVE TypeOK'
    BY <2>3 DEF ClaimLost
  <2>4. ASSUME NEW l \in Loops, NEW w \in Work, Claimed(l, w) PROVE TypeOK'
    BY <2>4 DEF Claimed
  <2>5. ASSUME NEW w \in Work, Finish(w) PROVE TypeOK'
    BY <2>5 DEF Finish
  <2>6. ASSUME NEW l \in Loops, LoopStops(l) PROVE TypeOK'
    BY <2>6 DEF LoopStops
  <2>7. CASE Shutdown
    BY <2>7 DEF Shutdown
  <2>8. CASE UNCHANGED vars
    BY <2>8 DEF vars
  <2> QED
    BY <2>1, <2>2, <2>3, <2>4, <2>5, <2>6, <2>7, <2>8 DEF Next
<1> QED
  BY <1>1, <1>2, PTL DEF Spec

\* The two sets of slot holders are finite, so their cardinalities are numbers.
LEMMA HoldersFinite ==
  /\ IsFiniteSet(Claiming) /\ Cardinality(Claiming) \in Nat
  /\ IsFiniteSet(InHand) /\ Cardinality(InHand) \in Nat
<1>1. IsFiniteSet(Claiming)
  BY SlotsAssumption, FS_Subset DEF SlotsAssumption, Claiming
<1>2. IsFiniteSet(InHand)
  BY SlotsAssumption, FS_Subset DEF SlotsAssumption, InHand
<1> QED
  BY <1>1, <1>2, FS_CardinalityType

\* TakeSlot adds one claiming loop, the other ends of a claim remove one.
LEMMA OneLoop ==
  ASSUME TypeOK, NEW l \in Loops, NEW s \in {"waiting", "claiming"},
         loop' = [loop EXCEPT ![l] = s], loop[l] # s, loop[l] # "stopped"
  PROVE  /\ Cardinality(Claiming') \in Nat
         /\ Cardinality(Claiming') =
              IF s = "claiming" THEN Cardinality(Claiming) + 1 ELSE Cardinality(Claiming) - 1
<1>0. Cardinality(Claiming') \in Nat
  <2>1. Claiming' \subseteq Loops
    BY DEF Claiming
  <2> QED
    BY <2>1, SlotsAssumption, FS_Subset, FS_CardinalityType DEF SlotsAssumption
<1>1. CASE s = "claiming"
  <2>1. Claiming' = Claiming \cup {l} /\ l \notin Claiming
    BY <1>1 DEF TypeOK, Claiming
  <2>2. Cardinality(Claiming \cup {l}) = Cardinality(Claiming) + 1
    BY <2>1, HoldersFinite, FS_AddElement
  <2>3. Cardinality(Claiming') = Cardinality(Claiming \cup {l})
    BY <2>1, Zenon
  <2> QED
    BY <1>0, <1>1, <2>2, <2>3
<1>2. CASE s = "waiting"
  <2>1. Claiming' = Claiming \ {l} /\ l \in Claiming
    BY <1>2 DEF TypeOK, Claiming
  <2>2. Cardinality(Claiming \ {l}) = Cardinality(Claiming) - 1
    BY <2>1, HoldersFinite, FS_RemoveElement
  <2>3. Cardinality(Claiming') = Cardinality(Claiming \ {l})
    BY <2>1, Zenon
  <2> QED
    BY <1>0, <1>2, <2>2, <2>3
<1> QED
  BY <1>0, <1>1, <1>2

LEMMA OneWork ==
  ASSUME TypeOK, NEW w \in Work, NEW s \in {"inHand", "over"},
         work' = [work EXCEPT ![w] = s], s = "over" <=> work[w] = "inHand"
  PROVE  /\ Cardinality(InHand') \in Nat
         /\ Cardinality(InHand') =
              IF s = "inHand" THEN Cardinality(InHand) + 1 ELSE Cardinality(InHand) - 1
<1>0. Cardinality(InHand') \in Nat
  <2>1. InHand' \subseteq Work
    BY DEF InHand
  <2> QED
    BY <2>1, SlotsAssumption, FS_Subset, FS_CardinalityType DEF SlotsAssumption
<1>1. CASE s = "inHand"
  <2>1. InHand' = InHand \cup {w} /\ w \notin InHand
    BY <1>1 DEF TypeOK, InHand
  <2>2. Cardinality(InHand \cup {w}) = Cardinality(InHand) + 1
    BY <2>1, HoldersFinite, FS_AddElement
  <2>3. Cardinality(InHand') = Cardinality(InHand \cup {w})
    BY <2>1, Zenon
  <2> QED
    BY <1>0, <1>1, <2>2, <2>3
<1>2. CASE s = "over"
  <2>1. InHand' = InHand \ {w} /\ w \in InHand
    BY <1>2 DEF TypeOK, InHand
  <2>2. Cardinality(InHand \ {w}) = Cardinality(InHand) - 1
    BY <2>1, HoldersFinite, FS_RemoveElement
  <2>3. Cardinality(InHand') = Cardinality(InHand \ {w})
    BY <2>1, Zenon
  <2> QED
    BY <1>0, <1>2, <2>2, <2>3
<1> QED
  BY <1>0, <1>1, <1>2

\* The channel holds one token for every loop that is claiming and for every
\* piece of work in hand: no path of loop, agentRuntimeLoop or their goroutines
\* leaks a slot or gives back one that it does not hold.
THEOREM SlotsAccountedHolds == Spec => []SlotsAccounted
<1>1. Init => SlotsAccounted
  <2> SUFFICES ASSUME Init PROVE SlotsAccounted
    OBVIOUS
  <2>1. Claiming = {} /\ InHand = {}
    BY DEF Init, Claiming, InHand
  <2> QED
    BY <2>1, FS_EmptySet DEF Init, SlotsAccounted
<1>2. TypeOK /\ SlotsAccounted /\ [Next]_vars => SlotsAccounted'
  <2> SUFFICES ASSUME TypeOK, SlotsAccounted, [Next]_vars PROVE SlotsAccounted'
    OBVIOUS
  <2> USE HoldersFinite DEF SlotsAccounted
  <2>1. ASSUME NEW l \in Loops, TakeSlot(l) PROVE SlotsAccounted'
    <3>1. InHand' = InHand
      BY <2>1 DEF TakeSlot, InHand
    <3>2. Cardinality(Claiming') = Cardinality(Claiming) + 1
      BY <2>1, OneLoop DEF TakeSlot
    <3> QED
      BY <2>1, <3>1, <3>2 DEF TakeSlot
  <2>2. ASSUME NEW l \in Loops, ClaimMissed(l) PROVE SlotsAccounted'
    <3>1. InHand' = InHand
      BY <2>2 DEF ClaimMissed, InHand
    <3>2. Cardinality(Claiming') = Cardinality(Claiming) - 1 /\ Cardinality(Claiming') \in Nat
      BY <2>2, OneLoop DEF ClaimMissed
    <3> QED
      BY <2>2, <3>1, <3>2 DEF ClaimMissed, Release
  <2>3. ASSUME NEW l \in Loops, NEW w \in Work, ClaimLost(l, w) PROVE SlotsAccounted'
    <3>1. InHand' = InHand
      BY <2>3 DEF ClaimLost, InHand, TypeOK
    <3>2. Cardinality(Claiming') = Cardinality(Claiming) - 1 /\ Cardinality(Claiming') \in Nat
      BY <2>3, OneLoop DEF ClaimLost
    <3> QED
      BY <2>3, <3>1, <3>2 DEF ClaimLost, Release
  <2>4. ASSUME NEW l \in Loops, NEW w \in Work, Claimed(l, w) PROVE SlotsAccounted'
    <3>1. Cardinality(InHand') = Cardinality(InHand) + 1
      BY <2>4, OneWork DEF Claimed
    <3>2. Cardinality(Claiming') = Cardinality(Claiming) - 1
      BY <2>4, OneLoop DEF Claimed
    <3> QED
      BY <2>4, <3>1, <3>2 DEF Claimed
  <2>5. ASSUME NEW w \in Work, Finish(w) PROVE SlotsAccounted'
    <3>1. Claiming' = Claiming
      BY <2>5 DEF Finish, Claiming
    <3>2. Cardinality(InHand') = Cardinality(InHand) - 1 /\ Cardinality(InHand') \in Nat
      BY <2>5, OneWork DEF Finish
    <3> QED
      BY <2>5, <3>1, <3>2 DEF Finish, Release
  <2>6. ASSUME NEW l \in Loops, LoopStops(l) PROVE SlotsAccounted'
    <3>1. Claiming' = Claiming /\ InHand' = InHand
      BY <2>6 DEF LoopStops, Claiming, InHand, TypeOK
    <3> QED
      BY <2>6, <3>1 DEF LoopStops
  <2>7. CASE Shutdown \/ UNCHANGED vars
    BY <2>7 DEF Shutdown, vars, Claiming, InHand
  <2> QED
    BY <2>1, <2>2, <2>3, <2>4, <2>5, <2>6, <2>7 DEF Next
<1> QED
  BY <1>1, <1>2, TypeCorrect, PTL DEF Spec

\* max_concurrency bounds the work in hand and the claims under way together.
THEOREM WithinCapacityHolds == Spec => []WithinCapacity
<1>1. TypeOK /\ SlotsAccounted => WithinCapacity
  BY SlotsAssumption DEF SlotsAssumption, TypeOK, SlotsAccounted, WithinCapacity
<1> QED
  BY <1>1, TypeCorrect, SlotsAccountedHolds, PTL

-----------------------------------------------------------------------------
(* Counting.                                                               *)

\* Members come in and go out one at a time.
LEMMA OneMore ==
  ASSUME NEW S, NEW x, IsFiniteSet(S)
  PROVE  /\ Cardinality(S \cup {x}) \in Nat
         /\ Cardinality(S \cup {x}) <= Cardinality(S) + 1
         /\ x \notin S => Cardinality(S \cup {x}) = Cardinality(S) + 1
<1> DEFINE more == S \cup {x}
<1>1. IsFiniteSet(more) /\ Cardinality(more) = IF x \in S THEN Cardinality(S) ELSE Cardinality(S) + 1
  BY FS_AddElement, Zenon
<1>2. Cardinality(more) \in Nat /\ Cardinality(S) \in Nat
  BY <1>1, FS_CardinalityType
<1> HIDE DEF more
<1>3. /\ Cardinality(more) <= Cardinality(S) + 1
      /\ x \notin S => Cardinality(more) = Cardinality(S) + 1
  BY <1>1, <1>2
<1> QED
  BY <1>2, <1>3 DEF more

LEMMA OneLess ==
  ASSUME NEW S, NEW x \in S, IsFiniteSet(S)
  PROVE  Cardinality(S \ {x}) \in Nat /\ Cardinality(S \ {x}) = Cardinality(S) - 1
<1> DEFINE less == S \ {x}
<1>1. IsFiniteSet(less) /\ Cardinality(less) = IF x \in S THEN Cardinality(S) - 1 ELSE Cardinality(S)
  BY FS_RemoveElement, Zenon
<1> QED
  BY <1>1, FS_CardinalityType

-----------------------------------------------------------------------------
(* SSH sessions.                                                           *)

SshLive == {s \in SshStreams : SshSessions!Live(s)}
SshActive == {id \in SshIds : active[id] # "none"}

SshTypes ==
  /\ pending \subseteq SshIds /\ late \subseteq SshIds
  /\ active \in [SshIds -> SshStreams \cup {"none"}]
  /\ stream \in [SshStreams -> [pc : {"new", "open", "forward", "release"}, id : SshIds \cup {"none"},
                                canceled : BOOLEAN]]
  /\ closed \in BOOLEAN

\* A stream and its session know each other, and a staged session has no stream.
SshRegistered ==
  /\ \A s \in SshStreams : SshSessions!Live(s) => stream[s].id \in SshIds /\ active[stream[s].id] = s
  /\ \A id \in SshIds : active[id] # "none" => SshSessions!Live(active[id]) /\ stream[active[id]].id = id
  /\ \A id \in pending : active[id] = "none"

\* As many streams as sessions with one, and room for those that are staged.
SshCounted ==
  /\ Cardinality(SshLive) = Cardinality(SshActive)
  /\ Cardinality(pending) + Cardinality(SshActive) <= SshLimit

SshOver == closed => pending = {} /\ \A s \in SshStreams : SshSessions!Live(s) => stream[s].canceled

SshInv == SshTypes /\ SshRegistered /\ SshCounted /\ SshOver

\* The sessions count with the cardinality of their own module.
LEMMA SshCardinality == ASSUME NEW S PROVE SshSessions!Cardinality(S) = Cardinality(S)
BY Zenon DEF SshSessions!Cardinality, Cardinality

\* The sets of sessions and streams are finite.
LEMMA SshFinite ==
  ASSUME SshTypes
  PROVE  /\ IsFiniteSet(pending) /\ Cardinality(pending) \in Nat
         /\ IsFiniteSet(pending \ late) /\ Cardinality(pending \ late) \in Nat
         /\ Cardinality(pending \ late) <= Cardinality(pending)
         /\ IsFiniteSet(SshLive) /\ Cardinality(SshLive) \in Nat
         /\ IsFiniteSet(SshActive) /\ Cardinality(SshActive) \in Nat
<1>1. IsFiniteSet(pending)
  BY SshAssumption, FS_Subset DEF SshAssumption, SshTypes
<1>2. IsFiniteSet(SshLive)
  BY SshAssumption, FS_Subset DEF SshAssumption, SshLive
<1>3. IsFiniteSet(SshActive)
  BY SshAssumption, FS_Subset DEF SshAssumption, SshActive
<1>4. IsFiniteSet(pending \ late) /\ Cardinality(pending \ late) <= Cardinality(pending)
  <2>1. pending \ late \subseteq pending
    OBVIOUS
  <2> QED
    BY <1>1, <2>1, FS_Subset
<1> QED
  BY <1>1, <1>2, <1>3, <1>4, FS_CardinalityType

\* A server that has just started has neither sessions nor streams.
LEMMA SshInit == SshSessions!Init => SshInv
<1> SUFFICES ASSUME SshSessions!Init PROVE SshInv
  OBVIOUS
<1>0. /\ pending = {} /\ late = {} /\ closed = FALSE
      /\ active = [id \in SshIds |-> "none"]
      /\ stream = [s \in SshStreams |-> [pc |-> "new", id |-> "none", canceled |-> FALSE]]
  BY DEF SshSessions!Init, SshSessions!None, SshSessions!NewStream
<1>1. SshTypes
  BY <1>0 DEF SshTypes
<1>2. SshRegistered
  BY <1>0 DEF SshRegistered, SshSessions!Live
<1>3. SshLive = {} /\ SshActive = {}
  BY <1>0 DEF SshLive, SshActive, SshSessions!Live
<1>4. SshCounted
  BY <1>0, <1>3, FS_EmptySet, SshAssumption DEF SshCounted, SshAssumption
<1>5. SshOver
  BY <1>0 DEF SshOver
<1> QED
  BY <1>1, <1>2, <1>4, <1>5 DEF SshInv

\* A step that moves a stream on leaves the sessions and their number alone.
LEMMA SshMoves ==
  ASSUME SshInv, NEW s \in SshStreams, SshSessions!Live(s),
         NEW pc \in {"open", "forward", "release"}, NEW c \in BOOLEAN, stream[s].canceled => c,
         stream' = [stream EXCEPT ![s] = [pc |-> pc, id |-> stream[s].id, canceled |-> c]],
         UNCHANGED <<pending, late, active, closed>>
  PROVE  SshInv'
<1>0. SshTypes /\ SshRegistered /\ SshCounted /\ SshOver
  BY DEF SshInv
<1>1. /\ stream' \in [SshStreams -> [pc : {"new", "open", "forward", "release"},
                                     id : SshIds \cup {"none"}, canceled : BOOLEAN]]
      /\ \A t \in SshStreams : t # s => stream'[t] = stream[t]
      /\ stream'[s].pc = pc /\ stream'[s].id = stream[s].id /\ stream'[s].canceled = c
  BY <1>0 DEF SshTypes
<1>2. \A t \in SshStreams : /\ SshSessions!Live(t)' <=> SshSessions!Live(t)
                            /\ stream'[t].id = stream[t].id
                            /\ stream[t].canceled => stream'[t].canceled
  BY <1>1 DEF SshSessions!Live
<1>3. SshTypes'
  BY <1>0, <1>1 DEF SshTypes
<1>4. SshRegistered'
  BY <1>0, <1>2, SshAssumption DEF SshRegistered, SshTypes, SshAssumption
<1>5. SshLive' = SshLive /\ SshActive' = SshActive
  BY <1>2 DEF SshLive, SshActive
<1>6. SshCounted'
  BY <1>0, <1>5 DEF SshCounted
<1>7. SshOver'
  BY <1>0, <1>2 DEF SshOver
<1> QED
  BY <1>3, <1>4, <1>6, <1>7 DEF SshInv

\* One step per operation of the session store, one leaf per part of the invariant.
LEMMA SshStep == SshInv /\ SshSessions!Next => SshInv'
<1> SUFFICES ASSUME SshInv, SshSessions!Next PROVE SshInv'
  OBVIOUS
<1>0. SshTypes /\ SshRegistered /\ SshCounted /\ SshOver
  BY DEF SshInv
<1> DEFINE fresh == pending \ late
<1>f. /\ IsFiniteSet(fresh) /\ Cardinality(fresh) \in Nat /\ Cardinality(fresh) <= Cardinality(pending)
      /\ IsFiniteSet(pending) /\ Cardinality(pending) \in Nat
      /\ IsFiniteSet(SshLive) /\ Cardinality(SshLive) \in Nat
      /\ IsFiniteSet(SshActive) /\ Cardinality(SshActive) \in Nat /\ SshLimit \in Nat
  BY <1>0, SshFinite, SshAssumption DEF SshAssumption
<1>1. ASSUME NEW id \in SshIds, SshSessions!Stage(id) PROVE SshInv'
  <2>1. /\ late' = {} /\ UNCHANGED <<active, stream, closed>>
        /\ pending' = IF ~closed /\ SshSessions!Taken < SshLimit /\ SshSessions!Free(id)
                      THEN fresh \cup {id} ELSE fresh
    BY <1>1 DEF SshSessions!Stage
  <2>2. /\ SshTypes'
        /\ SshLive' = SshLive /\ SshActive' = SshActive
    BY <1>0, <2>1 DEF SshTypes, SshLive, SshActive, SshSessions!Live
  <2>3. CASE pending' = fresh
    <3>1. SshRegistered' /\ SshOver'
      BY <1>0, <2>1, <2>3 DEF SshRegistered, SshOver, SshSessions!Live
    <3>2. Cardinality(pending') = Cardinality(fresh)
      BY <2>3, Zenon
    <3>3. SshCounted'
      BY <1>0, <1>f, <2>2, <3>2 DEF SshCounted
    <3> QED
      BY <2>2, <3>1, <3>3 DEF SshInv
  <2>4. CASE pending' = fresh \cup {id} /\ ~closed /\ SshSessions!Taken < SshLimit /\ SshSessions!Free(id)
    <3>1. active[id] = "none"
      BY <2>4 DEF SshSessions!Free, SshSessions!None
    <3>2. SshRegistered' /\ SshOver'
      BY <1>0, <2>1, <2>4, <3>1 DEF SshRegistered, SshOver, SshSessions!Live
    <3>3. SshSessions!Taken = Cardinality(fresh) + Cardinality(SshActive)
      <4>1. {i \in SshIds : active[i] # SshSessions!None} = SshActive
        BY DEF SshActive, SshSessions!None
      <4> QED
        BY <4>1, SshCardinality, Zenon DEF SshSessions!Taken
    <3>4. Cardinality(pending') \in Nat /\ Cardinality(pending') <= Cardinality(fresh) + 1
      <4>1. Cardinality(fresh \cup {id}) \in Nat /\ Cardinality(fresh \cup {id}) <= Cardinality(fresh) + 1
        BY <1>f, OneMore
      <4>2. Cardinality(pending') = Cardinality(fresh \cup {id})
        BY <2>4, Zenon
      <4> QED
        BY <4>1, <4>2
    <3>5. Cardinality(pending') + Cardinality(SshActive) <= SshLimit
      BY <1>f, <2>4, <3>3, <3>4
    <3>6. SshCounted'
      BY <1>0, <2>2, <3>5 DEF SshCounted
    <3> QED
      BY <2>2, <3>2, <3>6 DEF SshInv
  <2> QED
    BY <2>1, <2>3, <2>4
<1>2. ASSUME NEW id \in SshIds, SshSessions!StageExpires(id) PROVE SshInv'
  <2>1. late' \subseteq SshIds /\ UNCHANGED <<pending, active, stream, closed>>
    BY <1>0, <1>2 DEF SshSessions!StageExpires, SshTypes
  <2> QED
    BY <1>0, <2>1 DEF SshInv, SshTypes, SshRegistered, SshCounted, SshOver, SshLive, SshActive, SshSessions!Live
<1>3. ASSUME NEW s \in SshStreams, NEW id \in SshIds, SshSessions!Claim(s, id) PROVE SshInv'
  <2>1. /\ stream[s].pc = "new" /\ pending' = pending \ {id} /\ late' = late \ {id} /\ UNCHANGED closed
        /\ IF id \in pending \ late /\ ~closed
           THEN /\ active' = [active EXCEPT ![id] = s]
                /\ stream' = [stream EXCEPT ![s] = [pc |-> "open", id |-> id, canceled |-> FALSE]]
           ELSE UNCHANGED <<active, stream>>
    BY <1>3 DEF SshSessions!Claim
  <2>2. CASE ~(id \in pending \ late /\ ~closed)
    <3>1. UNCHANGED <<active, stream>>
      BY <2>1, <2>2
    <3>2. SshTypes' /\ SshRegistered' /\ SshOver' /\ SshLive' = SshLive /\ SshActive' = SshActive
      BY <1>0, <2>1, <3>1
         DEF SshTypes, SshRegistered, SshOver, SshLive, SshActive, SshSessions!Live
    <3>3. Cardinality(pending') <= Cardinality(pending) /\ Cardinality(pending') \in Nat
      BY <1>f, <2>1, FS_Subset, FS_CardinalityType
    <3>4. SshCounted'
      BY <1>0, <1>f, <3>2, <3>3 DEF SshCounted
    <3> QED
      BY <3>2, <3>4 DEF SshInv
  <2>3. CASE id \in pending \ late /\ ~closed
    <3>1. /\ active' = [active EXCEPT ![id] = s]
          /\ stream' = [stream EXCEPT ![s] = [pc |-> "open", id |-> id, canceled |-> FALSE]]
          /\ active[id] = "none" /\ s # "none"
      BY <1>0, <2>1, <2>3, SshAssumption DEF SshRegistered, SshAssumption
    <3>2. /\ active' \in [SshIds -> SshStreams \cup {"none"}] /\ active'[id] = s
          /\ \A i \in SshIds : i # id => active'[i] = active[i]
      BY <1>0, <3>1 DEF SshTypes
    <3>3. /\ stream' \in [SshStreams -> [pc : {"new", "open", "forward", "release"},
                                         id : SshIds \cup {"none"}, canceled : BOOLEAN]]
          /\ \A t \in SshStreams : t # s => stream'[t] = stream[t]
          /\ stream'[s].pc = "open" /\ stream'[s].id = id
      BY <1>0, <3>1 DEF SshTypes
    <3>4. SshTypes'
      BY <1>0, <2>1, <3>2, <3>3 DEF SshTypes
    <3>5. ~SshSessions!Live(s) /\ SshSessions!Live(s)'
          /\ \A t \in SshStreams : t # s => (SshSessions!Live(t)' <=> SshSessions!Live(t))
      BY <2>1, <3>3 DEF SshSessions!Live
    <3>6. SshRegistered'
      <4>1. \A t \in SshStreams : SshSessions!Live(t)' => stream'[t].id \in SshIds /\ active'[stream'[t].id] = t
        BY <1>0, <3>1, <3>2, <3>3, <3>5, SshAssumption DEF SshRegistered, SshAssumption
      <4>2. \A i \in SshIds : active'[i] # "none" => stream'[active'[i]].pc # "new" /\ stream'[active'[i]].id = i
        <5> SUFFICES ASSUME NEW i \in SshIds, active'[i] # "none"
                     PROVE  stream'[active'[i]].pc # "new" /\ stream'[active'[i]].id = i
          OBVIOUS
        <5>1. CASE i = id
          BY <3>2, <3>3, <5>1
        <5>2. CASE i # id
          <6>1. active'[i] = active[i] /\ active[i] \in SshStreams /\ stream[active[i]].pc # "new"
                /\ stream[active[i]].id = i
            BY <1>0, <3>2, <5>2 DEF SshRegistered, SshTypes, SshSessions!Live
          <6>2. active[i] # s
            BY <2>1, <6>1
          <6> QED
            BY <3>3, <6>1, <6>2
        <5> QED
          BY <5>1, <5>2
      <4>3. \A i \in pending' : active'[i] = "none"
        BY <1>0, <2>1, <3>2 DEF SshRegistered, SshTypes
      <4> QED
        BY <4>1, <4>2, <4>3 DEF SshRegistered, SshSessions!Live
    <3>7. SshCounted'
      <4>1. SshLive' = SshLive \cup {s} /\ s \notin SshLive
        BY <3>5 DEF SshLive
      <4>2. SshActive' = SshActive \cup {id} /\ id \notin SshActive
        BY <3>1, <3>2 DEF SshActive
      <4>3. Cardinality(SshLive \cup {s}) = Cardinality(SshLive) + 1
        BY <1>f, <4>1, OneMore
      <4>4. Cardinality(SshActive \cup {id}) = Cardinality(SshActive) + 1
        BY <1>f, <4>2, OneMore
      <4>5. Cardinality(pending \ {id}) = Cardinality(pending) - 1
        BY <1>f, <2>3, OneLess
      <4>6. /\ Cardinality(SshLive') = Cardinality(SshLive) + 1
            /\ Cardinality(SshActive') = Cardinality(SshActive) + 1
            /\ Cardinality(pending') = Cardinality(pending) - 1
        BY <2>1, <4>1, <4>2, <4>3, <4>4, <4>5, Zenon
      <4> QED
        BY <1>0, <1>f, <4>6 DEF SshCounted
    <3>8. SshOver'
      BY <2>1, <2>3 DEF SshOver
    <3> QED
      BY <3>4, <3>6, <3>7, <3>8 DEF SshInv
  <2> QED
    BY <2>2, <2>3
<1>4. ASSUME NEW s \in SshStreams,
             SshSessions!SessionExpires(s) \/ SshSessions!OpenPTY(s) \/ SshSessions!StreamOver(s)
      PROVE  SshInv'
  <2>1. stream \in [SshStreams -> [pc : {"new", "open", "forward", "release"},
                                     id : SshIds \cup {"none"}, canceled : BOOLEAN]]
    BY <1>0 DEF SshTypes
  <2>2. SshSessions!Live(s) /\ UNCHANGED <<pending, late, active, closed>>
    BY <1>4 DEF SshSessions!SessionExpires, SshSessions!OpenPTY, SshSessions!StreamOver, SshSessions!Live
  <2>3. \E pc \in {"open", "forward", "release"}, c \in BOOLEAN :
          /\ stream[s].canceled => c
          /\ stream' = [stream EXCEPT ![s] = [pc |-> pc, id |-> stream[s].id, canceled |-> c]]
    <3>1. CASE SshSessions!SessionExpires(s)
      <4>1. stream' = [stream EXCEPT ![s] = [stream[s] EXCEPT !.canceled = TRUE]]
        BY <3>1 DEF SshSessions!SessionExpires
      <4>2. [stream[s] EXCEPT !.canceled = TRUE] = [pc |-> stream[s].pc, id |-> stream[s].id, canceled |-> TRUE]
        <5>1. ASSUME NEW c \in BOOLEAN
              PROVE  [stream[s] EXCEPT !.canceled = c] = [pc |-> stream[s].pc, id |-> stream[s].id, canceled |-> c]
          BY <2>1
        <5> QED
          BY <5>1
      <4>3. stream[s].pc \in {"open", "forward", "release"} /\ TRUE \in BOOLEAN
        BY <3>1 DEF SshSessions!SessionExpires
      <4> QED
        BY <4>1, <4>2, <4>3
    <3>2. CASE SshSessions!OpenPTY(s)
      <4>1. stream[s].canceled \in BOOLEAN /\ \E pc \in {"forward", "release"} :
              stream' = [stream EXCEPT ![s] = [pc |-> pc, id |-> stream[s].id, canceled |-> stream[s].canceled]]
        BY <2>1, <3>2 DEF SshSessions!OpenPTY
      <4> QED
        BY <4>1
    <3>3. CASE SshSessions!StreamOver(s)
      <4>1. stream' = [stream EXCEPT ![s] = [stream[s] EXCEPT !.pc = "release"]]
        BY <3>3 DEF SshSessions!StreamOver
      <4>2. [stream[s] EXCEPT !.pc = "release"]
              = [pc |-> "release", id |-> stream[s].id, canceled |-> stream[s].canceled]
        BY <2>1
      <4>3. stream[s].canceled \in BOOLEAN
        BY <2>1
      <4> QED
        BY <4>1, <4>2, <4>3
    <3> QED
      BY <1>4, <3>1, <3>2, <3>3
  <2> QED
    BY <2>2, <2>3, SshMoves
<1>5. ASSUME NEW s \in SshStreams, SshSessions!ReleaseSession(s) PROVE SshInv'
  <2> DEFINE id == stream[s].id
  <2>1. /\ stream[s].pc = "release" /\ active' = [active EXCEPT ![id] = "none"]
        /\ stream' = [stream EXCEPT ![s] = [pc |-> "new", id |-> "none", canceled |-> FALSE]]
        /\ UNCHANGED <<pending, late, closed>>
    BY <1>5 DEF SshSessions!ReleaseSession, SshSessions!None, SshSessions!NewStream
  <2>2. SshSessions!Live(s) /\ id \in SshIds /\ active[id] = s /\ s # "none"
    BY <1>0, <2>1, SshAssumption DEF SshRegistered, SshSessions!Live, SshAssumption
  <2> HIDE DEF id
  <2>3. /\ active' \in [SshIds -> SshStreams \cup {"none"}] /\ active'[id] = "none"
        /\ \A i \in SshIds : i # id => active'[i] = active[i]
    BY <1>0, <2>1, <2>2 DEF SshTypes
  <2>4. /\ stream' \in [SshStreams -> [pc : {"new", "open", "forward", "release"},
                                       id : SshIds \cup {"none"}, canceled : BOOLEAN]]
        /\ \A t \in SshStreams : t # s => stream'[t] = stream[t]
        /\ stream'[s].pc = "new"
    BY <1>0, <2>1 DEF SshTypes
  <2>5. ~SshSessions!Live(s)' /\ \A t \in SshStreams : t # s => (SshSessions!Live(t)' <=> SshSessions!Live(t))
    BY <2>4 DEF SshSessions!Live
  <2>6. SshTypes'
    BY <1>0, <2>1, <2>3, <2>4 DEF SshTypes
  <2>7. SshRegistered'
    <3>1. \A t \in SshStreams : SshSessions!Live(t)' => stream'[t].id \in SshIds /\ active'[stream'[t].id] = t
      BY <1>0, <2>2, <2>3, <2>4, <2>5 DEF SshRegistered
    <3>2. \A i \in SshIds : active'[i] # "none" => stream'[active'[i]].pc # "new" /\ stream'[active'[i]].id = i
      <4> SUFFICES ASSUME NEW i \in SshIds, active'[i] # "none"
                   PROVE  stream'[active'[i]].pc # "new" /\ stream'[active'[i]].id = i
        OBVIOUS
      <4>1. i # id /\ active'[i] = active[i] /\ active[i] \in SshStreams /\ stream[active[i]].pc # "new"
            /\ stream[active[i]].id = i
        BY <1>0, <2>3 DEF SshRegistered, SshTypes, SshSessions!Live
      <4>2. active[i] # s
        BY <4>1 DEF id
      <4> QED
        BY <2>4, <4>1, <4>2
    <3>3. \A i \in pending' : active'[i] = "none"
      BY <1>0, <2>1, <2>3 DEF SshRegistered, SshTypes
    <3> QED
      BY <3>1, <3>2, <3>3 DEF SshRegistered, SshSessions!Live
  <2>8. SshCounted'
    <3>1. SshLive' = SshLive \ {s} /\ s \in SshLive
      BY <2>2, <2>5 DEF SshLive
    <3>2. SshActive' = SshActive \ {id} /\ id \in SshActive
      BY <2>2, <2>3 DEF SshActive
    <3>3. Cardinality(SshLive \ {s}) = Cardinality(SshLive) - 1
      BY <1>f, <3>1, OneLess
    <3>4. Cardinality(SshActive \ {id}) = Cardinality(SshActive) - 1
      BY <1>f, <3>2, OneLess
    <3>5. /\ Cardinality(SshLive') = Cardinality(SshLive) - 1
          /\ Cardinality(SshActive') = Cardinality(SshActive) - 1
          /\ Cardinality(pending') = Cardinality(pending)
      BY <2>1, <3>1, <3>2, <3>3, <3>4, Zenon
    <3> QED
      BY <1>0, <1>f, <3>5 DEF SshCounted
  <2>9. SshOver'
    BY <1>0, <2>1, <2>4, <2>5 DEF SshOver
  <2> QED
    BY <2>6, <2>7, <2>8, <2>9 DEF SshInv
<1>6. CASE SshSessions!Close
  <2>1. /\ closed' = TRUE /\ pending' = {} /\ late' = {} /\ UNCHANGED active
        /\ stream' = [s \in SshStreams |->
             IF \E id \in SshIds : active[id] = s THEN [stream[s] EXCEPT !.canceled = TRUE] ELSE stream[s]]
    BY <1>6 DEF SshSessions!Close
  <2>2. stream \in [SshStreams -> [pc : {"new", "open", "forward", "release"},
                                     id : SshIds \cup {"none"}, canceled : BOOLEAN]]
    BY <1>0 DEF SshTypes
  <2>3. \A s \in SshStreams :
          /\ stream'[s] \in [pc : {"new", "open", "forward", "release"}, id : SshIds \cup {"none"}, canceled : BOOLEAN]
          /\ stream'[s].pc = stream[s].pc /\ stream'[s].id = stream[s].id
          /\ (\E id \in SshIds : active[id] = s) => stream'[s].canceled
    BY <2>1, <2>2
  <2>4. SshTypes'
    BY <1>0, <2>1, <2>3 DEF SshTypes
  <2>5. \A s \in SshStreams : SshSessions!Live(s)' <=> SshSessions!Live(s)
    BY <2>3 DEF SshSessions!Live
  <2>6. SshRegistered'
    BY <1>0, <2>1, <2>3, <2>5 DEF SshRegistered, SshTypes
  <2>7. SshOver'
    BY <1>0, <2>1, <2>3, <2>5 DEF SshOver, SshRegistered
  <2>8. SshLive' = SshLive /\ SshActive' = SshActive
    BY <2>1, <2>5 DEF SshLive, SshActive
  <2>9. SshCounted'
    <3>1. Cardinality(pending') = 0
      BY <2>1, FS_EmptySet
    <3> QED
      BY <1>0, <1>f, <2>8, <3>1 DEF SshCounted
  <2> QED
    BY <2>4, <2>6, <2>7, <2>9 DEF SshInv
<1> QED
  BY <1>1, <1>2, <1>3, <1>4, <1>5, <1>6 DEF SshSessions!Next

\* The sessions stand while another part moves.
LEMMA SshStands == SshInv /\ UNCHANGED sVars => SshInv'
BY DEF sVars, SshInv, SshTypes, SshRegistered, SshCounted, SshOver, SshLive, SshActive, SshSessions!Live

\* The invariant, in the cardinality of the module, is what SshSessions promises.
LEMMA SshPromise == SshInv => SshSessions!SessionsRegistered
<1> SUFFICES ASSUME SshInv PROVE SshSessions!SessionsRegistered
  OBVIOUS
<1>1. SshTypes /\ SshRegistered /\ SshCounted /\ SshOver
  BY DEF SshInv
<1>2. SshSessions!Cardinality(pending) = Cardinality(pending)
  BY SshCardinality
<1>3. SshSessions!Cardinality({s \in SshStreams : SshSessions!Live(s)}) = Cardinality(SshLive)
  BY SshCardinality DEF SshLive
<1> QED
  BY <1>1, <1>2, <1>3 DEF SshSessions!SessionsRegistered, SshRegistered, SshCounted, SshOver

-----------------------------------------------------------------------------
(* Port forwards.                                                          *)

ForwardInv ==
  /\ request \in [Forwards -> {"new", "waiting", "ready", "answered", "failed"}]
  /\ forwarding \in [Forwards -> {"none", "starting", "listening", "ended"}]
  /\ PortForwards!NoForwardLeaks

\* No forward, none that runs.
LEMMA ForwardInit == PortForwards!Init => ForwardInv
BY DEF PortForwards!Init, ForwardInv, PortForwards!NoForwardLeaks

\* Whoever lets go of a running forward has stopped it, or handed it on.
LEMMA ForwardStep == ForwardInv /\ PortForwards!Next => ForwardInv'
<1> SUFFICES ASSUME ForwardInv, PortForwards!Next PROVE ForwardInv'
  OBVIOUS
<1> USE DEF ForwardInv, PortForwards!NoForwardLeaks, PortForwards!Answer, PortForwards!Goes, PortForwards!Stop
<1>1. ASSUME NEW f \in Forwards, PortForwards!Resolve(f) PROVE ForwardInv'
  BY <1>1 DEF PortForwards!Resolve
<1>2. ASSUME NEW f \in Forwards, PortForwards!BecomesReady(f) PROVE ForwardInv'
  BY <1>2 DEF PortForwards!BecomesReady
<1>3. ASSUME NEW f \in Forwards, PortForwards!EndsEarly(f) PROVE ForwardInv'
  BY <1>3 DEF PortForwards!EndsEarly
<1>4. ASSUME NEW f \in Forwards, PortForwards!GivesUp(f) PROVE ForwardInv'
  BY <1>4 DEF PortForwards!GivesUp, PortForwards!StopUnready
<1>5. ASSUME NEW f \in Forwards, PortForwards!Register(f) PROVE ForwardInv'
  BY <1>5 DEF PortForwards!Register
<1>6. ASSUME NEW f \in Forwards, PortForwards!Delete(f) PROVE ForwardInv'
  BY <1>6 DEF PortForwards!Delete
<1>7. ASSUME NEW f \in Forwards, PortForwards!StopDeleted(f) PROVE ForwardInv'
  BY <1>7 DEF PortForwards!StopDeleted
<1>8. ASSUME NEW f \in Forwards, PortForwards!Listen(f) PROVE ForwardInv'
  BY <1>8 DEF PortForwards!Listen
<1>9. ASSUME NEW f \in Forwards, PortForwards!ForwardFails(f) \/ PortForwards!ForwardStops(f) PROVE ForwardInv'
  BY <1>9 DEF PortForwards!ForwardFails, PortForwards!ForwardStops
<1>10. ASSUME NEW t \in Tunnels, \/ \E f \in Forwards : PortForwards!Get(t, f)
                                \/ PortForwards!Dial(t) \/ PortForwards!BridgeEnds(t) \/ PortForwards!ClientLeaves(t)
       PROVE  ForwardInv'
  <2>1. UNCHANGED <<request, forwarding, stopped, listed, deleting>>
    BY <1>10 DEF PortForwards!Get, PortForwards!Dial, PortForwards!BridgeEnds, PortForwards!ClientLeaves
  <2> QED
    BY <2>1
<1> QED
  BY <1>1, <1>2, <1>3, <1>4, <1>5, <1>6, <1>7, <1>8, <1>9, <1>10 DEF PortForwards!Next

-----------------------------------------------------------------------------
(* The streams of the session.                                             *)

Carried == {s \in StreamIds : SessionTunnel!Running(s)}
TunnelInv ==
  /\ streams \in [StreamIds -> [at : {"unopened", "dialing", "proxying", "closed"}, over : Nat]]
  /\ connects \in Nat
  /\ SessionTunnel!StreamsBounded

\* The streams count with the cardinality of their own module.
LEMMA TunnelCardinality == ASSUME NEW S PROVE SessionTunnel!Cardinality(S) = Cardinality(S)
BY Zenon DEF SessionTunnel!Cardinality, Cardinality

\* The promise, in the cardinality of the proofs, before a step and after it.
LEMMA TokensCarried ==
  /\ SessionTunnel!StreamsBounded <=> tokens = Cardinality(Carried) /\ tokens <= MaxStreams
  /\ (SessionTunnel!StreamsBounded)' <=> tokens' = Cardinality(Carried') /\ tokens' <= MaxStreams
  /\ IsFiniteSet(Carried) /\ Cardinality(Carried) \in Nat
<1>1. /\ SessionTunnel!Cardinality(Carried) = Cardinality(Carried)
      /\ SessionTunnel!Cardinality(Carried') = Cardinality(Carried')
  BY TunnelCardinality
<1>2. SessionTunnel!StreamsBounded <=> tokens = Cardinality(Carried) /\ tokens <= MaxStreams
  BY <1>1, Zenon DEF SessionTunnel!StreamsBounded, Carried
<1>3. (SessionTunnel!StreamsBounded)' <=> tokens' = Cardinality(Carried') /\ tokens' <= MaxStreams
  BY <1>1, Zenon DEF SessionTunnel!StreamsBounded, Carried
<1>4. IsFiniteSet(Carried)
  BY TunnelAssumption, FS_Subset DEF TunnelAssumption, Carried
<1> QED
  BY <1>2, <1>3, <1>4, FS_CardinalityType

\* The semaphore is empty before the first connection.
LEMMA TunnelInit == SessionTunnel!Init => TunnelInv
<1> SUFFICES ASSUME SessionTunnel!Init PROVE TunnelInv
  OBVIOUS
<1>1. streams = [s \in StreamIds |-> [at |-> "unopened", over |-> 0]] /\ tokens = 0 /\ connects = 0
  BY DEF SessionTunnel!Init
<1>2. Carried = {}
  BY <1>1 DEF Carried, SessionTunnel!Running
<1>3. tokens = Cardinality(Carried) /\ tokens <= MaxStreams
  BY <1>1, <1>2, FS_EmptySet, TunnelAssumption DEF TunnelAssumption
<1> QED
  BY <1>1, <1>3, TokensCarried DEF TunnelInv

\* Tokens are taken and given back with the streams, whatever becomes of the connection.
LEMMA TunnelStep == TunnelInv /\ SessionTunnel!Next => TunnelInv'
<1> SUFFICES ASSUME TunnelInv, SessionTunnel!Next PROVE TunnelInv'
  OBVIOUS
<1> DEFINE StreamType == [at : {"unopened", "dialing", "proxying", "closed"}, over : Nat]
<1>0. /\ streams \in [StreamIds -> StreamType] /\ connects \in Nat
      /\ tokens = Cardinality(Carried) /\ tokens <= MaxStreams
      /\ tokens \in Nat /\ MaxStreams \in Nat
  BY TokensCarried, TunnelAssumption DEF TunnelInv, TunnelAssumption
<1>P. (SessionTunnel!StreamsBounded)' <=> tokens' = Cardinality(Carried') /\ tokens' <= MaxStreams
  BY TokensCarried
<1>1. ASSUME UNCHANGED <<streams, tokens>>, connects' \in Nat PROVE TunnelInv'
  <2>1. Carried' = Carried
    BY <1>1 DEF Carried, SessionTunnel!Running
  <2> QED
    BY <1>0, <1>1, <1>P, <2>1 DEF TunnelInv
<1>2. CASE \/ SessionTunnel!Shutdown \/ SessionTunnel!ManagerEnds \/ SessionTunnel!RuntimeReady
           \/ SessionTunnel!Breaks \/ SessionTunnel!Disconnected \/ SessionTunnel!Reconnect
  BY <1>0, <1>1, <1>2 DEF SessionTunnel!Shutdown, SessionTunnel!ManagerEnds, SessionTunnel!RuntimeReady,
     SessionTunnel!Breaks, SessionTunnel!Disconnected, SessionTunnel!Reconnect
<1>3. CASE SessionTunnel!Connect
  BY <1>0, <1>1, <1>3 DEF SessionTunnel!Connect
\* A stream that takes no token, or gives its token back.
<1>4. ASSUME NEW s \in StreamIds, streams[s].at = "unopened", UNCHANGED <<tokens, connects>>,
             streams' = [streams EXCEPT ![s].at = "closed"]
      PROVE  TunnelInv'
  <2>1. /\ streams' \in [StreamIds -> StreamType] /\ streams'[s].at = "closed"
        /\ \A t \in StreamIds : t # s => streams'[t] = streams[t]
    BY <1>0, <1>4
  <2>2. Carried' = Carried
    BY <1>4, <2>1 DEF Carried, SessionTunnel!Running
  <2> QED
    BY <1>0, <1>4, <1>P, <2>1, <2>2 DEF TunnelInv
<1>5. ASSUME NEW s \in StreamIds, SessionTunnel!Running(s), SessionTunnel!Finish(s) PROVE TunnelInv'
  <2>1. /\ streams' \in [StreamIds -> StreamType] /\ streams'[s].at = "closed"
        /\ \A t \in StreamIds : t # s => streams'[t] = streams[t]
        /\ tokens' = tokens - 1 /\ connects' = connects
    BY <1>0, <1>5 DEF SessionTunnel!Finish
  <2>2. Carried' = Carried \ {s} /\ s \in Carried
    BY <1>5, <2>1 DEF Carried, SessionTunnel!Running
  <2>3. Cardinality(Carried \ {s}) = Cardinality(Carried) - 1
    BY <2>2, OneLess, TokensCarried
  <2>4. Cardinality(Carried') = Cardinality(Carried) - 1
    BY <2>2, <2>3, Zenon
  <2>5. tokens' = Cardinality(Carried') /\ tokens' <= MaxStreams
    BY <1>0, <2>1, <2>4
  <2> QED
    BY <1>0, <1>P, <2>1, <2>5 DEF TunnelInv
<1>6. ASSUME NEW s \in StreamIds, SessionTunnel!Accept(s) PROVE TunnelInv'
  <2>0. connects' = connects /\ streams[s].at = "unopened"
    BY <1>6 DEF SessionTunnel!Accept
  <2>1. CASE /\ tokens < MaxStreams /\ tokens' = tokens + 1
             /\ streams' = [streams EXCEPT ![s] = [at |-> "dialing", over |-> connects]]
    <3>1. /\ streams' \in [StreamIds -> StreamType] /\ streams'[s].at = "dialing"
          /\ \A t \in StreamIds : t # s => streams'[t] = streams[t]
      BY <1>0, <2>1
    <3>2. Carried' = Carried \cup {s} /\ s \notin Carried
      BY <2>0, <3>1 DEF Carried, SessionTunnel!Running
    <3>3. Cardinality(Carried \cup {s}) = Cardinality(Carried) + 1
      BY <3>2, OneMore, TokensCarried
    <3>4. Cardinality(Carried') = Cardinality(Carried) + 1
      BY <3>2, <3>3, Zenon
    <3>5. tokens' = Cardinality(Carried') /\ tokens' <= MaxStreams
      BY <1>0, <2>1, <3>4
    <3> QED
      BY <1>0, <1>P, <2>0, <3>1, <3>5 DEF TunnelInv
  <2>2. CASE streams' = [streams EXCEPT ![s].at = "closed"] /\ UNCHANGED tokens
    BY <1>4, <2>0, <2>2
  <2> QED
    BY <1>6, <2>1, <2>2 DEF SessionTunnel!Accept, SessionTunnel!HasRoom
<1>7. ASSUME NEW s \in StreamIds, SessionTunnel!DialRuntime(s) PROVE TunnelInv'
  <2>1. CASE streams[s].at = "dialing" /\ streams' = [streams EXCEPT ![s].at = "proxying"]
             /\ UNCHANGED <<connects, tokens>>
    <3>1. /\ streams' \in [StreamIds -> StreamType] /\ streams'[s].at = "proxying"
          /\ \A t \in StreamIds : t # s => streams'[t] = streams[t]
      BY <1>0, <2>1
    <3>2. Carried' = Carried
      BY <2>1, <3>1 DEF Carried, SessionTunnel!Running
    <3> QED
      BY <1>0, <1>P, <2>1, <3>1, <3>2 DEF TunnelInv
  <2>2. CASE streams[s].at = "dialing" /\ SessionTunnel!Finish(s)
    BY <1>5, <2>2 DEF SessionTunnel!Running
  <2> QED
    BY <1>7, <2>1, <2>2 DEF SessionTunnel!DialRuntime
<1>8. ASSUME NEW s \in StreamIds, SessionTunnel!PeerCloses(s) \/ SessionTunnel!StreamCut(s) PROVE TunnelInv'
  BY <1>5, <1>8 DEF SessionTunnel!PeerCloses, SessionTunnel!StreamCut, SessionTunnel!Running
<1> QED
  BY <1>2, <1>3, <1>6, <1>7, <1>8 DEF SessionTunnel!Next

-----------------------------------------------------------------------------
(* Requests to the Docker runtime.                                         *)

TidyInv ==
  /\ dHandler \in {"init", "prepare", "start", "waiting", "closing", "over"}
  /\ dHandler \in {"init", "prepare", "over"} => ~dir
  /\ dHandler \in {"init", "prepare", "start"} => cmd = "none"
  /\ dHandler \in {"closing", "over"} => cmd \in {"none", "exited"}

\* A request that has not begun has nothing.
LEMMA TidyInit == DockerRuntime!Init => TidyInv
BY DEF DockerRuntime!Init, TidyInv

\* The deferred calls run on every path out of the handler.
LEMMA TidyStep == TidyInv /\ DockerRuntime!Next => TidyInv'
<1> SUFFICES ASSUME TidyInv, DockerRuntime!Next PROVE TidyInv'
  OBVIOUS
<1> USE DEF TidyInv, DockerRuntime!inputVars, DockerRuntime!output, DockerRuntime!request
<1>1. CASE DockerRuntime!Refuse \/ DockerRuntime!Accept
  BY <1>1 DEF DockerRuntime!Refuse, DockerRuntime!Accept
<1>2. CASE DockerRuntime!Prepare \/ DockerRuntime!Start
  BY <1>2 DEF DockerRuntime!Prepare, DockerRuntime!Start
<1>3. CASE DockerRuntime!RequestEnds
  BY <1>3 DEF DockerRuntime!RequestEnds, DockerRuntime!Cancels
<1>4. CASE DockerRuntime!CommandWrites \/ DockerRuntime!CommandReads \/ DockerRuntime!CommandEnds
  BY <1>4 DEF DockerRuntime!CommandWrites, DockerRuntime!CommandReads, DockerRuntime!CommandEnds
<1>5. CASE DockerRuntime!WaitReturns \/ DockerRuntime!Return
  BY <1>5 DEF DockerRuntime!WaitReturns, DockerRuntime!Return, DockerRuntime!RemovesDir
<1>6. CASE DockerRuntime!ReadOutput \/ DockerRuntime!SendOutput
  BY <1>6 DEF DockerRuntime!ReadOutput, DockerRuntime!SendOutput
<1>7. CASE DockerRuntime!ReadMessage \/ DockerRuntime!ClientGoes
  BY <1>7 DEF DockerRuntime!ReadMessage, DockerRuntime!ClientGoes
<1>8. CASE DockerRuntime!WriteInput
  BY <1>8 DEF DockerRuntime!WriteInput, DockerRuntime!Cancels
<1>9. CASE DockerRuntime!InputEnds
  BY <1>9 DEF DockerRuntime!InputEnds, DockerRuntime!CancelsCommand, DockerRuntime!Cancels
<1> QED
  BY <1>1, <1>2, <1>3, <1>4, <1>5, <1>6, <1>7, <1>8, <1>9 DEF DockerRuntime!Next

-----------------------------------------------------------------------------
(* The volumes that a request reads in.                                    *)

\* One name more, or one less.
LEMMA AfterType ==
  ASSUME NEW Names, NEW at \in Seq(Names), NEW name \in Names
  PROVE  DockerRuntime!After(at, name) \in Seq(Names)
<1>1. Append(at, name) \in Seq(Names)
  OBVIOUS
<1>2. at # <<>> => DockerRuntime!Front(at) \in Seq(Names)
  <2> SUFFICES ASSUME at # <<>> PROVE SubSeq(at, 1, Len(at) - 1) \in Seq(Names)
    BY DEF DockerRuntime!Front
  <2>1. \A i \in 1..(Len(at) - 1) : at[i] \in Names
    OBVIOUS
  <2> QED
    BY <2>1
<1> QED
  BY <1>1, <1>2, Zenon DEF DockerRuntime!After

\* A path that is cleaned is a path: Clean keeps to the names of what it is given.
LEMMA CleanType ==
  ASSUME NEW Names, NEW path \in Seq(Names)
  PROVE  DockerRuntime!Clean(path) \in Seq(Names)
<1> DEFINE N == Len(path)
           Step(f, n) == IF n = 0 THEN <<>> ELSE DockerRuntime!After(f[n - 1], path[n])
           Cleans(f, m) == f = [n \in 0..m |-> f[n]] /\ \A n \in 0..m : f[n] = Step(f, n)
           at == CHOOSE at : at = [n \in 0..N |-> Step(at, n)]
           Bad == {m \in 0..N : ~\E f : Cleans(f, m)}
           Untyped == {m \in 0..N : at[m] \notin Seq(Names)}
<1>0. N \in Nat /\ \A n \in 1..N : path[n] \in Names
  OBVIOUS
<1>1. ASSUME NEW m \in 0..N, NEW f, Cleans(f, m), m < N PROVE \E g : Cleans(g, m + 1)
  <2> DEFINE g == [n \in 0..(m + 1) |-> IF n = m + 1 THEN DockerRuntime!After(f[m], path[n]) ELSE f[n]]
  <2>1. m \in Nat /\ m + 1 \in 1..N
    BY <1>0, <1>1
  <2>2. ASSUME NEW n \in 0..(m + 1) PROVE g[n] = Step(g, n)
    <3>1. CASE n = 0
      <4>1. 0 \in 0..(m + 1) /\ 0 # m + 1 /\ 0 \in 0..m
        BY <2>1
      <4> QED
        BY <1>1, <3>1, <4>1
    <3>2. CASE n \in 1..m
      <4>1. n - 1 \in 0..(m + 1) /\ n - 1 # m + 1 /\ n # m + 1 /\ n \in 0..m
        BY <2>1, <3>2
      <4>2. g[n - 1] = f[n - 1] /\ g[n] = f[n]
        BY <4>1
      <4> QED
        BY <1>1, <4>1, <4>2
    <3>3. CASE n = m + 1
      <4>1. n - 1 = m /\ m \in 0..(m + 1) /\ m # m + 1 /\ n # 0
        BY <2>1, <3>3
      <4>2. g[n - 1] = f[m]
        BY <4>1
      <4> QED
        BY <3>3, <4>1, <4>2
    <3> QED
      BY <2>1, <3>1, <3>2, <3>3
  <2>3. g = [n \in 0..(m + 1) |-> g[n]]
    OBVIOUS
  <2> HIDE DEF g, Step
  <2> QED
    BY <2>2, <2>3
<1>2. \E f : Cleans(f, 0)
  <2>1. Cleans([n \in 0..0 |-> <<>>], 0)
    OBVIOUS
  <2> QED
    BY <2>1
<1>3. Bad = {}
  <2> HIDE DEF Cleans
  <2>1. ASSUME NEW m \in Bad PROVE m # 0 /\ \E k \in Bad : k < m
    <3>1. m \in 0..N /\ m # 0
      BY <1>2, <2>1
    <3>2. m - 1 \in 0..N /\ m - 1 < N /\ (m - 1) + 1 = m /\ m - 1 < m
      BY <1>0, <3>1
    <3>3. m - 1 \in Bad
      BY <1>1, <2>1, <3>2
    <3> QED
      BY <3>1, <3>2, <3>3
  <2>2. Bad \in SUBSET Nat
    BY <1>0
  <2> HIDE DEF Bad
  <2> QED
    BY <2>1, <2>2, NoFirst
<1>4. PICK f : Cleans(f, N)
  BY <1>0, <1>3
<1>5. f = [n \in 0..N |-> Step(f, n)]
  BY <1>4
<1>6. at = [n \in 0..N |-> Step(at, n)]
  BY <1>5
<1>7. Untyped = {}
  <2> HIDE DEF at
  <2>1. ASSUME NEW m \in Untyped PROVE m # 0 /\ \E k \in Untyped : k < m
    <3>1. m \in 0..N /\ at[m] = Step(at, m) /\ at[m] \notin Seq(Names)
      BY <1>6, <2>1
    <3>2. m # 0
      BY <3>1
    <3>3. m - 1 \in 0..N /\ m - 1 < m /\ m \in 1..N
      BY <1>0, <3>1, <3>2
    <3>4. m - 1 \in Untyped
      BY <1>0, <3>1, <3>2, <3>3, AfterType
    <3> QED
      BY <3>2, <3>3, <3>4
  <2>2. Untyped \in SUBSET Nat
    BY <1>0
  <2> HIDE DEF Untyped
  <2> QED
    BY <2>1, <2>2, NoFirst
<1>8. at[N] \in Seq(Names)
  <2> HIDE DEF at
  <2> QED
    BY <1>0, <1>7
<1>9. DockerRuntime!Clean(path) = at[N]
  BY DEF DockerRuntime!Clean
<1> QED
  BY <1>8, <1>9

\* A path that is joined to a target is below it.
LEMMA PrefixOfJoined ==
  ASSUME NEW Names, NEW s \in Seq(Names), NEW t \in Seq(Names)
  PROVE  DockerRuntime!IsPrefix(s, s \o t)
<1>1. s \o t \in Seq(Names) /\ Len(s \o t) = Len(s) + Len(t) /\ Len(s) \in Nat /\ Len(t) \in Nat
  OBVIOUS
<1>2. \A i \in 1..Len(s) : (s \o t)[i] = s[i]
  OBVIOUS
<1>3. SubSeq(s, 1, Len(s)) = SubSeq(s \o t, 1, Len(s))
  BY <1>1, <1>2
<1> QED
  BY <1>1, <1>3 DEF DockerRuntime!IsPrefix

\* Only Accept names a path, and it cleans it before it is joined.
LEMMA VolumesStep == DockerRuntime!WithinVolumes /\ DockerRuntime!Next => (DockerRuntime!WithinVolumes)'
<1> SUFFICES ASSUME DockerRuntime!WithinVolumes, DockerRuntime!Next PROVE (DockerRuntime!WithinVolumes)'
  OBVIOUS
<1>1. UNCHANGED volumes
  BY DEF DockerRuntime!Next, DockerRuntime!request, DockerRuntime!Refuse, DockerRuntime!Accept,
     DockerRuntime!Prepare, DockerRuntime!Start, DockerRuntime!RequestEnds, DockerRuntime!CommandWrites,
     DockerRuntime!CommandReads, DockerRuntime!CommandEnds, DockerRuntime!WaitReturns, DockerRuntime!ReadOutput,
     DockerRuntime!SendOutput, DockerRuntime!Return, DockerRuntime!ReadMessage, DockerRuntime!WriteInput,
     DockerRuntime!InputEnds, DockerRuntime!ClientGoes
<1>2. CASE UNCHANGED opened
  BY <1>1, <1>2 DEF DockerRuntime!WithinVolumes, DockerRuntime!None
<1>3. CASE DockerRuntime!Accept
  <2>1. ASSUME NEW target \in Targets, NEW inner \in Inner, DockerRuntime!Clean(target) \in DockerRuntime!ProjectVolumes,
               opened' = DockerRuntime!ContainerPath(DockerRuntime!Clean(target), inner)
        PROVE  (DockerRuntime!WithinVolumes)'
    <3>1. PICK i \in DOMAIN volumes : DockerRuntime!Clean(volumes[i]) = DockerRuntime!Clean(target)
                                     /\ DockerRuntime!Clean(volumes[i]) # <<>>
      BY <2>1 DEF DockerRuntime!ProjectVolumes
    <3>2. DockerRuntime!Clean(target) \in Seq(STRING) /\ DockerRuntime!Clean(inner) \in Seq(STRING)
      BY PathsAssumption, CleanType DEF PathsAssumption
    <3>3. DockerRuntime!IsPrefix(DockerRuntime!Clean(volumes[i]), opened')
      BY <2>1, <3>1, <3>2, PrefixOfJoined DEF DockerRuntime!ContainerPath
    <3> QED
      BY <1>1, <3>1, <3>3 DEF DockerRuntime!WithinVolumes
  <2> QED
    BY <1>2, <1>3, <2>1 DEF DockerRuntime!Accept
<1>4. UNCHANGED opened \/ DockerRuntime!Accept
  BY DEF DockerRuntime!Next, DockerRuntime!Refuse,
     DockerRuntime!Prepare, DockerRuntime!Start, DockerRuntime!RequestEnds, DockerRuntime!CommandWrites,
     DockerRuntime!CommandReads, DockerRuntime!CommandEnds, DockerRuntime!WaitReturns, DockerRuntime!ReadOutput,
     DockerRuntime!SendOutput, DockerRuntime!Return, DockerRuntime!ReadMessage, DockerRuntime!WriteInput,
     DockerRuntime!InputEnds, DockerRuntime!ClientGoes
<1> QED
  BY <1>2, <1>3, <1>4

-----------------------------------------------------------------------------
(* The programs.                                                           *)

ProgramInv ==
  /\ program \in {"build", "started", "select", "stopping", "draining", "exited"}
  /\ program \in {"build", "started"} => server = "off" /\ serving = "off" /\ collector = "off"
  /\ server = "serving" => serving = "listening"
  /\ serving = "returned" => collector \in {"off", "ended"}
  /\ program \in {"stopping", "draining", "exited"} /\ ~signaled /\ server # "off" => serving = "returned"
  /\ AgentProcess!LeavesNothing

\* The programs before they are built.
LEMMA ProgramInit == AgentProcess!Init => ProgramInv
BY DEF AgentProcess!Init, ProgramInv, AgentProcess!LeavesNothing

\* One step per step of main, Run, the collector and the guest.
LEMMA ProgramStep == ProgramInv /\ AgentProcess!Next => ProgramInv'
<1> SUFFICES ASSUME ProgramInv, AgentProcess!Next PROVE ProgramInv'
  OBVIOUS
<1> USE DEF ProgramInv, AgentProcess!LeavesNothing, AgentProcess!guestVars, AgentProcess!agent, AgentProcess!Exits
<1>1. CASE AgentProcess!Build
  BY <1>1 DEF AgentProcess!Build
<1>2. CASE AgentProcess!FinishBuild
  BY <1>2 DEF AgentProcess!FinishBuild
<1>3. CASE AgentProcess!Signal
  BY <1>3 DEF AgentProcess!Signal
<1>4. CASE AgentProcess!LoopsEnd
  BY <1>4 DEF AgentProcess!LoopsEnd
<1>5. CASE AgentProcess!Request
  BY <1>5 DEF AgentProcess!Request
<1>6. CASE AgentProcess!ServerFails
  BY <1>6 DEF AgentProcess!ServerFails
<1>7. CASE AgentProcess!RunReturns
  BY <1>7 DEF AgentProcess!RunReturns, AgentProcess!CollectorEnded
<1>8. CASE AgentProcess!Collect
  BY <1>8 DEF AgentProcess!Collect
<1>9. CASE AgentProcess!Select
  BY <1>9 DEF AgentProcess!Select
<1>10. CASE AgentProcess!Shutdown
  BY <1>10 DEF AgentProcess!Shutdown
<1>11. CASE AgentProcess!ShutdownDone
  BY <1>11 DEF AgentProcess!ShutdownDone, AgentProcess!AllAnswered
<1>12. CASE AgentProcess!ShutdownFails
  BY <1>12 DEF AgentProcess!ShutdownFails
<1>13. CASE AgentProcess!PartEnds
  BY <1>13 DEF AgentProcess!PartEnds
<1>14. CASE AgentProcess!FirstResult \/ AgentProcess!SecondResult
  BY <1>14 DEF AgentProcess!FirstResult, AgentProcess!SecondResult, AgentProcess!BothEnded
<1> QED
  BY <1>1, <1>2, <1>3, <1>4, <1>5, <1>6, <1>7, <1>8, <1>9, <1>10, <1>11, <1>12, <1>13, <1>14
     DEF AgentProcess!Next

-----------------------------------------------------------------------------
(* Nothing leaks.                                                          *)

LeakInv == SshInv /\ ForwardInv /\ TunnelInv /\ TidyInv /\ DockerRuntime!WithinVolumes /\ ProgramInv

\* The part that moves starts, and the others stand at their end.
LEMMA LeaksInit == MCInit => LeakInv
<1> SUFFICES ASSUME MCInit PROVE LeakInv
  OBVIOUS
<1>1. SshInv /\ ForwardInv /\ TunnelInv
  BY SshInit, ForwardInit, TunnelInit DEF MCInit
<1>2. TidyInv
  <2>1. CASE part = "docker"
    BY <2>1, TidyInit DEF MCInit
  <2>2. CASE part # "docker"
    BY <2>2 DEF MCInit, TidyInv
  <2> QED
    BY <2>1, <2>2
<1>4. DockerRuntime!WithinVolumes
  <2>1. opened = <<>>
    BY DEF MCInit, DockerRuntime!Init, DockerRuntime!None
  <2> QED
    BY <2>1 DEF DockerRuntime!WithinVolumes, DockerRuntime!None
<1>3. ProgramInv
  <2>1. CASE part = "process"
    BY <2>1, ProgramInit DEF MCInit
  <2>2. CASE part # "process"
    <3>1. program = "exited" /\ signaled = TRUE /\ server = "closed" /\ serving = "returned" /\ collector = "off"
          /\ requests = 0 /\ gClient = "ended" /\ brokers = "ended"
      BY <2>2 DEF MCInit
    <3> QED
      BY <3>1 DEF ProgramInv, AgentProcess!LeavesNothing
  <2> QED
    BY <2>1, <2>2
<1> QED
  BY <1>1, <1>2, <1>3, <1>4 DEF LeakInv

\* A step of a part is a step of its module, and leaves the others alone.
LEMMA LeaksStep == LeakInv /\ [MCNext]_<<part, vars, sVars, shVars, pVars, fVars, uVars, dVars, aVars>> => LeakInv'
<1> SUFFICES ASSUME LeakInv, [MCNext]_<<part, vars, sVars, shVars, pVars, fVars, uVars, dVars, aVars>>
             PROVE  LeakInv'
  OBVIOUS
<1>0. SshInv /\ ForwardInv /\ TunnelInv /\ TidyInv /\ DockerRuntime!WithinVolumes /\ ProgramInv
  BY DEF LeakInv
<1>1. SshSessions!Next \/ UNCHANGED sVars
  BY DEF MCNext
<1>2. PortForwards!Next \/ UNCHANGED fVars
  BY DEF MCNext
<1>3. SessionTunnel!Next \/ UNCHANGED uVars
  BY DEF MCNext
<1>4. DockerRuntime!Next \/ UNCHANGED dVars
  BY DEF MCNext
<1>5. AgentProcess!Next \/ UNCHANGED aVars
  BY DEF MCNext
<1>6. SshInv'
  BY <1>0, <1>1, SshStep, SshStands
<1>7. ForwardInv'
  <2>1. UNCHANGED fVars => ForwardInv'
    BY <1>0 DEF fVars, ForwardInv, PortForwards!NoForwardLeaks
  <2> QED
    BY <1>0, <1>2, <2>1, ForwardStep
<1>8. TunnelInv'
  <2>1. UNCHANGED uVars => TunnelInv'
    <3> SUFFICES ASSUME UNCHANGED uVars PROVE TunnelInv'
      OBVIOUS
    <3>1. Carried' = Carried /\ UNCHANGED <<streams, connects, tokens>>
      BY DEF uVars, Carried, SessionTunnel!Running
    <3> QED
      BY <1>0, <3>1, TokensCarried DEF TunnelInv
  <2> QED
    BY <1>0, <1>3, <2>1, TunnelStep
<1>9. TidyInv'
  <2>1. UNCHANGED dVars => TidyInv'
    BY <1>0 DEF dVars, TidyInv
  <2> QED
    BY <1>0, <1>4, <2>1, TidyStep
<1>11. (DockerRuntime!WithinVolumes)'
  <2>1. UNCHANGED dVars => (DockerRuntime!WithinVolumes)'
    BY <1>0 DEF dVars, DockerRuntime!WithinVolumes, DockerRuntime!None
  <2> QED
    BY <1>0, <1>4, <2>1, VolumesStep
<1>10. ProgramInv'
  <2>1. UNCHANGED aVars => ProgramInv'
    BY <1>0 DEF aVars, ProgramInv, AgentProcess!LeavesNothing
  <2> QED
    BY <1>0, <1>5, <2>1, ProgramStep
<1> QED
  BY <1>6, <1>7, <1>8, <1>9, <1>10, <1>11 DEF LeakInv

\* Nothing that runs on behalf of a client is out of reach, for any number of clients: SSH
\* sessions, port forwards, streams of the session, Docker requests and what they read, and the
\* handlers and parts of a program that ends.
THEOREM NothingLeaksHolds == MCSpec => []NothingLeaks
<1>1. LeakInv => NothingLeaks
  <2> SUFFICES ASSUME LeakInv PROVE NothingLeaks
    OBVIOUS
  <2>1. SshSessions!SessionsRegistered
    BY SshPromise DEF LeakInv
  <2>2. PortForwards!NoForwardLeaks /\ SessionTunnel!StreamsBounded /\ AgentProcess!LeavesNothing
    BY DEF LeakInv, ForwardInv, TunnelInv, ProgramInv
  <2>3. DockerRuntime!RequestsTidy /\ DockerRuntime!WithinVolumes
    BY DEF LeakInv, TidyInv, DockerRuntime!RequestsTidy
  <2> QED
    BY <2>1, <2>2, <2>3 DEF NothingLeaks
<1> QED
  BY <1>1, LeaksInit, LeaksStep, PTL DEF MCSpec

-----------------------------------------------------------------------------
(* The output of a shell: once the exit is to be told, nothing more comes   *)
(* through the pipe and all that came was read.                             *)

ShellInv ==
  /\ main = "select" => IF wait = "wait" THEN pipe = TRUE ELSE pipe = FALSE /\ read = made
  /\ main \in {"terminal", "drain and tell"} => pipe = FALSE /\ read = made
  /\ output \in {"read", "write", "done"} /\ conn \in {"open", "broken", "closed"}
  /\ output = "read" \/ (output = "done" /\ conn = "open") => sent = read
  /\ told = "exit" => main \in {"hang up", "done"} /\ output = "done" /\ pipe = FALSE /\ sent = made
  /\ pipe \in BOOLEAN

\* The shell runs and nothing was read.
LEMMA ShellInit == SshStream!Init => ShellInv
<1> SUFFICES ASSUME SshStream!Init PROVE ShellInv
  OBVIOUS
<1>1. pipe = TRUE
  BY Zenon DEF SshStream!Init
<1> QED
  BY <1>1 DEF SshStream!Init, ShellInv, SshStream!None

\* The pipe is closed by Wait, with all read, or by the one that will not tell of an exit.
LEMMA ShellStep == ShellInv /\ SshStream!Next => ShellInv'
<1> SUFFICES ASSUME ShellInv, SshStream!Next PROVE ShellInv'
  OBVIOUS
<1> USE DEF ShellInv
<1>1. CASE SshStream!ReadInput
  BY <1>1 DEF SshStream!ReadInput
<1>2. CASE SshStream!OutputReads
  BY <1>2 DEF SshStream!OutputReads
<1>3. CASE SshStream!OutputWrites
  BY <1>3 DEF SshStream!OutputWrites
<1>4. CASE SshStream!WaitReturns
  BY <1>4 DEF SshStream!WaitReturns
<1>5. CASE SshStream!Selects
  BY <1>5 DEF SshStream!Selects
<1>6. CASE SshStream!ClosesPTY
  BY <1>6 DEF SshStream!ClosesPTY, SshStream!ClosePTY
<1>7. CASE SshStream!Tells
  BY <1>7 DEF SshStream!Tells, SshStream!Drained
<1>8. CASE SshStream!TellsLate
  BY <1>8 DEF SshStream!TellsLate
<1>9. CASE SshStream!HangsUp
  BY <1>9 DEF SshStream!HangsUp
<1>10. CASE SshStream!ShellWrites
  BY <1>10 DEF SshStream!ShellWrites
<1>11. CASE SshStream!ShellExits \/ SshStream!ContextEnds \/ SshStream!ClientLeaves
  BY <1>11 DEF SshStream!ShellExits, SshStream!ContextEnds, SshStream!ClientLeaves
<1> QED
  BY <1>1, <1>2, <1>3, <1>4, <1>5, <1>6, <1>7, <1>8, <1>9, <1>10, <1>11 DEF SshStream!Next

-----------------------------------------------------------------------------
(* The answer of the Docker runtime: what the command made was told, is in  *)
(* the pipe or in the goroutine's hand.                                     *)

Followed == kind = "stream" /\ dClient = "there"

AnswerInv == Followed =>
  /\ dMade \in Nat /\ dPipe \in Nat /\ dTold \in Seq({"output", "end"})
  /\ dHandler \in {"init", "prepare", "start", "closing", "over"} => dPipe = 0 /\ held = "reading"
  /\ dHandler # "over" => /\ held \in {"reading", "holding"}
                          /\ dMade = Len(dTold) + dPipe + (IF held = "holding" THEN 1 ELSE 0)
  /\ dHandler = "over" /\ cmd = "exited" => Len(dTold) = dMade + 1 /\ DockerRuntime!Last(dTold) = "end"

\* Nothing was made and nothing told.
LEMMA AnswerInit == DockerRuntime!Init => AnswerInv
BY DEF DockerRuntime!Init, AnswerInv

\* A chunk moves from the pipe to the hand and from the hand to the client.
LEMMA AnswerStep == TidyInv /\ AnswerInv /\ DockerRuntime!Next => AnswerInv'
<1> SUFFICES ASSUME TidyInv, AnswerInv, DockerRuntime!Next, Followed' PROVE AnswerInv'
  BY DEF AnswerInv
<1>0. UNCHANGED kind /\ (dClient = "there" \/ UNCHANGED dClient)
  BY DEF DockerRuntime!Next, DockerRuntime!request, DockerRuntime!Refuse, DockerRuntime!Accept,
     DockerRuntime!Prepare, DockerRuntime!Start, DockerRuntime!RequestEnds, DockerRuntime!CommandWrites,
     DockerRuntime!CommandReads, DockerRuntime!CommandEnds, DockerRuntime!WaitReturns, DockerRuntime!ReadOutput,
     DockerRuntime!SendOutput, DockerRuntime!Return, DockerRuntime!ReadMessage, DockerRuntime!WriteInput,
     DockerRuntime!InputEnds, DockerRuntime!ClientGoes
<1>f. kind = "stream" /\ dClient = "there" /\ Followed
  BY <1>0 DEF Followed
<1>t. /\ dMade \in Nat /\ dPipe \in Nat /\ dTold \in Seq({"output", "end"})
      /\ dHandler \in {"init", "prepare", "start", "closing", "over"} => dPipe = 0 /\ held = "reading"
      /\ dHandler # "over" => /\ held \in {"reading", "holding"}
                              /\ dMade = Len(dTold) + dPipe + (IF held = "holding" THEN 1 ELSE 0)
      /\ dHandler = "over" /\ cmd = "exited" => Len(dTold) = dMade + 1 /\ DockerRuntime!Last(dTold) = "end"
  BY <1>f DEF AnswerInv
<1>h. /\ dHandler \in {"init", "prepare", "start", "waiting", "closing", "over"}
      /\ dHandler \in {"init", "prepare", "start"} => cmd = "none"
      /\ dHandler \in {"closing", "over"} => cmd \in {"none", "exited"}
  BY DEF TidyInv
<1>s. ASSUME NEW m \in {"output", "end"}
      PROVE  /\ Append(dTold, m) \in Seq({"output", "end"}) /\ Len(Append(dTold, m)) = Len(dTold) + 1
             /\ DockerRuntime!Last(Append(dTold, m)) = m
  BY <1>t DEF DockerRuntime!Last
<1>l. Len(dTold) \in Nat
  BY <1>t
<1> USE DEF AnswerInv, DockerRuntime!inputVars, DockerRuntime!output, DockerRuntime!request
<1>1. CASE DockerRuntime!Refuse \/ DockerRuntime!Accept
  BY <1>1, <1>t, <1>h DEF DockerRuntime!Refuse, DockerRuntime!Accept
<1>2. CASE DockerRuntime!Prepare \/ DockerRuntime!Start
  BY <1>2, <1>t, <1>h DEF DockerRuntime!Prepare, DockerRuntime!Start
<1>3. CASE DockerRuntime!RequestEnds
  BY <1>3, <1>f DEF DockerRuntime!RequestEnds
<1>4. CASE DockerRuntime!CommandWrites
  BY <1>4, <1>t, <1>h, <1>l DEF DockerRuntime!CommandWrites
<1>5. CASE DockerRuntime!CommandReads \/ DockerRuntime!CommandEnds
  BY <1>5, <1>t, <1>h DEF DockerRuntime!CommandReads, DockerRuntime!CommandEnds
<1>6. CASE DockerRuntime!WaitReturns
  BY <1>6, <1>t, <1>f DEF DockerRuntime!WaitReturns
<1>7. CASE DockerRuntime!ReadOutput
  BY <1>7, <1>t, <1>h, <1>l DEF DockerRuntime!ReadOutput
<1>8. CASE DockerRuntime!SendOutput
  <2>1. dHandler = "waiting" /\ dTold' = Append(dTold, "output") /\ held = "holding" /\ held' = "reading"
        /\ UNCHANGED <<dHandler, cmd, dMade, dPipe>>
    BY <1>8, <1>t, <1>f, <1>h DEF DockerRuntime!SendOutput, DockerRuntime!Says
  <2>2. dTold' \in Seq({"output", "end"}) /\ Len(dTold') = Len(dTold) + 1
    BY <1>s, <2>1
  <2> QED
    BY <1>t, <1>l, <2>1, <2>2
<1>9. CASE DockerRuntime!Return
  <2>1. dHandler = "closing" /\ dHandler' = "over" /\ dTold' = Append(dTold, "end") /\ UNCHANGED <<cmd, dMade, dPipe, held>>
    BY <1>9, <1>f DEF DockerRuntime!Return, DockerRuntime!Says
  <2>2. dTold' \in Seq({"output", "end"}) /\ Len(dTold') = Len(dTold) + 1 /\ DockerRuntime!Last(dTold') = "end"
    BY <1>s, <2>1
  <2>3. DockerRuntime!Last(dTold)' = "end"
    BY <2>2 DEF DockerRuntime!Last
  <2> QED
    BY <1>t, <1>l, <2>1, <2>2, <2>3
<1>10. CASE DockerRuntime!ReadMessage \/ DockerRuntime!ClientGoes
  BY <1>10, <1>0, <1>t DEF DockerRuntime!ReadMessage, DockerRuntime!ClientGoes, Followed, DockerRuntime!Last
<1>11. CASE DockerRuntime!WriteInput \/ DockerRuntime!InputEnds
  BY <1>11, <1>h, <1>t DEF DockerRuntime!WriteInput, DockerRuntime!InputEnds, DockerRuntime!CancelsCommand,
     DockerRuntime!Cancels, DockerRuntime!Last
<1> QED
  BY <1>1, <1>2, <1>3, <1>4, <1>5, <1>6, <1>7, <1>8, <1>9, <1>10, <1>11 DEF DockerRuntime!Next

-----------------------------------------------------------------------------
(* The log stream: every line that was read was shown or waits in the       *)
(* channel.                                                                 *)

Lines == {p \in LogSources \X (1..MaxLines) : p[2] <= lines[p[1]]}
Queued == {i \in 1..Len(events) : events[i] = "sending"}

LogInv ==
  /\ source \in [LogSources -> {"reading", "sending", "telling", "done"}]
  /\ lines \in [LogSources -> Nat]
  /\ \A s \in LogSources : source[s] = "sending" => lines[s] < MaxLines
  /\ events \in Seq({"sending", "telling"}) /\ shown \in Nat
  /\ handler # "gone" => shown + Cardinality(Queued) = Cardinality(Lines)
  /\ handler = "ended" /\ ~over => events = <<>> /\ PodStreams!AllDone

\* The lines count with the cardinality of their own module.
LEMMA LogCardinality == ASSUME NEW S PROVE PodStreams!Cardinality(S) = Cardinality(S)
BY Zenon DEF PodStreams!Cardinality, Cardinality

\* The lines that were read are finitely many.
LEMMA LinesFinite == IsFiniteSet(Lines) /\ Cardinality(Lines) \in Nat
<1>1. IsFiniteSet(1..MaxLines)
  BY LogAssumption, FS_Interval DEF LogAssumption
<1>2. IsFiniteSet(LogSources \X (1..MaxLines))
  BY <1>1, LogAssumption, FS_Product DEF LogAssumption
<1>3. IsFiniteSet(Lines)
  <2>1. Lines \subseteq LogSources \X (1..MaxLines)
    BY DEF Lines
  <2> QED
    BY <1>2, <2>1, FS_Subset
<1> QED
  BY <1>3, FS_CardinalityType

\* The lines among the events of a channel.
Among(channel) == {i \in 1..Len(channel) : channel[i] = "sending"}

\* So are those in the channel.
LEMMA AmongFinite ==
  ASSUME NEW channel \in Seq({"sending", "telling"})
  PROVE  IsFiniteSet(Among(channel)) /\ Cardinality(Among(channel)) \in Nat
<1>1. IsFiniteSet(1..Len(channel))
  <2>1. Len(channel) \in Nat
    OBVIOUS
  <2> QED
    BY <2>1, FS_Interval
<1>2. Among(channel) \subseteq 1..Len(channel)
  BY DEF Among
<1> QED
  BY <1>1, <1>2, FS_Subset, FS_CardinalityType

\* What goes into the channel is counted once.
LEMMA AmongAppend ==
  ASSUME NEW channel \in Seq({"sending", "telling"}), NEW m \in {"sending", "telling"}
  PROVE  /\ Append(channel, m) \in Seq({"sending", "telling"})
         /\ Cardinality(Among(Append(channel, m)))
              = IF m = "sending" THEN Cardinality(Among(channel)) + 1 ELSE Cardinality(Among(channel))
<1> DEFINE longer == Append(channel, m)
           n == Len(channel)
<1>1. /\ longer \in Seq({"sending", "telling"}) /\ Len(longer) = n + 1 /\ n \in Nat
      /\ longer[n + 1] = m /\ \A i \in 1..n : longer[i] = channel[i]
  OBVIOUS
<1> HIDE DEF longer
<1>2. CASE m = "sending"
  <2>1. Among(longer) = Among(channel) \cup {n + 1} /\ n + 1 \notin Among(channel)
    BY <1>1, <1>2 DEF Among
  <2>2. Cardinality(Among(channel) \cup {n + 1}) = Cardinality(Among(channel)) + 1
    BY <2>1, AmongFinite, OneMore
  <2>3. Cardinality(Among(longer)) = Cardinality(Among(channel)) + 1
    BY <2>1, <2>2, Zenon
  <2> QED
    BY <1>1, <1>2, <2>3 DEF longer
<1>3. CASE m # "sending"
  <2>1. Among(longer) = Among(channel)
    BY <1>1, <1>3 DEF Among
  <2> QED
    BY <1>1, <1>3, <2>1 DEF longer
<1> QED
  BY <1>2, <1>3

\* What leaves the channel is counted once: the rest moves up by one place.
LEMMA AmongTail ==
  ASSUME NEW channel \in Seq({"sending", "telling"}), channel # <<>>
  PROVE  /\ Tail(channel) \in Seq({"sending", "telling"})
         /\ Cardinality(Among(channel))
              = IF Head(channel) = "sending" THEN Cardinality(Among(Tail(channel))) + 1
                ELSE Cardinality(Among(Tail(channel)))
<1> DEFINE rest == Tail(channel)
           n == Len(channel)
           moved == [i \in Among(rest) |-> i + 1]
           Later == Among(channel) \ {1}
<1>1. /\ rest \in Seq({"sending", "telling"}) /\ n \in Nat /\ n > 0 /\ Len(rest) = n - 1
      /\ Head(channel) = channel[1] /\ \A i \in 1..(n - 1) : rest[i] = channel[i + 1]
  OBVIOUS
<1> HIDE DEF rest
<1>2. moved \in Bijection(Among(rest), Later)
  <2>1. ASSUME NEW i \in Among(rest) PROVE i + 1 \in Later
    BY <1>1 DEF Among
  <2>2. ASSUME NEW j \in Later PROVE j - 1 \in Among(rest) /\ moved[j - 1] = j
    <3>1. j \in 1..n /\ j # 1 /\ channel[j] = "sending"
      BY DEF Among
    <3>2. j - 1 \in 1..(n - 1) /\ (j - 1) + 1 = j
      BY <1>1, <3>1
    <3> QED
      BY <1>1, <3>1, <3>2 DEF Among
  <2>3. Among(rest) \subseteq Nat
    BY DEF Among
  <2>4. moved \in [Among(rest) -> Later]
    BY <2>1
  <2>5. moved \in Injection(Among(rest), Later)
    <3>1. ASSUME NEW i \in Among(rest), NEW j \in Among(rest), moved[i] = moved[j] PROVE i = j
      <4>1. i \in Nat /\ j \in Nat /\ i + 1 = j + 1
        BY <2>3, <3>1
      <4> QED
        BY <4>1
    <3>2. moved \in {f \in [Among(rest) -> Later] : \A i, j \in Among(rest) : f[i] = f[j] => i = j}
      BY <2>4, <3>1
    <3> QED
      BY <3>2, Zenon DEF Injection, IsInjective
  <2>6. moved \in Surjection(Among(rest), Later)
    BY <2>2, <2>4 DEF Surjection
  <2> QED
    BY <2>5, <2>6 DEF Bijection
<1>3. Cardinality(Later) = Cardinality(Among(rest)) /\ IsFiniteSet(Later)
  BY <1>1, <1>2, AmongFinite, FS_Bijection DEF ExistsBijection
<1>4. CASE Head(channel) = "sending"
  <2>1. Among(channel) = Later \cup {1} /\ 1 \notin Later
    BY <1>1, <1>4 DEF Among
  <2>2. Cardinality(Later \cup {1}) = Cardinality(Later) + 1
    BY <1>3, <2>1, OneMore
  <2>3. Cardinality(Among(channel)) = Cardinality(Among(rest)) + 1
    BY <1>3, <2>1, <2>2, Zenon
  <2> QED
    BY <1>1, <1>4, <2>3 DEF rest
<1>5. CASE Head(channel) # "sending"
  <2>1. Among(channel) = Later
    BY <1>1, <1>5 DEF Among
  <2>2. Cardinality(Among(channel)) = Cardinality(Among(rest))
    BY <1>3, <2>1, Zenon
  <2> QED
    BY <1>1, <1>5, <2>2 DEF rest
<1> QED
  BY <1>4, <1>5

\* No line was read.
LEMMA LogInit == PodStreams!Init => LogInv
<1> SUFFICES ASSUME PodStreams!Init PROVE LogInv
  OBVIOUS
<1>1. /\ handler = "live" /\ source = [s \in LogSources |-> "reading"] /\ lines = [s \in LogSources |-> 0]
      /\ events = <<>> /\ shown = 0
  BY DEF PodStreams!Init
<1>2. Queued = {} /\ Lines = {}
  BY <1>1 DEF Queued, Lines
<1>3. shown + Cardinality(Queued) = Cardinality(Lines)
  BY <1>1, <1>2, FS_EmptySet
<1> QED
  BY <1>1, <1>3 DEF LogInv

\* A line that is read goes into the channel; one that leaves it is shown.
LEMMA LogStep == LogInv /\ PodStreams!LogNext => LogInv'
<1> SUFFICES ASSUME LogInv, PodStreams!LogNext PROVE LogInv'
  OBVIOUS
<1> DEFINE Pcs == {"reading", "sending", "telling", "done"}
<1>0. /\ source \in [LogSources -> Pcs] /\ lines \in [LogSources -> Nat]
      /\ \A s \in LogSources : source[s] = "sending" => lines[s] < MaxLines
      /\ events \in Seq({"sending", "telling"}) /\ shown \in Nat
      /\ handler # "gone" => shown + Cardinality(Queued) = Cardinality(Lines)
      /\ handler = "ended" /\ ~over => events = <<>> /\ \A s \in LogSources : source[s] = "done"
  BY DEF LogInv, PodStreams!AllDone
<1>c. Queued = Among(events) /\ Queued' = Among(events') /\ Cardinality(Lines) \in Nat /\ IsFiniteSet(Lines)
      /\ Cardinality(Among(events)) \in Nat
  BY <1>0, AmongFinite, LinesFinite DEF Queued, Among
\* A step that leaves the channel and the lines alone.
<1>1. ASSUME UNCHANGED <<lines, events, shown>>, source' \in [LogSources -> Pcs],
             \A s \in LogSources : source'[s] = "sending" => lines[s] < MaxLines,
             handler' # "gone" => handler # "gone",
             handler' = "ended" /\ ~over' => events = <<>> /\ \A s \in LogSources : source'[s] = "done"
      PROVE  LogInv'
  <2>1. Lines' = Lines /\ Queued' = Queued
    BY <1>1 DEF Lines, Queued
  <2> QED
    BY <1>0, <1>1, <2>1 DEF LogInv, PodStreams!AllDone
<1>2. CASE PodStreams!TimeIsUp
  BY <1>0, <1>1, <1>2 DEF PodStreams!TimeIsUp, PodStreams!terminal
<1>3. CASE PodStreams!HeartbeatFails
  BY <1>0, <1>1, <1>3 DEF PodStreams!HeartbeatFails
<1>4. CASE PodStreams!EndStream
  BY <1>0, <1>1, <1>4 DEF PodStreams!EndStream, PodStreams!AllDone
<1>5. CASE PodStreams!EmitEvent
  <2>1. /\ handler = "live" /\ events # <<>> /\ events' = Tail(events) /\ UNCHANGED <<over, source, lines>>
        /\ \/ shown' = (IF Head(events) = "sending" THEN shown + 1 ELSE shown) /\ handler' = handler
           \/ handler' = "gone" /\ shown' = shown
    BY <1>5 DEF PodStreams!EmitEvent
  <2>2. /\ events' \in Seq({"sending", "telling"})
        /\ Cardinality(Queued) = IF Head(events) = "sending" THEN Cardinality(Queued') + 1 ELSE Cardinality(Queued')
        /\ Cardinality(Queued') \in Nat
    BY <1>0, <1>c, <2>1, AmongTail, AmongFinite
  <2>3. Cardinality(Lines') = Cardinality(Lines)
    <3>1. Lines' = Lines
      BY <2>1 DEF Lines
    <3> QED
      BY <3>1, Zenon
  <2>4. handler' # "gone" => shown' + Cardinality(Queued') = Cardinality(Lines')
    <3>1. shown + Cardinality(Queued) = Cardinality(Lines)
      BY <1>0, <2>1
    <3> QED
      BY <1>0, <2>1, <2>2, <2>3, <3>1
  <2>5. shown' \in Nat
    BY <1>0, <2>1
  <2> QED
    BY <1>0, <2>1, <2>2, <2>4, <2>5 DEF LogInv
<1>6. ASSUME NEW s \in LogSources, PodStreams!SourceReads(s) PROVE LogInv'
  <2>1. /\ UNCHANGED <<handler, over, lines, events, shown>> /\ source[s] = "reading"
        /\ \/ lines[s] < MaxLines /\ source' = [source EXCEPT ![s] = "sending"]
           \/ \E pc \in {"done", "telling"} : source' = [source EXCEPT ![s] = pc]
    BY <1>6 DEF PodStreams!SourceReads
  <2>2. source' \in [LogSources -> Pcs] /\ \A t \in LogSources : source'[t] = "sending" => lines[t] < MaxLines
    BY <1>0, <2>1
  <2> QED
    BY <1>0, <1>1, <2>1, <2>2
<1>7. ASSUME NEW s \in LogSources, PodStreams!SourceStops(s) PROVE LogInv'
  <2>1. UNCHANGED <<handler, over, lines, events, shown>> /\ source[s] = "reading" /\ source' = [source EXCEPT ![s] = "done"]
    BY <1>7 DEF PodStreams!SourceStops
  <2>2. source' \in [LogSources -> Pcs] /\ \A t \in LogSources : source'[t] = "sending" => lines[t] < MaxLines
    BY <1>0, <2>1
  <2> QED
    BY <1>0, <1>1, <2>1, <2>2
<1>8. ASSUME NEW s \in LogSources, PodStreams!SourceSends(s) PROVE LogInv'
  <2>0. UNCHANGED <<handler, over, shown>> /\ source[s] \in {"sending", "telling"}
    BY <1>8 DEF PodStreams!SourceSends
  <2>1. CASE /\ events' = Append(events, source[s])
             /\ lines' = [lines EXCEPT ![s] = IF source[s] = "sending" THEN @ + 1 ELSE @]
             /\ source' = [source EXCEPT ![s] = IF source[s] = "sending" THEN "reading" ELSE "done"]
    <3>1. source' \in [LogSources -> Pcs] /\ \A t \in LogSources : t # s => source'[t] = source[t]
      BY <1>0, <2>1
    <3>2. source'[s] # "sending"
      BY <1>0, <2>1
    <3>3. lines[s] \in Nat /\ lines[s] + 1 \in Nat
      BY <1>0
    <3>4. /\ lines' \in [LogSources -> Nat] /\ \A t \in LogSources : t # s => lines'[t] = lines[t]
          /\ lines'[s] = IF source[s] = "sending" THEN lines[s] + 1 ELSE lines[s]
      <4>1. CASE source[s] = "sending"
        <5>1. lines' = [lines EXCEPT ![s] = lines[s] + 1]
          BY <2>1, <4>1
        <5> QED
          BY <1>0, <3>3, <4>1, <5>1
      <4>2. CASE source[s] # "sending"
        <5>1. lines' = [lines EXCEPT ![s] = lines[s]]
          BY <2>1, <4>2
        <5> QED
          BY <1>0, <4>2, <5>1
      <4> QED
        BY <4>1, <4>2
    <3>5. /\ events' \in Seq({"sending", "telling"})
          /\ Cardinality(Queued') = IF source[s] = "sending" THEN Cardinality(Queued) + 1 ELSE Cardinality(Queued)
      BY <1>0, <1>c, <2>0, <2>1, AmongAppend
    <3>6. Cardinality(Lines') = IF source[s] = "sending" THEN Cardinality(Lines) + 1 ELSE Cardinality(Lines)
      <4>1. CASE source[s] = "sending"
        <5> DEFINE new == <<s, lines[s] + 1>>
        <5>1. lines[s] + 1 \in 1..MaxLines
          BY <1>0, <3>3, <4>1, LogAssumption DEF LogAssumption
        <5>2. \A k \in 1..MaxLines : k <= lines'[s] <=> k <= lines[s] \/ k = lines[s] + 1
          BY <3>3, <3>4, <4>1, LogAssumption DEF LogAssumption
        <5>3. \A p \in LogSources \X (1..MaxLines) : p[2] <= lines'[p[1]] <=> p[2] <= lines[p[1]] \/ p = new
          <6> SUFFICES ASSUME NEW t \in LogSources, NEW k \in 1..MaxLines
                       PROVE  k <= lines'[t] <=> k <= lines[t] \/ <<t, k>> = new
            OBVIOUS
          <6>1. CASE t = s
            BY <5>2, <6>1
          <6>2. CASE t # s
            BY <3>4, <6>2
          <6> QED
            BY <6>1, <6>2
        <5>4. new \in LogSources \X (1..MaxLines)
          BY <5>1
        <5>5. ~(new[2] <= lines[new[1]])
          BY <3>3
        <5> HIDE DEF new
        <5>6. Lines' = Lines \cup {new} /\ new \notin Lines
          BY <5>3, <5>4, <5>5 DEF Lines
        <5>7. Cardinality(Lines \cup {new}) = Cardinality(Lines) + 1
          BY <1>c, <5>6, OneMore
        <5> QED
          BY <4>1, <5>6, <5>7, Zenon
      <4>2. CASE source[s] # "sending"
        <5>1. \A t \in LogSources : lines'[t] = lines[t]
          BY <3>4, <4>2
        <5>2. Lines' = Lines
          BY <5>1 DEF Lines
        <5> QED
          BY <4>2, <5>2, Zenon
      <4> QED
        BY <4>1, <4>2
    <3>7. handler' # "gone" => shown' + Cardinality(Queued') = Cardinality(Lines')
      BY <1>0, <1>c, <2>0, <3>5, <3>6
    <3>8. \A t \in LogSources : source'[t] = "sending" => lines'[t] < MaxLines
      BY <1>0, <3>1, <3>2, <3>4
    <3>9. ~(handler' = "ended" /\ ~over')
      BY <1>0, <2>0
    <3> QED
      BY <1>0, <2>0, <3>1, <3>4, <3>5, <3>7, <3>8, <3>9 DEF LogInv
  <2>2. CASE source' = [source EXCEPT ![s] = "done"] /\ UNCHANGED <<events, lines>>
    <3>1. source' \in [LogSources -> Pcs] /\ \A t \in LogSources : source'[t] = "sending" => lines[t] < MaxLines
      BY <1>0, <2>2
    <3> QED
      BY <1>0, <1>1, <2>0, <2>2, <3>1
  <2> QED
    BY <1>8, <2>1, <2>2 DEF PodStreams!SourceSends
<1> QED
  BY <1>2, <1>3, <1>4, <1>5, <1>6, <1>7, <1>8 DEF PodStreams!LogNext

\* With the channel empty and the sources done, all that was read was shown.
LEMMA LogPromise == LogInv => PodStreams!LogStreamComplete
<1> SUFFICES ASSUME LogInv, handler = "ended", ~over
             PROVE  events = <<>> /\ PodStreams!AllDone /\ shown = PodStreams!Cardinality(Lines)
  BY DEF PodStreams!LogStreamComplete, Lines
<1>1. events = <<>> /\ PodStreams!AllDone /\ shown + Cardinality(Queued) = Cardinality(Lines) /\ shown \in Nat
  BY DEF LogInv
<1>2. Cardinality(Queued) = 0
  <2>1. Queued = {}
    BY <1>1 DEF Queued
  <2> QED
    BY <2>1, FS_EmptySet
<1>3. shown = Cardinality(Lines)
  BY <1>1, <1>2
<1> QED
  BY <1>1, <1>3, LogCardinality, Zenon

-----------------------------------------------------------------------------
OutputInv == ShellInv /\ LogInv /\ AnswerInv

\* Nothing was said yet.
LEMMA OutputInit == MCInit => OutputInv
<1> SUFFICES ASSUME MCInit PROVE OutputInv
  OBVIOUS
<1>1. ShellInv /\ LogInv
  BY ShellInit, LogInit DEF MCInit
<1>2. CASE part = "docker"
  BY <1>1, <1>2, AnswerInit DEF MCInit, OutputInv
<1>3. CASE part # "docker"
  <2>1. kind = "once"
    BY <1>3 DEF MCInit
  <2> QED
    BY <1>1, <2>1 DEF OutputInv, AnswerInv, Followed
<1> QED
  BY <1>2, <1>3

\* A step of one part leaves the answers of the others alone.
LEMMA OutputStep ==
  TidyInv /\ OutputInv /\ [MCNext]_<<part, vars, sVars, shVars, pVars, fVars, uVars, dVars, aVars>> => OutputInv'
<1> SUFFICES ASSUME TidyInv, OutputInv,
                    [MCNext]_<<part, vars, sVars, shVars, pVars, fVars, uVars, dVars, aVars>>
             PROVE  OutputInv'
  OBVIOUS
<1>0. ShellInv /\ LogInv /\ AnswerInv
  BY DEF OutputInv
<1>1. ShellInv'
  <2>1. SshStream!Next \/ UNCHANGED shVars
    BY DEF MCNext
  <2>2. UNCHANGED shVars => ShellInv'
    BY <1>0 DEF shVars, ShellInv
  <2> QED
    BY <1>0, <2>1, <2>2, ShellStep
<1>2. LogInv'
  <2>1. PodStreams!LogNext \/ UNCHANGED <<handler, over, source, lines, events, shown>>
    <3>1. PodStreams!LogNext \/ PodStreams!TerminalNext \/ UNCHANGED pVars
      BY DEF MCNext
    <3>2. PodStreams!TerminalNext => UNCHANGED <<handler, over, source, lines, events, shown>>
      BY DEF PodStreams!TerminalNext, PodStreams!ShellEnds, PodStreams!ClientGoes, PodStreams!ReadMessage,
         PodStreams!WriteInput, PodStreams!ReaderEnds, PodStreams!StreamReturns, PodStreams!TerminalExits,
         PodStreams!logs
    <3> QED
      BY <3>1, <3>2 DEF pVars
  <2>2. ASSUME UNCHANGED <<handler, over, source, lines, events, shown>> PROVE LogInv'
    <3>1. Queued' = Queued /\ Lines' = Lines
      BY <2>2 DEF Queued, Lines
    <3> QED
      BY <1>0, <2>2, <3>1 DEF LogInv, PodStreams!AllDone
  <2> QED
    BY <1>0, <2>1, <2>2, LogStep
<1>3. AnswerInv'
  <2>1. DockerRuntime!Next \/ UNCHANGED dVars
    BY DEF MCNext
  <2>2. UNCHANGED dVars => AnswerInv'
    BY <1>0 DEF dVars, AnswerInv, Followed, DockerRuntime!Last
  <2> QED
    BY <1>0, <2>1, <2>2, AnswerStep
<1> QED
  BY <1>1, <1>2, <1>3 DEF OutputInv

\* A client that is told of the end has all that came before it: the exit of a shell (writeSSHTerminal),
\* the end of a log stream of several sources, the end of a container's log that is followed.
THEOREM OutputCompleteHolds == MCSpec => []OutputComplete
<1>1. OutputInv => OutputComplete
  <2> SUFFICES ASSUME OutputInv PROVE OutputComplete
    OBVIOUS
  <2>1. SshStream!ExitFollowsOutput
    BY DEF OutputInv, ShellInv, SshStream!ExitFollowsOutput
  <2>2. PodStreams!LogStreamComplete
    BY LogPromise DEF OutputInv
  <2>3. DockerRuntime!AnswerComplete
    BY DEF OutputInv, AnswerInv, Followed, DockerRuntime!AnswerComplete
  <2> QED
    BY <2>1, <2>2, <2>3 DEF OutputComplete
<1>2. LeakInv => TidyInv
  BY DEF LeakInv
<1> QED
  BY <1>1, <1>2, LeaksInit, LeaksStep, OutputInit, OutputStep, PTL DEF MCSpec

=============================================================================
