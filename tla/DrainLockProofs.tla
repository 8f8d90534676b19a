-------------------------- MODULE DrainLockProofs --------------------------
(***************************************************************************)
(* Theorems about DrainLock, for any agents, regions and number of faults.  *)
(***************************************************************************)
EXTENDS DrainLock, TLAPS

\* The calls that are under way, and the key each has.
Pending == [at : Places, key : Key]

\* The lock of a call is that of its region.
KeyOfRegion ==
  \A a \in Agent, r \in Region : call[<<a, r>>] # Idle => call[<<a, r>>].key[2] = r

\* A call at its change has the lock, and the lock runs, until it lapses.
HoldsUntilLapse ==
  \A a \in Agent, r \in Region :
    Calling(a, r, "change") /\ <<a, r>> \notin late =>
      table[call[<<a, r>>].key] = a /\ valid[call[<<a, r>>].key]

LEMMA IdleIsNotPending == Idle \notin Pending
BY DEF Idle, Pending, Places

\* A call at a place of its own is pending.
LEMMA CallIsPending ==
  ASSUME TypeOK, NEW a \in Agent, NEW r \in Region, call[<<a, r>>] # Idle
  PROVE  call[<<a, r>>] \in Pending /\ call[<<a, r>>].key \in Key
BY DEF TypeOK, Pending

LEMMA PlaceIsPending ==
  ASSUME TypeOK, NEW a \in Agent, NEW r \in Region, NEW p \in Places, Calling(a, r, p)
  PROVE  call[<<a, r>>] \in Pending /\ call[<<a, r>>].key \in Key /\ call[<<a, r>>] # Idle
<1>1. call[<<a, r>>] # Idle
  BY DEF Calling, Idle, Places
<1> QED BY <1>1, CallIsPending

\* Going on changes the place of one call and nothing else.
LEMMA GoesOn ==
  ASSUME TypeOK, NEW a \in Agent, NEW r \in Region, call[<<a, r>>] \in Pending,
         NEW p \in Places, Goes(a, r, p)
  PROVE  /\ call' \in [Agent \X Region -> {Idle} \cup Pending]
         /\ call'[<<a, r>>].at = p /\ call'[<<a, r>>].key = call[<<a, r>>].key
         /\ call'[<<a, r>>] # Idle
         /\ \A c \in Agent \X Region : c # <<a, r>> => call'[c] = call[c]
<1> DEFINE new == [call[<<a, r>>] EXCEPT !.at = p]
<1>1. new \in Pending /\ new.at = p /\ new.key = call[<<a, r>>].key
  BY DEF Pending
<1>2. call \in [Agent \X Region -> {Idle} \cup Pending]
  BY DEF TypeOK, Pending
<1>3. call' = [call EXCEPT ![<<a, r>>] = new]
  BY DEF Goes
<1>4. call'[<<a, r>>] = new /\ call' \in [Agent \X Region -> {Idle} \cup Pending]
  BY <1>1, <1>2, <1>3
<1> QED BY <1>1, <1>2, <1>3, <1>4, IdleIsNotPending

LEMMA EndsOne ==
  ASSUME TypeOK, NEW a \in Agent, NEW r \in Region, Ends(a, r)
  PROVE  /\ call' \in [Agent \X Region -> {Idle} \cup Pending]
         /\ call'[<<a, r>>] = Idle
         /\ \A c \in Agent \X Region : c # <<a, r>> => call'[c] = call[c]
BY DEF TypeOK, Ends, Pending

\* A put and a delete keep the types of the table.
LEMMA PutTyped ==
  ASSUME TypeOK, NEW a \in Agent, NEW k \in Key, PutItem(a, k)
  PROVE  /\ table' \in [Key -> Agent \cup {Absent}] /\ valid' \in [Key -> BOOLEAN]
         /\ table'[k] = a /\ valid'[k]
         /\ \A j \in Key : j # k => table'[j] = table[j] /\ valid'[j] = valid[j]
BY DEF TypeOK, PutItem

LEMMA DeleteTyped ==
  ASSUME TypeOK, NEW a \in Agent, NEW k \in Key, DeleteItem(a, k)
  PROVE  /\ table' \in [Key -> Agent \cup {Absent}] /\ valid' \in [Key -> BOOLEAN]
         /\ \A j \in Key : table[j] # a => table'[j] = table[j] /\ valid'[j] = valid[j]
         /\ \A j \in Key : j # k => table'[j] = table[j] /\ valid'[j] = valid[j]
BY DEF TypeOK, DeleteItem, MayDelete

-----------------------------------------------------------------------------
\* Types.

LEMMA InitTyped == Init => TypeOK
BY DrainLockAssumption DEF Init, TypeOK, Absent

LEMMA FaultTyped == ASSUME TypeOK, Fault PROVE faults' \in 0 .. MaxFaults
BY DrainLockAssumption DEF TypeOK, Fault

\* Every step keeps the types.
LEMMA TypeStep == TypeOK /\ [Next]_vars => TypeOK'
<1> SUFFICES ASSUME TypeOK, [Next]_vars PROVE TypeOK'
  OBVIOUS
<1> USE DrainLockAssumption
<1>t. /\ table \in [Key -> Agent \cup {Absent}] /\ valid \in [Key -> BOOLEAN]
      /\ call \in [Agent \X Region -> {Idle} \cup Pending]
      /\ late \subseteq Agent \X Region /\ faults \in 0 .. MaxFaults
  BY DEF TypeOK, Pending
<1>1. ASSUME NEW a \in Agent, NEW r \in Region, NEW op \in {"drain", "restore"}, Call(a, r, op)
      PROVE  TypeOK'
  <2> DEFINE new == [at |-> "acquire", key |-> <<op, r>>]
  <2>1. new \in Pending
    BY DEF Pending, Places, Key
  <2>2. call' \in [Agent \X Region -> {Idle} \cup Pending]
    BY <1>1, <1>t, <2>1 DEF Call
  <2>3. late' \subseteq Agent \X Region
    BY <1>1, <1>t DEF Call
  <2> QED BY <1>1, <1>t, <2>2, <2>3 DEF Call, TypeOK, Pending
<1>2. ASSUME NEW a \in Agent, NEW r \in Region, Acquire(a, r) PROVE TypeOK'
  <2> DEFINE k == call[<<a, r>>].key
  <2>1. call[<<a, r>>] \in Pending /\ k \in Key
    BY <1>2, PlaceIsPending DEF Acquire, Places
  <2>2. CASE MayPut(k)
    <3>1. PutItem(a, k) /\ Goes(a, r, "change") /\ UNCHANGED <<late, faults>>
      BY <1>2, <2>2 DEF Acquire
    <3>2. call' \in [Agent \X Region -> {Idle} \cup Pending]
      BY <2>1, <3>1, GoesOn DEF Places
    <3>3. table' \in [Key -> Agent \cup {Absent}] /\ valid' \in [Key -> BOOLEAN]
      BY <2>1, <3>1, PutTyped
    <3> QED BY <1>t, <3>1, <3>2, <3>3 DEF TypeOK, Pending
  <2>3. CASE ~MayPut(k)
    <3>1. Ends(a, r) /\ UNCHANGED <<table, valid, late, faults>>
      BY <1>2, <2>3 DEF Acquire
    <3>2. call' \in [Agent \X Region -> {Idle} \cup Pending]
      BY <3>1, EndsOne
    <3> QED BY <1>t, <3>1, <3>2 DEF TypeOK, Pending
  <2> QED BY <2>2, <2>3
<1>3. ASSUME NEW a \in Agent, NEW r \in Region, AcquireUnanswered(a, r) PROVE TypeOK'
  <2> DEFINE k == call[<<a, r>>].key
  <2>1. k \in Key /\ PutItem(a, k) /\ Fault /\ UNCHANGED <<call, late>>
    BY <1>3, PlaceIsPending DEF AcquireUnanswered, Places
  <2>2. table' \in [Key -> Agent \cup {Absent}] /\ valid' \in [Key -> BOOLEAN]
    BY <2>1, PutTyped
  <2> QED BY <1>t, <2>1, <2>2, FaultTyped DEF TypeOK, Pending
<1>4. ASSUME NEW a \in Agent, NEW r \in Region, Change(a, r) PROVE TypeOK'
  <2>1. call' \in [Agent \X Region -> {Idle} \cup Pending]
    BY <1>4, PlaceIsPending, GoesOn DEF Change, Places
  <2> QED BY <1>4, <1>t, <2>1 DEF Change, TypeOK, Pending
<1>5. ASSUME NEW a \in Agent, NEW r \in Region, Release(a, r) PROVE TypeOK'
  <2> DEFINE k == call[<<a, r>>].key
  <2>1. k \in Key /\ DeleteItem(a, k) /\ Ends(a, r) /\ UNCHANGED <<late, faults>>
    BY <1>5, PlaceIsPending DEF Release, Places
  <2>2. table' \in [Key -> Agent \cup {Absent}] /\ valid' \in [Key -> BOOLEAN]
    BY <2>1, DeleteTyped
  <2>3. call' \in [Agent \X Region -> {Idle} \cup Pending]
    BY <2>1, EndsOne
  <2> QED BY <1>t, <2>1, <2>2, <2>3 DEF TypeOK, Pending
<1>6. ASSUME NEW a \in Agent, NEW r \in Region, RequestFails(a, r) PROVE TypeOK'
  <2>1. call' \in [Agent \X Region -> {Idle} \cup Pending]
    BY <1>6, EndsOne DEF RequestFails
  <2> QED BY <1>6, <1>t, <2>1, FaultTyped DEF RequestFails, TypeOK, Pending
<1>7. ASSUME NEW a \in Agent, Die(a) PROVE TypeOK'
  <2>1. call' \in [Agent \X Region -> {Idle} \cup Pending]
    BY <1>7, <1>t DEF Die
  <2> QED BY <1>7, <1>t, <2>1, FaultTyped DEF Die, TypeOK, Pending
<1>8. ASSUME NEW k \in Key, Lapse(k) PROVE TypeOK'
  <2>1. late' \subseteq Agent \X Region /\ valid' \in [Key -> BOOLEAN]
    BY <1>8, <1>t DEF Lapse
  <2> QED BY <1>8, <1>t, <2>1 DEF Lapse, TypeOK, Pending
<1>9. CASE UNCHANGED vars
  BY <1>9 DEF vars, TypeOK
<1> QED BY <1>1, <1>2, <1>3, <1>4, <1>5, <1>6, <1>7, <1>8, <1>9 DEF Next, Step

\* The table holds agents, every call is at a place of its own with a lock of its
\* own, and the faults are within their bound.
THEOREM TypeCorrect == Spec => []TypeOK
<1> QED BY InitTyped, TypeStep, PTL DEF Spec

-----------------------------------------------------------------------------
\* Exclusion.

LEMMA KeyStep == TypeOK /\ KeyOfRegion /\ [Next]_vars => KeyOfRegion'
<1> SUFFICES ASSUME TypeOK, KeyOfRegion, [Next]_vars,
                    NEW b \in Agent, NEW q \in Region, call'[<<b, q>>] # Idle
             PROVE  call'[<<b, q>>].key[2] = q
  BY DEF KeyOfRegion
<1>0. call[<<b, q>>] # Idle => call[<<b, q>>].key[2] = q
  BY DEF KeyOfRegion
<1>s. ASSUME call'[<<b, q>>] = call[<<b, q>>] PROVE call'[<<b, q>>].key[2] = q
  BY <1>0, <1>s
<1>g. ASSUME NEW a \in Agent, NEW r \in Region, NEW p \in Places,
             call[<<a, r>>] \in Pending, Goes(a, r, p)
      PROVE  call'[<<b, q>>].key[2] = q
  <2>1. CASE <<a, r>> = <<b, q>>
    BY <1>0, <1>g, <2>1, GoesOn, IdleIsNotPending
  <2> QED BY <1>g, <1>s, <2>1, GoesOn
<1>e. ASSUME NEW a \in Agent, NEW r \in Region, Ends(a, r)
      PROVE  call'[<<b, q>>].key[2] = q
  BY <1>e, <1>s, EndsOne
<1>1. ASSUME NEW a \in Agent, NEW r \in Region, NEW op \in {"drain", "restore"}, Call(a, r, op)
      PROVE  call'[<<b, q>>].key[2] = q
  <2>1. CASE <<a, r>> = <<b, q>>
    BY <1>1, <2>1 DEF Call, TypeOK
  <2>2. CASE <<a, r>> # <<b, q>>
    BY <1>1, <1>s, <2>2 DEF Call, TypeOK
  <2> QED BY <2>1, <2>2
<1>2. ASSUME NEW a \in Agent, NEW r \in Region, Acquire(a, r)
      PROVE  call'[<<b, q>>].key[2] = q
  <2>1. call[<<a, r>>] \in Pending
    BY <1>2, PlaceIsPending DEF Acquire, Places
  <2>2. Goes(a, r, "change") \/ Ends(a, r)
    BY <1>2 DEF Acquire
  <2> QED BY <1>g, <1>e, <2>1, <2>2 DEF Places
<1>3. ASSUME NEW a \in Agent, NEW r \in Region, Change(a, r)
      PROVE  call'[<<b, q>>].key[2] = q
  BY <1>3, <1>g, PlaceIsPending DEF Change, Places
<1>4. ASSUME NEW a \in Agent, NEW r \in Region, Release(a, r) \/ RequestFails(a, r)
      PROVE  call'[<<b, q>>].key[2] = q
  BY <1>4, <1>e DEF Release, RequestFails
<1>5. ASSUME NEW a \in Agent, Die(a) PROVE call'[<<b, q>>].key[2] = q
  BY <1>5, <1>s DEF Die
<1>6. ASSUME UNCHANGED call PROVE call'[<<b, q>>].key[2] = q
  BY <1>6, <1>s
<1> QED BY <1>1, <1>2, <1>3, <1>4, <1>5, <1>6
        DEF Next, Step, AcquireUnanswered, Lapse, vars

\* The lock of a call at its change is touched by nobody else: another agent's
\* put needs it to have lapsed, and its delete needs its own name in it.
LEMMA HoldsStep ==
  TypeOK /\ KeyOfRegion /\ HoldsUntilLapse /\ [Next]_vars => HoldsUntilLapse'
<1> SUFFICES ASSUME TypeOK, KeyOfRegion, HoldsUntilLapse, [Next]_vars,
                    NEW b \in Agent, NEW q \in Region,
                    call'[<<b, q>>].at = "change", <<b, q>> \notin late'
             PROVE  table'[call'[<<b, q>>].key] = b /\ valid'[call'[<<b, q>>].key]
  BY DEF HoldsUntilLapse, Calling
<1> DEFINE Holds == table'[call'[<<b, q>>].key] = b /\ valid'[call'[<<b, q>>].key]
           key == call[<<b, q>>].key
<1>n. call'[<<b, q>>] # Idle
  BY DEF Idle
\* A call that was at its change held its lock.
<1>h. ASSUME call'[<<b, q>>] = call[<<b, q>>], late' = late
      PROVE  /\ key \in Key /\ table[key] = b /\ valid[key]
             /\ table'[key] = b /\ valid'[key] => Holds
  <2>1. Calling(b, q, "change")
    BY <1>h DEF Calling
  <2> QED BY <1>h, <2>1, PlaceIsPending DEF HoldsUntilLapse, Places
<1>1. ASSUME NEW a \in Agent, NEW r \in Region, NEW op \in {"drain", "restore"}, Call(a, r, op)
      PROVE  Holds
  <2>1. <<a, r>> # <<b, q>>
    BY <1>1 DEF Call, TypeOK
  <2>2. call'[<<b, q>>] = call[<<b, q>>] /\ (<<b, q>> \notin late)
    BY <1>1, <2>1 DEF Call, TypeOK
  <2>3. Calling(b, q, "change")
    BY <2>2 DEF Calling
  <2> QED BY <1>1, <2>2, <2>3 DEF HoldsUntilLapse, Call
<1>p. ASSUME NEW a \in Agent, NEW k \in Key, MayPut(k), PutItem(a, k),
             call'[<<b, q>>] = call[<<b, q>>], late' = late
      PROVE  Holds
  <2>1. key # k
    BY <1>h, <1>p DEF MayPut
  <2> QED BY <1>h, <1>p, <2>1, PutTyped
<1>d. ASSUME NEW a \in Agent, NEW r \in Region, Calling(a, r, "release"),
             DeleteItem(a, call[<<a, r>>].key),
             call'[<<b, q>>] = call[<<b, q>>], late' = late
      PROVE  Holds
  <2> DEFINE k == call[<<a, r>>].key
  <2>1. k \in Key /\ call[<<a, r>>] # Idle
    BY <1>d, PlaceIsPending DEF Places
  <2>2. CASE a # b
    BY <1>d, <1>h, <2>1, <2>2, DeleteTyped
  <2>3. CASE a = b
    <3>1. r # q
      BY <1>d, <2>3 DEF Calling
    <3>2. k[2] = r /\ key[2] = q
      BY <1>d, <1>n, <2>1 DEF KeyOfRegion
    <3> QED BY <1>d, <1>h, <2>1, <3>1, <3>2, DeleteTyped
  <2> QED BY <2>2, <2>3
<1>2. ASSUME NEW a \in Agent, NEW r \in Region, Acquire(a, r) PROVE Holds
  <2> DEFINE k == call[<<a, r>>].key
  <2>1. call[<<a, r>>] \in Pending /\ k \in Key
    BY <1>2, PlaceIsPending DEF Acquire, Places
  <2>2. CASE MayPut(k)
    <3>1. PutItem(a, k) /\ Goes(a, r, "change") /\ late' = late
      BY <1>2, <2>2 DEF Acquire
    <3>2. CASE <<a, r>> = <<b, q>>
      <4>1. call'[<<b, q>>].key = k
        BY <2>1, <3>1, <3>2, GoesOn DEF Places
      <4> QED BY <2>1, <3>1, <3>2, <4>1, PutTyped
    <3>3. CASE <<a, r>> # <<b, q>>
      <4>1. call'[<<b, q>>] = call[<<b, q>>]
        BY <2>1, <3>1, <3>3, GoesOn DEF Places
      <4> QED BY <1>p, <2>1, <2>2, <3>1, <4>1
    <3> QED BY <3>2, <3>3
  <2>3. CASE ~MayPut(k)
    <3>1. Ends(a, r) /\ UNCHANGED <<table, valid, late>>
      BY <1>2, <2>3 DEF Acquire
    <3>2. call'[<<b, q>>] = call[<<b, q>>]
      BY <1>n, <3>1, EndsOne
    <3> QED BY <1>h, <3>1, <3>2
  <2> QED BY <2>2, <2>3
<1>3. ASSUME NEW a \in Agent, NEW r \in Region, AcquireUnanswered(a, r) PROVE Holds
  BY <1>3, <1>p, PlaceIsPending DEF AcquireUnanswered, Places
<1>4. ASSUME NEW a \in Agent, NEW r \in Region, Change(a, r) PROVE Holds
  <2>1. call[<<a, r>>] \in Pending /\ Goes(a, r, "release") /\ UNCHANGED <<table, valid, late>>
    BY <1>4, PlaceIsPending DEF Change, Places
  <2>2. call'[<<b, q>>] = call[<<b, q>>]
    BY <2>1, GoesOn DEF Places
  <2> QED BY <1>h, <2>1, <2>2
<1>5. ASSUME NEW a \in Agent, NEW r \in Region, Release(a, r) PROVE Holds
  <2>1. call'[<<b, q>>] = call[<<b, q>>]
    BY <1>5, <1>n, EndsOne DEF Release
  <2> QED BY <1>5, <1>d, <2>1 DEF Release
<1>6. ASSUME NEW a \in Agent, NEW r \in Region, RequestFails(a, r) PROVE Holds
  <2>1. call'[<<b, q>>] = call[<<b, q>>]
    BY <1>6, <1>n, EndsOne DEF RequestFails
  <2> QED BY <1>6, <1>h, <2>1 DEF RequestFails
<1>7. ASSUME NEW a \in Agent, Die(a) PROVE Holds
  <2>1. call'[<<b, q>>] = call[<<b, q>>]
    BY <1>7, <1>n DEF Die
  <2> QED BY <1>7, <1>h, <2>1 DEF Die
\* Whoever loses its lock to the clock is late.
<1>8. ASSUME NEW k \in Key, Lapse(k) PROVE Holds
  <2>1. call' = call /\ table' = table /\ <<b, q>> \notin late
    BY <1>8 DEF Lapse
  <2>2. Calling(b, q, "change")
    BY <2>1 DEF Calling
  <2>3. table[key] = b /\ valid[key] /\ key \in Key
    BY <2>1, <2>2, PlaceIsPending DEF HoldsUntilLapse, Places
  <2>4. key # k
    BY <1>8, <1>n, <2>1, <2>3 DEF Lapse
  <2> QED BY <1>8, <2>1, <2>3, <2>4 DEF Lapse, TypeOK
<1>9. CASE UNCHANGED vars
  BY <1>9, <1>h DEF vars
<1> QED BY <1>1, <1>2, <1>3, <1>4, <1>5, <1>6, <1>7, <1>8, <1>9 DEF Next, Step

LEMMA InitHolds == Init => KeyOfRegion /\ HoldsUntilLapse
BY DEF Init, KeyOfRegion, HoldsUntilLapse, Calling, Idle

LEMMA HoldersExclude == TypeOK /\ HoldsUntilLapse => ExclusiveUntilLapse
BY DEF HoldsUntilLapse, ExclusiveUntilLapse

\* Two agents are at the change of one record only if the lock of one of them
\* lapsed on the way, whatever fails, dies or is answered too late.
THEOREM ExclusionUntilLapse == Spec => []ExclusiveUntilLapse
<1> DEFINE IInv == TypeOK /\ KeyOfRegion /\ HoldsUntilLapse
<1>1. Init => IInv
  BY InitTyped, InitHolds
<1>2. IInv /\ [Next]_vars => IInv'
  BY TypeStep, KeyStep, HoldsStep
<1>3. IInv => ExclusiveUntilLapse
  BY HoldersExclude
<1> QED BY <1>1, <1>2, <1>3, PTL DEF Spec

-----------------------------------------------------------------------------
\* DrainLock implements Lease.

\* Who is in a section depends on the calls at their change alone.
LEMMA SameChanging ==
  ASSUME \A a \in Agent, r \in Region :
           /\ call'[<<a, r>>].at = "change" <=> call[<<a, r>>].at = "change"
           /\ call[<<a, r>>].at = "change" => call'[<<a, r>>].key = call[<<a, r>>].key
  PROVE  Changing' = Changing
<1>1. ASSUME NEW k \in Key
      PROVE  {a \in Agent : call'[<<a, k[2]>>].at = "change" /\ call'[<<a, k[2]>>].key = k}
           = {a \in Agent : call[<<a, k[2]>>].at = "change" /\ call[<<a, k[2]>>].key = k}
  <2>1. k[2] \in Region
    BY DEF Key
  <2> QED BY <2>1
<1> QED BY <1>1 DEF Changing, Calling

\* So a step of a call that is not at its change, before or after, leaves it.
LEMMA OutsideChanging ==
  ASSUME NEW b \in Agent, NEW q \in Region,
         call[<<b, q>>].at # "change", call'[<<b, q>>].at # "change",
         \A c \in Agent \X Region : c # <<b, q>> => call'[c] = call[c]
  PROVE  Changing' = Changing
<1>1. \A a \in Agent, r \in Region :
        /\ call'[<<a, r>>].at = "change" <=> call[<<a, r>>].at = "change"
        /\ call[<<a, r>>].at = "change" => call'[<<a, r>>].key = call[<<a, r>>].key
  <2> TAKE a \in Agent, r \in Region
  <2>1. CASE <<a, r>> = <<b, q>>
    BY <2>1
  <2> QED BY <2>1
<1> QED BY <1>1, SameChanging

LEMMA InitImplements == Init => L!LeaseInit
<1> SUFFICES ASSUME Init PROVE L!LeaseInit
  OBVIOUS
<1>1. ASSUME NEW k \in Key PROVE Changing[k] = {}
  BY <1>1 DEF Changing, Init, Calling, Idle, Key
<1>2. Changing = [k \in Key |-> {}]
  BY <1>1 DEF Changing
<1> QED BY <1>2 DEF Init, L!LeaseInit, L!Free, Absent

LEMMA StepImplements ==
  TypeOK /\ KeyOfRegion /\ [Next]_vars => [L!LeaseNext]_(L!leaseVars)
<1> SUFFICES ASSUME TypeOK, KeyOfRegion, [Next]_vars
             PROVE  L!LeaseNext \/ UNCHANGED <<table, valid, Changing>>
  BY DEF L!leaseVars
<1> DEFINE Implements == L!LeaseNext \/ UNCHANGED <<table, valid, Changing>>
<1>e. ASSUME NEW a \in Agent, NEW r \in Region, Ends(a, r), call[<<a, r>>].at # "change"
      PROVE  Changing' = Changing
  <2>1. call'[<<a, r>>].at # "change"
    BY <1>e, EndsOne DEF Idle
  <2> QED BY <1>e, <2>1, EndsOne, OutsideChanging
<1>1. ASSUME NEW a \in Agent, NEW r \in Region, NEW op \in {"drain", "restore"}, Call(a, r, op)
      PROVE  Implements
  <2>1. call[<<a, r>>].at # "change" /\ call'[<<a, r>>].at # "change"
    BY <1>1 DEF Call, Calling, TypeOK
  <2>2. \A c \in Agent \X Region : c # <<a, r>> => call'[c] = call[c]
    BY <1>1 DEF Call, TypeOK
  <2> QED BY <1>1, <2>1, <2>2, OutsideChanging DEF Call
<1>2. ASSUME NEW a \in Agent, NEW r \in Region, Acquire(a, r) PROVE Implements
  <2> DEFINE k == call[<<a, r>>].key
  <2>1. call[<<a, r>>] \in Pending /\ k \in Key /\ call[<<a, r>>] # Idle
    BY <1>2, PlaceIsPending DEF Acquire, Places
  <2>2. call[<<a, r>>].at = "acquire" /\ k[2] = r
    BY <1>2, <2>1 DEF Acquire, Calling, KeyOfRegion
  <2>3. CASE MayPut(k)
    <3>1. PutItem(a, k) /\ Goes(a, r, "change")
      BY <1>2, <2>3 DEF Acquire
    <3>2. /\ call'[<<a, r>>].at = "change" /\ call'[<<a, r>>].key = k
          /\ \A c \in Agent \X Region : c # <<a, r>> => call'[c] = call[c]
      BY <2>1, <3>1, GoesOn DEF Places
    <3>3. ASSUME NEW j \in Key
          PROVE  {b \in Agent : call'[<<b, j[2]>>].at = "change" /\ call'[<<b, j[2]>>].key = j}
               = IF j = k THEN Changing[j] \cup {a} ELSE Changing[j]
      <4>1. j[2] \in Region
        BY DEF Key
      <4>2. \A b \in Agent :
              call'[<<b, j[2]>>].at = "change" /\ call'[<<b, j[2]>>].key = j
                <=> \/ call[<<b, j[2]>>].at = "change" /\ call[<<b, j[2]>>].key = j
                    \/ b = a /\ j = k
        <5> TAKE b \in Agent
        <5>1. CASE <<b, j[2]>> = <<a, r>>
          BY <2>2, <3>2, <5>1
        <5>2. CASE <<b, j[2]>> # <<a, r>>
          BY <2>2, <3>2, <4>1, <5>2
        <5> QED BY <5>1, <5>2
      <4> QED BY <4>2 DEF Changing, Calling
    <3>4. Changing' = [Changing EXCEPT ![k] = @ \cup {a}]
      BY <3>3 DEF Changing, Calling
    <3>5. L!Take(a, k, TRUE)
      BY <2>3, <3>1, <3>4 DEF L!Take, MayPut, PutItem
    <3> QED BY <2>1, <3>5 DEF L!LeaseNext
  <2>4. CASE ~MayPut(k)
    BY <1>2, <1>e, <2>2, <2>4 DEF Acquire
  <2> QED BY <2>3, <2>4
<1>3. ASSUME NEW a \in Agent, NEW r \in Region, AcquireUnanswered(a, r) PROVE Implements
  <2> DEFINE k == call[<<a, r>>].key
  <2>1. k \in Key /\ MayPut(k) /\ PutItem(a, k) /\ call' = call
    BY <1>3, PlaceIsPending DEF AcquireUnanswered, Places
  <2>2. Changing' = Changing
    BY <2>1, SameChanging
  <2>3. L!Take(a, k, FALSE)
    BY <2>1, <2>2 DEF L!Take, MayPut, PutItem
  <2> QED BY <2>1, <2>3 DEF L!LeaseNext
\* The end of a change is a step out of the section of its key.
<1>4. ASSUME NEW a \in Agent, NEW r \in Region, Change(a, r) PROVE Implements
  <2> DEFINE k == call[<<a, r>>].key
  <2>1. /\ call[<<a, r>>] \in Pending /\ k \in Key /\ call[<<a, r>>] # Idle
        /\ Goes(a, r, "release") /\ UNCHANGED <<table, valid>>
    BY <1>4, PlaceIsPending DEF Change, Places
  <2>2. k[2] = r
    BY <2>1 DEF KeyOfRegion
  <2>3. /\ call'[<<a, r>>].at = "release"
        /\ \A c \in Agent \X Region : c # <<a, r>> => call'[c] = call[c]
    BY <2>1, GoesOn DEF Places
  <2>4. ASSUME NEW j \in Key
        PROVE  {b \in Agent : call'[<<b, j[2]>>].at = "change" /\ call'[<<b, j[2]>>].key = j}
             = IF j \in {k} THEN Changing[j] \ {a} ELSE Changing[j]
    <3>1. j[2] \in Region
      BY DEF Key
    <3>2. \A b \in Agent :
            call'[<<b, j[2]>>].at = "change" /\ call'[<<b, j[2]>>].key = j
              <=> /\ call[<<b, j[2]>>].at = "change" /\ call[<<b, j[2]>>].key = j
                  /\ ~(b = a /\ j = k)
      <4> TAKE b \in Agent
      <4>1. CASE <<b, j[2]>> = <<a, r>>
        BY <2>2, <2>3, <4>1
      <4>2. CASE <<b, j[2]>> # <<a, r>>
        BY <2>2, <2>3, <3>1, <4>2
      <4> QED BY <4>1, <4>2
    <3> QED BY <3>2 DEF Changing, Calling
  <2>5. Changing' = [j \in Key |-> IF j \in {k} THEN Changing[j] \ {a} ELSE Changing[j]]
    BY <2>4 DEF Changing, Calling
  <2>6. L!Leave(a, {k})
    BY <2>1, <2>5 DEF L!Leave
  <2>7. {k} \in SUBSET Key
    BY <2>1
  <2> QED BY <2>6, <2>7 DEF L!LeaseNext
\* A delete gives back the lease of an agent that is past its change.
<1>d. ASSUME NEW a \in Agent, NEW r \in Region, Calling(a, r, "release"),
             DeleteItem(a, call[<<a, r>>].key), Changing' = Changing
      PROVE  Implements
  <2> DEFINE k == call[<<a, r>>].key
  <2>1. k \in Key /\ call[<<a, r>>] # Idle /\ call[<<a, r>>].at = "release"
    BY <1>d, PlaceIsPending DEF Calling, Places
  <2>2. a \notin Changing[k]
    BY <2>1 DEF Changing, Calling, KeyOfRegion
  <2>3. CASE MayDelete(a, k)
    <3>1. L!GiveBack(k)
      BY <1>d, <2>2, <2>3 DEF L!GiveBack, L!Free, Absent, DeleteItem, MayDelete
    <3> QED BY <2>1, <3>1 DEF L!LeaseNext
  <2>4. CASE ~MayDelete(a, k)
    BY <1>d, <2>4 DEF DeleteItem
  <2> QED BY <2>3, <2>4
<1>5. ASSUME NEW a \in Agent, NEW r \in Region, Release(a, r) PROVE Implements
  <2>1. Changing' = Changing
    BY <1>5, <1>e DEF Release, Calling
  <2> QED BY <1>5, <1>d, <2>1 DEF Release
<1>6. ASSUME NEW a \in Agent, NEW r \in Region, RequestFails(a, r) PROVE Implements
  BY <1>6, <1>e DEF RequestFails, Calling
\* A death is a step out of every section.
<1>7. ASSUME NEW a \in Agent, Die(a) PROVE Implements
  <2>1. ASSUME NEW j \in Key
        PROVE  {b \in Agent : call'[<<b, j[2]>>].at = "change" /\ call'[<<b, j[2]>>].key = j}
             = IF j \in Key THEN Changing[j] \ {a} ELSE Changing[j]
    <3>1. j[2] \in Region
      BY DEF Key
    <3>2. \A b \in Agent : call'[<<b, j[2]>>] = IF b = a THEN Idle ELSE call[<<b, j[2]>>]
      BY <1>7, <3>1 DEF Die
    <3> QED BY <3>2 DEF Changing, Calling, Idle
  <2>2. Changing' = [j \in Key |-> IF j \in Key THEN Changing[j] \ {a} ELSE Changing[j]]
    BY <2>1 DEF Changing, Calling
  <2>3. L!Leave(a, Key)
    BY <1>7, <2>2 DEF L!Leave, Die
  <2> QED BY <2>3 DEF L!LeaseNext
<1>8. ASSUME NEW k \in Key, Lapse(k) PROVE Implements
  <2>1. Changing' = Changing
    BY <1>8, SameChanging DEF Lapse
  <2>2. L!LapseOf(k)
    BY <1>8, <2>1 DEF L!LapseOf, Lapse
  <2> QED BY <2>2 DEF L!LeaseNext
<1>9. CASE UNCHANGED vars
  BY <1>9, SameChanging DEF vars
<1> QED BY <1>1, <1>2, <1>3, <1>4, <1>5, <1>6, <1>7, <1>8, <1>9 DEF Next, Step

\* Every step of the lock is a step of the lease, or none of its business.
THEOREM LockIsLease == Spec => L!LeaseSafety
<1> DEFINE IInv == TypeOK /\ KeyOfRegion
<1>1. Init => IInv
  BY InitTyped, InitHolds
<1>2. IInv /\ [Next]_vars => IInv'
  BY TypeStep, KeyStep
<1>3. Init => L!LeaseInit
  BY InitImplements
<1>4. IInv /\ [Next]_vars => [L!LeaseNext]_(L!leaseVars)
  BY StepImplements
<1> QED BY <1>1, <1>2, <1>3, <1>4, PTL DEF Spec, L!LeaseSafety
=============================================================================
