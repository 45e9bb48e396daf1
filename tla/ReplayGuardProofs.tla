-------------------------- MODULE ReplayGuardProofs --------------------------
(***************************************************************************)
(* Proofs about ReplayGuard for every set of devices, nonces and           *)
(* goroutines and every choice of the time constants that satisfies the    *)
(* two assumptions of that module.                                         *)
(***************************************************************************)
EXTENDS ReplayGuard, FiniteSetTheorems, SequenceTheorems, TLAPS

\* Eviction only ever removes entries.
LEMMA EvictType ==
  ASSUME NEW e \in [Nonce -> 1..MaxTime \cup {Never}], NEW now \in 1..MaxTime
  PROVE  Evict(e, now) \in [Nonce -> 1..MaxTime \cup {Never}]
  BY TimesAssumption DEF Evict, Never

\* A renewed or continued window is a window.
LEMMA WindowType ==
  ASSUME NEW rw \in [start : 0..MaxTime, count : 0..Limit], NEW now \in 1..MaxTime
  PROVE  CurrentWindow(rw, now) \in [start : 0..MaxTime, count : 0..Limit]
  BY TimesAssumption DEF CurrentWindow

\* The window a request falls in has begun.
LEMMA WindowStarts ==
  ASSUME NEW rw \in [start : 0..MaxTime, count : 0..Limit], NEW now \in 1..MaxTime
  PROVE  CurrentWindow(rw, now).start \in 1..MaxTime
  BY TimesAssumption DEF CurrentWindow

\* What a goroutine inside validateFreshnessAndRate carries.
LEMMA BusyType ==
  ASSUME TypeOK, NEW p \in Proc, pending[p].busy
  PROVE  /\ pending[p].frame \in Frame
         /\ pending[p].frame.dev \in Device
         /\ pending[p].frame.nonce \in Nonce
         /\ pending[p].frame.ts \in Timestamp
         /\ pending[p].now \in 1..MaxTime
<1>1. pending[p] \in Busy
  BY DEF TypeOK, Idle
<1> QED
  BY <1>1 DEF Busy, Frame

\* Every step keeps every variable in its type.
LEMMA StepType == TypeOK /\ [Next]_vars => TypeOK'
<1> SUFFICES ASSUME TypeOK, [Next]_vars PROVE TypeOK'
  OBVIOUS
<1>0. ASSUME NEW d \in Device
      PROVE  /\ cache[d] \in [Nonce -> 1..MaxTime \cup {Never}]
             /\ rate[d] \in [start : 0..MaxTime, count : 0..Limit]
  BY DEF TypeOK
<1>1. ASSUME NEW p \in Proc, NEW f \in Frame, ReadClock(p, f) PROVE TypeOK'
  BY <1>1 DEF TypeOK, ReadClock, Busy
<1>2. ASSUME NEW p \in Proc, RejectRate(p) PROVE TypeOK'
  <2>1. Evict(cache[pending[p].frame.dev], pending[p].now)
          \in [Nonce -> 1..MaxTime \cup {Never}]
    BY <1>2, <1>0, BusyType, EvictType DEF RejectRate
  <2> QED
    BY <2>1, <1>2, BusyType DEF TypeOK, RejectRate
<1>3. ASSUME NEW p \in Proc, RejectReplay(p) PROVE TypeOK'
  <2>1. Evict(cache[pending[p].frame.dev], pending[p].now)
          \in [Nonce -> 1..MaxTime \cup {Never}]
    BY <1>3, <1>0, BusyType, EvictType DEF RejectReplay
  <2> QED
    BY <2>1, <1>3, BusyType DEF TypeOK, RejectReplay
<1>4. ASSUME NEW p \in Proc, Accept(p) PROVE TypeOK'
  <2> DEFINE f    == pending[p].frame
             now  == pending[p].now
             kept == Evict(cache[f.dev], now)
             rw   == CurrentWindow(rate[f.dev], now)
  <2>1. /\ f \in Frame /\ f.dev \in Device /\ f.nonce \in Nonce
        /\ now \in 1..MaxTime
    BY <1>4, BusyType DEF Accept
  <2>2. kept \in [Nonce -> 1..MaxTime \cup {Never}]
    BY <1>0, <2>1, EvictType
  <2>3. rw \in [start : 0..MaxTime, count : 0..Limit]
    BY <1>0, <2>1, WindowType
  <2> HIDE DEF f, now, kept, rw
  <2>4. /\ cache' = [cache EXCEPT ![f.dev] = [kept EXCEPT ![f.nonce] = now]]
        /\ rate' = [rate EXCEPT ![f.dev] = [start |-> rw.start, count |-> rw.count + 1]]
        /\ log' = Append(log, [frame |-> f, at |-> now, start |-> rw.start, nth |-> rw.count + 1])
        /\ pending' = [pending EXCEPT ![p] = Idle]
        /\ clock' = clock
        /\ rw.count + 1 <= Limit
    BY <1>4 DEF Accept, f, now, kept, rw
  <2>5. [start |-> rw.start, count |-> rw.count + 1]
           \in [start : 0..MaxTime, count : 0..Limit]
    BY <2>3, <2>4, TimesAssumption
  <2>6. log' \in Seq([frame : Frame, at : 1..MaxTime, start : 1..MaxTime, nth : 1..Limit])
    <3>1. rw.start \in 1..MaxTime
      BY <1>0, <2>1, WindowStarts DEF rw
    <3>2. rw.count + 1 \in 1..Limit
      BY <2>3, <2>4, TimesAssumption
    <3> QED
      BY <2>1, <2>4, <3>1, <3>2 DEF TypeOK
  <2> QED
    BY <2>1, <2>2, <2>4, <2>5, <2>6 DEF TypeOK
<1>5. CASE Tick
  BY <1>5, TimesAssumption DEF TypeOK, Tick
<1>6. CASE Restart
  BY <1>6, TimesAssumption
  DEF TypeOK, Restart, NoRequests, EmptyCache, NoWindows, Never
<1>7. CASE UNCHANGED vars
  BY <1>7 DEF vars, TypeOK
<1> QED
  BY <1>1, <1>2, <1>3, <1>4, <1>5, <1>6, <1>7 DEF Next

\* Every variable keeps its type.
THEOREM TypeCorrect == Spec => []TypeOK
<1>1. Init => TypeOK
  BY TimesAssumption DEF Init, TypeOK, NoRequests, EmptyCache, NoWindows, Never
<1> QED
  BY <1>1, StepType, PTL DEF Spec

-----------------------------------------------------------------------------
\* A frame whose timestamp is a Unix time is fresh only within MaxAge of it,
\* because the 64-bit subtraction does not wrap.
LEMMA FreshBounds ==
  ASSUME NEW ts \in Timestamp, NEW now \in 1..MaxTime, Fresh(ts, now)
  PROVE  ts <= now + MaxSkew /\ (ts >= 0 => now <= ts + MaxAge)
<1>1. ts \in Int /\ MaxTime < Half /\ ts < Half
  BY TimesAssumption
<1>2. ts >= 0 => Sub64(now, ts) = now - ts
  BY <1>1, TimesAssumption DEF Sub64
<1> QED
  BY <1>1, <1>2, TimesAssumption DEF Fresh

\* A timestamp is a number.
LEMMA TimestampIsInt == \A t \in Timestamp : t \in Int
  BY TimesAssumption

\* The entries of the history have their type.
LEMMA LogEntryType ==
  ASSUME TypeOK, NEW i \in 1..Len(log)
  PROVE  /\ log[i].start \in 1..MaxTime /\ log[i].nth \in 1..Limit
         /\ log[i].frame \in Frame /\ log[i].at \in 1..MaxTime
         /\ log[i].frame.dev \in Device /\ log[i].frame.nonce \in Nonce
         /\ log[i].frame.ts \in Timestamp
<1> DEFINE Entry == [frame : Frame, at : 1..MaxTime, start : 1..MaxTime, nth : 1..Limit]
<1>1. log \in Seq(Entry)
  BY DEF TypeOK
<1> HIDE DEF Entry
<1>2. log[i] \in Entry
  BY <1>1
<1> QED
  BY <1>2 DEF Entry, Frame

\* Eviction by a goroutine whose reading is not in the future keeps every
\* accepted nonce in the cache until TTL after its acceptance.
LEMMA EvictKeeps ==
  ASSUME ReplayInv, NEW d \in Device, NEW now \in 1..MaxTime, now <= clock,
         NEW i \in 1..Len(log), log[i].frame.dev = d
  PROVE  \/ Evict(cache[d], now)[log[i].frame.nonce] = log[i].at
         \/ clock > log[i].at + TTL
<1>2. log[i].frame.nonce \in Nonce /\ log[i].at \in 1..MaxTime /\ clock \in 1..MaxTime
  BY LogEntryType DEF ReplayInv, TypeOK
<1>3. \/ cache[d][log[i].frame.nonce] = log[i].at
      \/ clock > log[i].at + TTL
  BY DEF ReplayInv
<1> QED
  BY <1>2, <1>3, TimesAssumption DEF Evict, Never

\* A goroutine that finds a nonce absent after eviction holds a frame that has
\* not been accepted: while the frame is fresh its entry cannot have gone.
LEMMA AbsentMeansNew ==
  ASSUME ReplayInv, NEW p \in Proc, pending[p].busy,
         Evict(cache[pending[p].frame.dev], pending[p].now)[pending[p].frame.nonce] = Never,
         NEW i \in 1..Len(log), log[i].frame = pending[p].frame
  PROVE  log[i].frame.ts < 0
<1> DEFINE f == pending[p].frame
           now == pending[p].now
<1>1. f.dev \in Device /\ f.ts \in Timestamp /\ now \in 1..MaxTime
  BY BusyType DEF ReplayInv
<1>2. now <= clock /\ clock <= now + MaxStall /\ Fresh(f.ts, now)
  BY DEF ReplayInv
<1>3. log[i].at \in 1..MaxTime /\ clock \in 1..MaxTime
  BY LogEntryType DEF ReplayInv, TypeOK
<1>4. Fresh(f.ts, log[i].at)
  BY DEF ReplayInv
<1>5. clock > log[i].at + TTL
  BY <1>1, <1>2, <1>3, EvictKeeps DEF Never
<1>6. f.ts <= log[i].at + MaxSkew
  BY <1>1, <1>3, <1>4, FreshBounds
<1>7. f.ts >= 0 => now <= f.ts + MaxAge
  BY <1>1, <1>2, FreshBounds
<1>8. f.ts \in Int
  BY <1>1, TimestampIsInt
<1> HIDE DEF f, now
<1>9. ~ (f.ts >= 0)
  BY <1>1, <1>2, <1>3, <1>5, <1>6, <1>7, <1>8, TimesAssumption, RetentionAssumption
<1> QED
  BY <1>8, <1>9 DEF f

\* The strengthened invariant, and with it NoReplay, holds in every behaviour.
\* The step that matters is Accept: AbsentMeansNew says its frame is new, and
\* the nonce it overwrites belonged only to entries older than TTL.
THEOREM ReplayInvariant == Spec => []ReplayInv
<1>1. Init => ReplayInv
  BY TimesAssumption
  DEF Init, ReplayInv, TypeOK, NoReplay, NoRequests, EmptyCache, NoWindows, Never, Idle
<1>2. ReplayInv /\ [Next]_vars => ReplayInv'
  <2> SUFFICES ASSUME ReplayInv, TypeOK', [Next]_vars PROVE ReplayInv'
    BY StepType DEF ReplayInv
  <2>0. clock \in 1..MaxTime /\ clock' \in 1..MaxTime
    BY DEF ReplayInv, TypeOK
  <2>1. ASSUME NEW p \in Proc, NEW f \in Frame, ReadClock(p, f) PROVE ReplayInv'
    <3>1. \A q \in Proc : pending'[q] = IF q = p
                             THEN [busy |-> TRUE, frame |-> f, now |-> clock]
                             ELSE pending[q]
      BY <2>1 DEF ReadClock, ReplayInv, TypeOK
    <3>2. clock <= clock + MaxStall
      BY <2>0, TimesAssumption
    <3> QED
      BY <2>0, <2>1, <3>1, <3>2 DEF ReadClock, ReplayInv, NoReplay
  <2>2. ASSUME NEW p \in Proc, RejectRate(p) \/ RejectReplay(p) PROVE ReplayInv'
    <3> DEFINE d == pending[p].frame.dev
               now == pending[p].now
    <3>1. d \in Device /\ now \in 1..MaxTime /\ now <= clock
      BY <2>2, BusyType DEF RejectRate, RejectReplay, ReplayInv
    <3>2. /\ \A e \in Device : cache'[e] = IF e = d THEN Evict(cache[d], now) ELSE cache[e]
          /\ \A q \in Proc : pending'[q] = IF q = p THEN Idle ELSE pending[q]
          /\ log' = log /\ clock' = clock
      BY <2>2 DEF RejectRate, RejectReplay, ReplayInv, TypeOK
    <3> HIDE DEF d, now
    <3>3. \A i \in 1..Len(log) :
            \/ cache'[log[i].frame.dev][log[i].frame.nonce] = log[i].at
            \/ clock > log[i].at + TTL
      <4> TAKE i \in 1..Len(log)
      <4>1. log[i].frame.dev \in Device
        BY LogEntryType DEF ReplayInv
      <4>2. CASE log[i].frame.dev = d
        BY <3>1, <3>2, <4>2, EvictKeeps
      <4>3. CASE log[i].frame.dev # d
        BY <3>2, <4>1, <4>3 DEF ReplayInv
      <4> QED
        BY <4>2, <4>3
    <3> QED
      BY <3>2, <3>3 DEF ReplayInv, NoReplay, Idle
  <2>3. ASSUME NEW p \in Proc, Accept(p) PROVE ReplayInv'
    <3> DEFINE f    == pending[p].frame
               now  == pending[p].now
               kept == Evict(cache[f.dev], now)
               rw   == CurrentWindow(rate[f.dev], now)
               new  == [frame |-> f, at |-> now, start |-> rw.start, nth |-> rw.count + 1]
    <3>1. /\ f \in Frame /\ f.dev \in Device /\ f.nonce \in Nonce
          /\ now \in 1..MaxTime /\ now <= clock /\ Fresh(f.ts, now)
      BY <2>3, BusyType DEF Accept, ReplayInv
    <3>2. cache[f.dev] \in [Nonce -> 1..MaxTime \cup {Never}]
      BY <3>1 DEF ReplayInv, TypeOK
    <3>3. kept \in [Nonce -> 1..MaxTime \cup {Never}]
      BY <3>1, <3>2, EvictType
    <3>4. /\ kept[f.nonce] = Never
          /\ cache' = [cache EXCEPT ![f.dev] = [kept EXCEPT ![f.nonce] = now]]
          /\ log' = Append(log, new)
          /\ pending' = [pending EXCEPT ![p] = Idle]
          /\ clock' = clock
      BY <2>3 DEF Accept
    <3>5. \A i \in 1..Len(log) : log[i].frame = f => f.ts < 0
      BY <2>3, <3>4, AbsentMeansNew DEF Accept
    <3>6. \A i \in 1..Len(log) :
            \/ log[i].frame.dev = f.dev /\ kept[log[i].frame.nonce] = log[i].at
            \/ log[i].frame.dev # f.dev
                 /\ cache[log[i].frame.dev][log[i].frame.nonce] = log[i].at
            \/ clock > log[i].at + TTL
      BY <3>1, EvictKeeps DEF ReplayInv
    <3> HIDE DEF f, now, kept, rw
    <3>7. /\ Len(log') = Len(log) + 1 /\ Len(log) \in Nat
          /\ log'[Len(log) + 1] = new
          /\ \A i \in 1..Len(log) : log'[i] = log[i]
      BY <3>4 DEF ReplayInv, TypeOK
    <3> DEFINE top == Len(log) + 1
    <3>8. \A i \in 1..Len(log') : i = top \/ i \in 1..Len(log)
      BY <3>7
    <3>9. \A i \in 1..Len(log') :
            log'[i].at <= clock' /\ Fresh(log'[i].frame.ts, log'[i].at)
      BY <3>1, <3>4, <3>7, <3>8 DEF ReplayInv
    <3>10. \A q \in Proc : pending'[q].busy =>
             /\ pending'[q].now <= clock' /\ clock' <= pending'[q].now + MaxStall
             /\ Fresh(pending'[q].frame.ts, pending'[q].now)
      BY <3>4 DEF ReplayInv, TypeOK, Idle
    <3>11. \A i \in 1..Len(log') :
             \/ cache'[log'[i].frame.dev][log'[i].frame.nonce] = log'[i].at
             \/ clock' > log'[i].at + TTL
      <4> TAKE i \in 1..Len(log')
      <4>1. \A e \in Device : cache'[e] = IF e = f.dev
                               THEN [kept EXCEPT ![f.nonce] = now] ELSE cache[e]
        BY <3>4 DEF ReplayInv, TypeOK
      <4>2. CASE i = top
        <5>1. log'[i].frame = f /\ log'[i].at = now
          BY <3>7, <4>2
        <5>2. [kept EXCEPT ![f.nonce] = now][f.nonce] = now
          BY <3>1, <3>3
        <5> QED
          BY <3>1, <4>1, <5>1, <5>2
      <4>3. CASE i \in 1..Len(log)
        <5>1. /\ log[i].frame.dev \in Device /\ log[i].frame.nonce \in Nonce
              /\ log[i].at \in 1..MaxTime /\ log'[i] = log[i]
          BY <3>7, <4>3, LogEntryType DEF ReplayInv
        <5>2. CASE log[i].frame.dev = f.dev /\ log[i].frame.nonce = f.nonce
          BY <3>4, <3>6, <4>3, <5>1, <5>2 DEF Never
        <5>3. CASE log[i].frame.dev = f.dev /\ log[i].frame.nonce # f.nonce
          <6>1. [kept EXCEPT ![f.nonce] = now][log[i].frame.nonce] = kept[log[i].frame.nonce]
            BY <3>3, <5>1, <5>3
          <6> QED
            BY <3>4, <3>6, <4>1, <4>3, <5>1, <5>3, <6>1
        <5>4. CASE log[i].frame.dev # f.dev
          BY <3>4, <3>6, <4>1, <4>3, <5>1, <5>4
        <5> QED
          BY <5>2, <5>3, <5>4
      <4> QED
        BY <3>8, <4>2, <4>3
    <3>12. NoReplay'
      <4> SUFFICES ASSUME NEW i \in 1..Len(log'), NEW j \in 1..Len(log'),
                          i # j, log'[i].frame = log'[j].frame
                   PROVE  log'[i].frame.ts < 0
        BY DEF NoReplay
      <4>1. CASE i \in 1..Len(log) /\ j \in 1..Len(log)
        BY <3>7, <4>1 DEF ReplayInv, NoReplay
      <4>2. CASE i = top /\ j \in 1..Len(log)
        BY <3>5, <3>7, <4>2
      <4>3. CASE i \in 1..Len(log) /\ j = top
        BY <3>5, <3>7, <4>3
      <4> QED
        BY <3>8, <4>1, <4>2, <4>3
    <3> QED
      BY <3>9, <3>10, <3>11, <3>12 DEF ReplayInv
  <2>4. CASE Tick
    <3>1. \A p \in Proc : pending[p].busy => pending[p].now \in 1..MaxTime
      BY BusyType DEF ReplayInv
    <3>2. \A i \in 1..Len(log) : log[i].at \in 1..MaxTime
      BY LogEntryType DEF ReplayInv
    <3> QED
      BY <2>0, <2>4, <3>1, <3>2, TimesAssumption DEF Tick, ReplayInv, NoReplay
  <2>5. CASE Restart
    BY <2>5 DEF Restart, ReplayInv, NoReplay, NoRequests, Idle
  <2>6. CASE UNCHANGED vars
    BY <2>6 DEF vars, ReplayInv, NoReplay
  <2> QED
    BY <2>1, <2>2, <2>3, <2>4, <2>5, <2>6 DEF Next
<1> QED
  BY <1>1, <1>2, PTL DEF Spec

\* No frame with a Unix timestamp is accepted twice while the daemon runs.
THEOREM NeverAcceptedTwice == Spec => []NoReplay
<1>1. ReplayInv => NoReplay
  BY DEF ReplayInv
<1> QED
  BY <1>1, ReplayInvariant, PTL

-----------------------------------------------------------------------------
\* What the acceptance of frame f does to windows, history and cache, field by field:
\* it takes place nth of the window that began at start.
Commits(f, now, start, nth) ==
  /\ f.dev \in Device /\ f.nonce \in Nonce
  /\ \/ /\ start = now /\ nth = 1
        /\ rate[f.dev].start = 0 \/ now - rate[f.dev].start >= Window
     \/ /\ start = rate[f.dev].start /\ nth = rate[f.dev].count + 1
        /\ now - start < Window
  /\ Len(log) \in Nat /\ Len(log') = Len(log) + 1
  /\ \A i \in 1..Len(log) : log'[i] = log[i]
  /\ log'[Len(log) + 1] = [frame |-> f, at |-> now, start |-> start, nth |-> nth]
  /\ \A d \in Device : rate'[d] = IF d = f.dev THEN [start |-> start, count |-> nth] ELSE rate[d]
  /\ \A d \in Device, n \in Nonce :
       cache'[d][n] = IF d = f.dev THEN IF n = f.nonce THEN now ELSE Evict(cache[d], now)[n]
                                   ELSE cache[d][n]
  /\ clock' = clock

LEMMA AcceptCommits ==
  ASSUME TypeOK, NEW p \in Proc, Accept(p)
  PROVE  \E f \in Frame, now \in 1..MaxTime, start \in 1..MaxTime, nth \in 1..Limit :
           f = pending[p].frame /\ now = pending[p].now /\ Commits(f, now, start, nth)
<1> DEFINE f    == pending[p].frame
           now  == pending[p].now
           kept == Evict(cache[f.dev], now)
           rw   == CurrentWindow(rate[f.dev], now)
<1>1. /\ f \in Frame /\ f.dev \in Device /\ f.nonce \in Nonce /\ now \in 1..MaxTime
  BY BusyType DEF Accept
<1>2. /\ rate[f.dev] \in [start : 0..MaxTime, count : 0..Limit]
      /\ cache[f.dev] \in [Nonce -> 1..MaxTime \cup {Never}]
  BY <1>1 DEF TypeOK
<1>3. kept \in [Nonce -> 1..MaxTime \cup {Never}]
  BY <1>1, <1>2, EvictType
<1>4. rw \in [start : 0..MaxTime, count : 0..Limit] /\ rw.start \in 1..MaxTime
  BY <1>1, <1>2, WindowType, WindowStarts
<1>5. /\ cache' = [cache EXCEPT ![f.dev] = [kept EXCEPT ![f.nonce] = now]]
      /\ rate' = [rate EXCEPT ![f.dev] = [start |-> rw.start, count |-> rw.count + 1]]
      /\ log' = Append(log, [frame |-> f, at |-> now, start |-> rw.start, nth |-> rw.count + 1])
      /\ clock' = clock
      /\ rw.count + 1 <= Limit
  BY DEF Accept
<1>6. \/ /\ rw.start = now /\ rw.count + 1 = 1
         /\ rate[f.dev].start = 0 \/ now - rate[f.dev].start >= Window
      \/ /\ rw.start = rate[f.dev].start /\ rw.count + 1 = rate[f.dev].count + 1
         /\ now - rw.start < Window
  <2>1. CASE rate[f.dev].start = 0 \/ now - rate[f.dev].start >= Window
    BY <2>1 DEF CurrentWindow
  <2>2. CASE ~(rate[f.dev].start = 0 \/ now - rate[f.dev].start >= Window)
    <3>1. rw = rate[f.dev]
      BY <2>2 DEF CurrentWindow
    <3>2. now - rate[f.dev].start < Window
      BY <1>1, <1>2, <2>2, TimesAssumption
    <3> QED
      BY <3>1, <3>2
  <2> QED
    BY <2>1, <2>2
<1> HIDE DEF f, now, rw
<1>7. rw.count + 1 \in 1..Limit
  BY <1>4, <1>5, TimesAssumption
<1>8. \A d \in Device, n \in Nonce :
        cache'[d][n] = IF d = f.dev THEN IF n = f.nonce THEN now ELSE kept[n] ELSE cache[d][n]
  BY <1>1, <1>3, <1>5 DEF TypeOK
<1>9. \A d \in Device :
        rate'[d] = IF d = f.dev THEN [start |-> rw.start, count |-> rw.count + 1] ELSE rate[d]
  BY <1>5 DEF TypeOK
<1>10. /\ Len(log) \in Nat /\ Len(log') = Len(log) + 1
       /\ \A i \in 1..Len(log) : log'[i] = log[i]
       /\ log'[Len(log) + 1] = [frame |-> f, at |-> now, start |-> rw.start, nth |-> rw.count + 1]
  BY <1>5 DEF TypeOK
<1>11. Commits(f, now, rw.start, rw.count + 1)
  BY <1>1, <1>5, <1>6, <1>8, <1>9, <1>10 DEF Commits, kept
<1>12. f = pending[p].frame /\ now = pending[p].now
  BY DEF f, now
<1> QED
  BY <1>1, <1>4, <1>7, <1>11, <1>12

\* Steps that leave history and windows alone keep what is known of windows.
LEMMA RateFrame ==
  ASSUME TypeOK, RateInv, clock \in Nat, clock' \in Nat, clock' >= clock,
         UNCHANGED <<rate, log>>
  PROVE  RateInv'
<1>1. \A d \in Device : rate[d].start \in Nat
  BY TimesAssumption DEF TypeOK
<1>2. \A d \in Device : rate'[d].start <= clock'
  BY <1>1 DEF RateInv
<1> QED
  BY <1>2 DEF RateInv

\* Every step keeps what is known of windows.
LEMMA StepRate == ReplayInv /\ RateInv /\ [Next]_vars => RateInv'
<1> SUFFICES ASSUME ReplayInv, RateInv, TypeOK, TypeOK', [Next]_vars PROVE RateInv'
  BY StepType DEF ReplayInv
<1>0. /\ clock \in 1..MaxTime /\ clock' \in 1..MaxTime
      /\ Window \in Nat \ {0} /\ MaxStall \in Nat /\ Limit \in Nat /\ MaxTime \in Nat
  BY TimesAssumption DEF TypeOK
<1>1. ASSUME NEW p \in Proc, Accept(p) PROVE RateInv'
  <2>1. PICK f \in Frame, now \in 1..MaxTime, start \in 1..MaxTime, nth \in 1..Limit :
          f = pending[p].frame /\ now = pending[p].now /\ Commits(f, now, start, nth)
    BY <1>1, AcceptCommits
  <2> DEFINE top == Len(log) + 1
             d   == f.dev
  <2>2. now <= clock /\ clock <= now + MaxStall
    BY <1>1, <2>1 DEF Accept, ReplayInv
  <2>3. d \in Device /\ rate[d].start \in Nat /\ rate[d].start <= clock /\ rate[d].count \in Nat
    BY <1>0, <2>1 DEF Commits, TypeOK, RateInv
  <2>4. start <= clock /\ now < start + Window /\ start <= now + MaxStall
    <3>1. CASE start = now
      BY <1>0, <2>2, <3>1
    <3>2. CASE start = rate[d].start /\ now - start < Window
      BY <1>0, <2>2, <2>3, <3>2
    <3> QED
      BY <2>1, <3>1, <3>2 DEF Commits
  <2>5. ASSUME NEW i \in 1..Len(log)
        PROVE  /\ log[i].start \in 1..MaxTime /\ log[i].nth \in 1..Limit
               /\ log[i].at \in 1..MaxTime /\ log[i].frame.dev \in Device
               /\ log'[i] = log[i]
    BY <2>1, LogEntryType DEF Commits
  <2>6. ASSUME NEW i \in 1..Len(log), log[i].frame.dev = d
        PROVE  \/ log[i].start = start /\ log[i].nth < nth
               \/ log[i].start + Window <= start
    <3>1. \/ log[i].start = rate[d].start /\ log[i].nth <= rate[d].count
          \/ log[i].start + Window <= rate[d].start
      BY <2>6 DEF RateInv
    <3>2. CASE start = now /\ (rate[d].start = 0 \/ now - rate[d].start >= Window)
      <4>1. \A s, r, n, w \in Int :
              (s > 0 /\ w > 0 /\ (s = r \/ s + w <= r) /\ (r = 0 \/ n - r >= w)) => s + w <= n
        OBVIOUS
      <4>2. /\ log[i].start \in Int /\ log[i].start > 0 /\ Window \in Int /\ Window > 0
            /\ rate[d].start \in Int /\ now \in Int
        BY <1>0, <2>3, <2>5
      <4>3. log[i].start = rate[d].start \/ log[i].start + Window <= rate[d].start
        BY <3>1
      <4>4. log[i].start + Window <= now
        BY ONLY <3>2, <4>1, <4>2, <4>3
      <4> QED
        BY <3>2, <4>4
    <3>3. CASE start = rate[d].start /\ nth = rate[d].count + 1
      BY <1>0, <2>3, <2>5, <3>1, <3>3
    <3> QED
      BY <2>1, <3>2, <3>3 DEF Commits
  <2>7. /\ Len(log) \in Nat /\ Len(log') = top /\ clock' = clock
        /\ log'[top] = [frame |-> f, at |-> now, start |-> start, nth |-> nth]
        /\ \A e \in Device : rate'[e] = IF e = d THEN [start |-> start, count |-> nth] ELSE rate[e]
    BY <2>1 DEF Commits
  <2> HIDE DEF d
  <2>8. \A i \in 1..Len(log') : i = top \/ i \in 1..Len(log)
    BY <2>7
  <2>9. \A e \in Device : rate'[e].start <= clock'
    BY <2>4, <2>7 DEF RateInv
  <2>10. ASSUME NEW i \in 1..Len(log')
         PROVE  /\ log'[i].at < log'[i].start + Window
                /\ log'[i].start <= log'[i].at + MaxStall
                /\ \/ /\ log'[i].start = rate'[log'[i].frame.dev].start
                      /\ log'[i].nth <= rate'[log'[i].frame.dev].count
                   \/ log'[i].start + Window <= rate'[log'[i].frame.dev].start
    <3>1. CASE i = top
      BY <1>0, <2>3, <2>4, <2>7, <3>1 DEF d
    <3>2. CASE i \in 1..Len(log) /\ log[i].frame.dev = d
      <4>1. log'[i] = log[i] /\ rate'[log'[i].frame.dev] = [start |-> start, count |-> nth]
        BY <2>3, <2>5, <2>7, <3>2
      <4>2. log[i].at < log[i].start + Window /\ log[i].start <= log[i].at + MaxStall
        BY <3>2 DEF RateInv
      <4>3. \/ log[i].start = start /\ log[i].nth <= nth
            \/ log[i].start + Window <= start
        BY <2>5, <2>6, <3>2
      <4> QED
        BY <4>1, <4>2, <4>3
    <3>3. CASE i \in 1..Len(log) /\ log[i].frame.dev # d
      BY <2>5, <2>7, <3>3 DEF RateInv
    <3> QED
      BY <2>8, <3>1, <3>2, <3>3
  <2>11. ASSUME NEW i \in 1..Len(log'), NEW j \in 1..Len(log'), i < j,
                log'[i].frame.dev = log'[j].frame.dev
         PROVE  \/ log'[i].start = log'[j].start /\ log'[i].nth < log'[j].nth
                \/ log'[i].start + Window <= log'[j].start
    <3>1. i \in 1..Len(log)
      BY <2>7, <2>11
    <3>2. CASE j = top
      <4>1. log'[j].frame.dev = d /\ log'[j].start = start /\ log'[j].nth = nth
        BY <2>7, <3>2 DEF d
      <4>2. log'[i] = log[i] /\ log[i].frame.dev = d
        BY <2>5, <2>11, <3>1, <4>1
      <4> QED
        BY <2>6, <3>1, <4>1, <4>2
    <3>3. CASE j \in 1..Len(log)
      BY <2>5, <2>11, <3>1, <3>3 DEF RateInv
    <3> QED
      BY <2>8, <3>2, <3>3
  <2> QED
    BY <2>9, <2>10, <2>11 DEF RateInv
<1>2. ASSUME NEW p \in Proc,
             \/ \E f \in Frame : ReadClock(p, f)
             \/ RejectRate(p) \/ RejectReplay(p)
      PROVE  RateInv'
  <2>1. UNCHANGED <<clock, rate, log>>
    BY <1>2 DEF ReadClock, RejectRate, RejectReplay
  <2> QED
    BY <1>0, <2>1, RateFrame
<1>3. CASE Tick \/ UNCHANGED vars
  <2>1. UNCHANGED <<rate, log>> /\ clock' >= clock
    BY <1>0, <1>3 DEF Tick, vars
  <2> QED
    BY <1>0, <2>1, RateFrame
<1>4. CASE Restart
  BY <1>0, <1>4 DEF Restart, RateInv, NoWindows
<1> QED
  BY <1>1, <1>2, <1>3, <1>4 DEF Next

\* The windows hold what is known of them in every state the daemon reaches.
LEMMA RateInvariant == Spec => []RateInv
<1>1. Init => RateInv
  BY DEF Init, RateInv, NoWindows
<1>2. ReplayInv /\ RateInv /\ [Next]_vars => RateInv'
  BY StepRate
<1> QED
  BY <1>1, <1>2, ReplayInvariant, PTL DEF Spec

\* What Functions.tla calls an injection, by its elements.
LEMMA InjectionFrom ==
  ASSUME NEW S, NEW T, NEW f, f \in [S -> T], \A x, y \in S : f[x] = f[y] => x = y
  PROVE  f \in Injection(S, T)
<1>1. DOMAIN f = S
  OBVIOUS
<1> QED
  BY <1>1 DEF Injection, IsInjective

\* Requests of one device that fall in two windows number at most 2 * Limit: each has a
\* place of its own.
LEMMA TwoWindows ==
  ASSUME TypeOK, RateInv, NEW i \in 1..Len(log), NEW j \in 1..Len(log),
         log[j].frame.dev = log[i].frame.dev,
         \A k \in Between(i, j) : log[k].start = log[i].start \/ log[k].start = log[j].start
  PROVE  Cardinality(Between(i, j)) <= 2 * Limit
<1> DEFINE S == Between(i, j)
           g == [k \in S |-> IF log[k].start = log[i].start THEN log[k].nth
                                                            ELSE Limit + log[k].nth]
<1>1. ASSUME NEW k \in S
      PROVE  /\ k \in 1..Len(log) /\ log[k].frame.dev = log[i].frame.dev
             /\ log[k].nth \in 1..Limit /\ log[k].start \in 1..MaxTime
  <2>1. k \in 1..Len(log) /\ log[k].frame.dev = log[i].frame.dev
    BY DEF Between, TypeOK
  <2> QED
    BY <2>1, LogEntryType
<1>2. Limit \in Nat /\ Window \in Nat \ {0} /\ MaxTime \in Nat
  BY TimesAssumption
<1>3. g \in [S -> 1..(2 * Limit)]
  BY <1>1, <1>2
<1>4. ASSUME NEW k \in S, NEW l \in S, k < l PROVE g[k] # g[l]
  <2>1. \/ log[k].start = log[l].start /\ log[k].nth < log[l].nth
        \/ log[k].start + Window <= log[l].start
    BY <1>1, <1>4 DEF RateInv
  <2>2. /\ log[k].start = log[i].start \/ log[k].start = log[j].start
        /\ log[l].start = log[i].start \/ log[l].start = log[j].start
    OBVIOUS
  <2>3. /\ log[k].nth \in 1..Limit /\ log[k].start \in 1..MaxTime
        /\ log[l].nth \in 1..Limit /\ log[l].start \in 1..MaxTime
    BY <1>1
  <2>4. /\ g[k] = IF log[k].start = log[i].start THEN log[k].nth ELSE Limit + log[k].nth
        /\ g[l] = IF log[l].start = log[i].start THEN log[l].nth ELSE Limit + log[l].nth
    OBVIOUS
  <2> HIDE DEF g, S
  <2>5. CASE log[k].start = log[l].start /\ log[k].nth < log[l].nth
    BY <1>2, <2>3, <2>4, <2>5
  <2>6. CASE log[k].start + Window <= log[l].start
    <3>1. log[k].start # log[l].start
      BY <1>2, <2>3, <2>6
    <3> QED
      BY <1>2, <2>2, <2>3, <2>4, <3>1
  <2> QED
    BY <2>1, <2>5, <2>6
<1>5. \A x, y \in S : g[x] = g[y] => x = y
  <2>1. \A x \in S : x \in Int
    BY <1>1
  <2> HIDE DEF g, S
  <2> QED
    BY <1>4, <2>1
<1> HIDE DEF g, S
<1>6. g \in Injection(S, 1..(2 * Limit))
  BY <1>3, <1>5, InjectionFrom
<1>7. IsFiniteSet(1..(2 * Limit)) /\ Cardinality(1..(2 * Limit)) = 2 * Limit
  <2>1. 1 \in Int /\ 2 * Limit \in Int /\ 2 * Limit - 1 + 1 = 2 * Limit
        /\ (1 > 2 * Limit => 2 * Limit = 0)
    BY <1>2
  <2> QED
    BY <2>1, FS_Interval
<1>8. Cardinality(S) <= Cardinality(1..(2 * Limit))
  BY <1>6, <1>7, FS_Injection
<1> QED
  BY <1>7, <1>8 DEF S

\* A burst of more than two windows' worth touches a third window, and the windows
\* before and after that one are two window lengths apart.
LEMMA BurstsFollow == TypeOK /\ RateInv => BurstBound
<1> SUFFICES ASSUME TypeOK, RateInv, NEW i \in 1..Len(log), NEW j \in 1..Len(log),
                    log[j].frame.dev = log[i].frame.dev,
                    Cardinality(Between(i, j)) > 2 * Limit
             PROVE  log[j].at - log[i].at > Window - MaxStall
  BY DEF BurstBound
<1>1. PICK k \in Between(i, j) : log[k].start # log[i].start /\ log[k].start # log[j].start
  <2>1. ASSUME \A k \in Between(i, j) : log[k].start = log[i].start \/ log[k].start = log[j].start
        PROVE  FALSE
    <3>1. Cardinality(Between(i, j)) <= 2 * Limit
      BY <2>1, TwoWindows
    <3>2. IsFiniteSet(Between(i, j))
      <4>1. IsFiniteSet(i..j) /\ Between(i, j) \in SUBSET (i..j)
        BY FS_Interval DEF Between, TypeOK
      <4> QED
        BY <4>1, FS_Subset
    <3>3. Cardinality(Between(i, j)) \in Nat /\ Limit \in Nat
      BY <3>2, FS_CardinalityType, TimesAssumption
    <3> QED
      BY <3>1, <3>3
  <2> QED
    BY <2>1
<1>2. k \in 1..Len(log) /\ i < k /\ k < j /\ log[k].frame.dev = log[i].frame.dev
  <2>1. k \in i..j /\ log[k].frame.dev = log[i].frame.dev /\ k # i /\ k # j
    BY <1>1 DEF Between
  <2> QED
    BY <2>1 DEF TypeOK
<1>3. /\ log[i].at \in 1..MaxTime /\ log[i].start \in 1..MaxTime
      /\ log[j].at \in 1..MaxTime /\ log[j].start \in 1..MaxTime
      /\ log[k].start \in 1..MaxTime
  BY <1>2, LogEntryType
<1>4. log[i].start + Window <= log[k].start /\ log[k].start + Window <= log[j].start
  BY <1>1, <1>2 DEF RateInv
<1>5. log[i].at < log[i].start + Window /\ log[j].start <= log[j].at + MaxStall
  BY DEF RateInv
<1>6. Window \in Nat /\ MaxStall \in Nat /\ MaxTime \in Nat
  BY TimesAssumption
<1>7. \A ai, si, sk, sj, aj, w, m \in Int :
        (si + w <= sk /\ sk + w <= sj /\ ai < si + w /\ sj <= aj + m) => aj - ai > w - m
  OBVIOUS
<1>8. /\ log[i].at \in Int /\ log[i].start \in Int /\ log[k].start \in Int
      /\ log[j].start \in Int /\ log[j].at \in Int /\ Window \in Int /\ MaxStall \in Int
  BY <1>3, <1>6
<1> QED
  BY ONLY <1>4, <1>5, <1>7, <1>8

\* Bursts of one device are bounded, across the reset of its window too.
THEOREM BurstsAreBounded == Spec => []BurstBound
<1>1. ReplayInv => TypeOK
  BY DEF ReplayInv
<1> QED
  BY <1>1, BurstsFollow, ReplayInvariant, RateInvariant, PTL

-----------------------------------------------------------------------------
\* A nonce of a device has one latest acceptance.
LEMMA LatestUnique ==
  ASSUME TypeOK, NEW i \in 1..Len(log), NEW j \in 1..Len(log), Latest(i), Latest(j),
         log[i].frame.dev = log[j].frame.dev, log[i].frame.nonce = log[j].frame.nonce
  PROVE  i = j
<1>1. Len(log) \in Nat
  BY DEF TypeOK
<1>2. i < j => j \in (i + 1)..Len(log)
  BY <1>1
<1>3. j < i => i \in (j + 1)..Len(log)
  BY <1>1
<1>4. ~(i < j) /\ ~(j < i)
  BY <1>2, <1>3 DEF Latest
<1> QED
  BY <1>1, <1>4

\* What eviction leaves is what was there, and no older than TTL.
LEMMA EvictOnly ==
  ASSUME NEW e \in [Nonce -> 1..MaxTime \cup {Never}], NEW now \in 1..MaxTime,
         NEW n \in Nonce, Evict(e, now)[n] # Never
  PROVE  Evict(e, now)[n] = e[n] /\ e[n] \in 1..MaxTime /\ e[n] >= now - TTL
  BY TimesAssumption DEF Evict, Never

\* Steps that accept nothing and at most evict keep what is known of the cache.
LEMMA CacheFrame ==
  ASSUME CacheInv, UNCHANGED log,
         \A d \in Device, n \in Nonce : cache'[d][n] # Never => cache'[d][n] = cache[d][n],
         \A i \in 1..Len(log) : log[i].frame.dev \in Device /\ log[i].frame.nonce \in Nonce
  PROVE  CacheInv'
<1>1. \A i \in 1..Len(log) : Latest(i)' <=> Latest(i)
  BY DEF Latest
<1>2. \A i \in 1..Len(log) : Remembered(i)' => Remembered(i)
  BY <1>1 DEF Remembered
<1>3. ASSUME NEW d \in Device, NEW n \in Nonce, cache'[d][n] # Never
      PROVE  \E i \in 1..Len(log') :
               /\ Latest(i)' /\ log'[i].frame.dev = d /\ log'[i].frame.nonce = n
               /\ log'[i].at = cache'[d][n]
  <2>1. cache'[d][n] = cache[d][n]
    BY <1>3
  <2>2. PICK i \in 1..Len(log) :
          Latest(i) /\ log[i].frame.dev = d /\ log[i].frame.nonce = n /\ log[i].at = cache[d][n]
    BY <1>3, <2>1 DEF CacheInv
  <2> QED
    BY <1>1, <2>1, <2>2
<1>4. ASSUME NEW d \in Device
      PROVE  \E low \in Lowest : \A i \in 1..Len(log') :
               (Remembered(i)' /\ log'[i].frame.dev = d) => log'[i].start \in low..(low + Span)
  <2>1. PICK low \in Lowest : \A i \in 1..Len(log) :
          (Remembered(i) /\ log[i].frame.dev = d) => log[i].start \in low..(low + Span)
    BY DEF CacheInv
  <2> QED
    BY <1>2, <2>1
<1> QED
  BY <1>3, <1>4 DEF CacheInv, Lowest, Span

\* Every step keeps what is known of the cache. An acceptance first evicts, so what is
\* left of its device is at most TTL old.
LEMMA StepCache == ReplayInv /\ RateInv /\ CacheInv /\ [Next]_vars => CacheInv'
<1> SUFFICES ASSUME ReplayInv, TypeOK, RateInv, CacheInv, [Next]_vars PROVE CacheInv'
  BY DEF ReplayInv
<1>0. /\ clock \in 1..MaxTime /\ Window \in Nat \ {0} /\ MaxStall \in Nat
      /\ TTL \in Nat /\ MaxTime \in Nat
  BY TimesAssumption DEF TypeOK
<1>1. \A i \in 1..Len(log) : log[i].frame.dev \in Device /\ log[i].frame.nonce \in Nonce
  BY LogEntryType
<1>2. ASSUME NEW p \in Proc, Accept(p) PROVE CacheInv'
  <2>1. PICK f \in Frame, now \in 1..MaxTime, start \in 1..MaxTime, nth \in 1..Limit :
          f = pending[p].frame /\ now = pending[p].now /\ Commits(f, now, start, nth)
    BY <1>2, AcceptCommits
  <2> DEFINE d == f.dev
  <2>0. PICK top \in Nat : top = Len(log) + 1
    BY <2>1 DEF Commits
  <2>2. now <= clock /\ clock <= now + MaxStall
    BY <1>2, <2>1 DEF Accept, ReplayInv
  <2>3. /\ d \in Device /\ f.nonce \in Nonce
        /\ Len(log) \in Nat /\ Len(log') = top
        /\ \A i \in 1..Len(log) : log'[i] = log[i]
        /\ log'[top] = [frame |-> f, at |-> now, start |-> start, nth |-> nth]
        /\ \A e \in Device, n \in Nonce :
             cache'[e][n] = IF e = d THEN IF n = f.nonce THEN now ELSE Evict(cache[d], now)[n]
                                     ELSE cache[e][n]
    BY <2>0, <2>1 DEF Commits
  <2>4. now < start + Window /\ start <= now + MaxStall
    <3>1. rate[d].start \in Nat /\ rate[d].start <= clock
      BY <1>0, <2>3 DEF TypeOK, RateInv
    <3>2. CASE start = now
      BY <1>0, <2>2, <3>2
    <3>3. CASE start = rate[d].start /\ now - start < Window
      BY <1>0, <2>2, <3>1, <3>3
    <3> QED
      BY <2>1, <3>2, <3>3 DEF Commits
  <2>5. /\ log'[top].frame.dev = d /\ log'[top].frame.nonce = f.nonce
        /\ log'[top].at = now /\ log'[top].start = start
    BY <2>3
  <2> HIDE DEF d
  <2>6. \A i \in 1..Len(log') : i = top \/ i \in 1..Len(log)
    BY <2>0, <2>3
  <2>7. Latest(top)'
    BY <2>3 DEF Latest
  <2>8. ASSUME NEW i \in 1..Len(log)
        PROVE  Latest(i)' <=> Latest(i) /\ ~(log[i].frame.dev = d /\ log[i].frame.nonce = f.nonce)
    <3>1. (i + 1)..Len(log') = ((i + 1)..Len(log)) \cup {top} /\ log'[i] = log[i]
      BY <2>0, <2>3
    <3>2. \A j \in (i + 1)..Len(log) : log'[j] = log[j]
      BY <2>3
    <3> QED
      BY <2>5, <3>1, <3>2 DEF Latest
  <2>9. ASSUME NEW e \in Device, NEW n \in Nonce, cache'[e][n] # Never,
               ~(e = d /\ n = f.nonce)
        PROVE  cache'[e][n] = cache[e][n] /\ (e = d => cache[e][n] >= now - TTL)
    <3>1. cache[d] \in [Nonce -> 1..MaxTime \cup {Never}]
      BY <2>3 DEF TypeOK
    <3> QED
      BY <2>3, <2>9, <3>1, EvictOnly
  <2>10. ASSUME NEW e \in Device, NEW n \in Nonce, cache'[e][n] # Never
         PROVE  \E i \in 1..Len(log') :
                  /\ Latest(i)' /\ log'[i].frame.dev = e /\ log'[i].frame.nonce = n
                  /\ log'[i].at = cache'[e][n]
    <3>1. CASE e = d /\ n = f.nonce
      <4>1. top \in 1..Len(log') /\ cache'[e][n] = now
        BY <2>0, <2>3, <3>1
      <4> QED
        BY <2>5, <2>7, <3>1, <4>1
    <3>2. CASE ~(e = d /\ n = f.nonce)
      <4>1. cache'[e][n] = cache[e][n]
        BY <2>9, <2>10, <3>2
      <4>2. PICK i \in 1..Len(log) :
              Latest(i) /\ log[i].frame.dev = e /\ log[i].frame.nonce = n /\ log[i].at = cache[e][n]
        BY <2>10, <4>1 DEF CacheInv
      <4>3. i \in 1..Len(log') /\ log'[i] = log[i]
        BY <2>0, <2>3
      <4> QED
        BY <2>8, <3>2, <4>1, <4>2, <4>3
    <3> QED
      BY <3>1, <3>2
  <2>11. ASSUME NEW i \in 1..Len(log), Remembered(i)'
         PROVE  /\ Remembered(i) /\ log'[i] = log[i]
                /\ log[i].frame.dev = d => log[i].start \in (now - TTL - Window + 1)..(now + MaxStall)
    <3> DEFINE e == log[i].frame.dev
               n == log[i].frame.nonce
    <3>1. log'[i] = log[i] /\ e \in Device /\ n \in Nonce
      BY <1>1, <2>3
    <3>2. Latest(i) /\ ~(e = d /\ n = f.nonce) /\ cache'[e][n] # Never
      BY <2>8, <2>11, <3>1 DEF Remembered
    <3>3. cache'[e][n] = cache[e][n] /\ (e = d => cache[e][n] >= now - TTL)
      BY <2>9, <3>1, <3>2
    <3>4. log[i].at = cache[e][n]
      <4>1. PICK j \in 1..Len(log) :
              Latest(j) /\ log[j].frame.dev = e /\ log[j].frame.nonce = n /\ log[j].at = cache[e][n]
        BY <3>1, <3>2, <3>3 DEF CacheInv
      <4>2. i = j
        BY <3>2, <4>1, LatestUnique
      <4> QED
        BY <4>1, <4>2
    <3>5. ASSUME e = d
          PROVE  log[i].start \in (now - TTL - Window + 1)..(now + MaxStall)
      <4>1. log[i].start \in 1..MaxTime /\ log[i].at \in 1..MaxTime
        BY LogEntryType
      <4>2. rate[d].start <= clock /\ rate[d].start \in 0..MaxTime
        BY <2>3 DEF RateInv, TypeOK
      <4>3. /\ log[i].at < log[i].start + Window
            /\ log[i].start = rate[d].start \/ log[i].start + Window <= rate[d].start
        BY <3>5 DEF RateInv
      <4>4. log[i].at >= now - TTL
        BY <3>3, <3>4, <3>5
      <4>5. log[i].start <= rate[d].start
        BY <1>0, <4>1, <4>2, <4>3
      <4>6. \A at, st, c, rs, no, tt, w, m \in Int :
              (at < st + w /\ at >= no - tt /\ st <= rs /\ rs <= c /\ c <= no + m)
                => st \in (no - tt - w + 1)..(no + m)
        OBVIOUS
      <4>7. /\ log[i].at \in Int /\ log[i].start \in Int /\ clock \in Int
            /\ rate[d].start \in Int /\ now \in Int /\ TTL \in Int /\ Window \in Int
            /\ MaxStall \in Int
        BY <1>0, <4>1, <4>2
      <4> QED
        BY ONLY <2>2, <4>2, <4>3, <4>4, <4>5, <4>6, <4>7
    <3> QED
      BY <3>1, <3>2, <3>3, <3>5 DEF Remembered
  <2>12. ASSUME NEW e \in Device
         PROVE  \E low \in Lowest : \A i \in 1..Len(log') :
                  (Remembered(i)' /\ log'[i].frame.dev = e) => log'[i].start \in low..(low + Span)
    <3>1. CASE e = d
      <4> DEFINE low == now - TTL - Window + 1
      <4>1. low \in Lowest /\ now + MaxStall = low + Span
        BY <1>0 DEF Lowest, Span
      <4>2. start \in low..(now + MaxStall)
        BY <1>0, <2>4
      <4>3. \A i \in 1..Len(log') :
              (Remembered(i)' /\ log'[i].frame.dev = e) => log'[i].start \in low..(now + MaxStall)
        BY <2>5, <2>6, <2>11, <3>1, <4>2
      <4> QED
        BY <4>1, <4>3
    <3>2. CASE e # d
      <4>1. PICK low \in Lowest : \A i \in 1..Len(log) :
              (Remembered(i) /\ log[i].frame.dev = e) => log[i].start \in low..(low + Span)
        BY DEF CacheInv
      <4>2. \A i \in 1..Len(log') :
              (Remembered(i)' /\ log'[i].frame.dev = e) => log'[i].start \in low..(low + Span)
        BY <2>5, <2>6, <2>11, <3>2, <4>1
      <4> QED
        BY <4>2
    <3> QED
      BY <3>1, <3>2
  <2> QED
    BY <2>10, <2>12 DEF CacheInv, Lowest, Span
<1>3. ASSUME NEW p \in Proc, RejectRate(p) \/ RejectReplay(p) PROVE CacheInv'
  <2> DEFINE d   == pending[p].frame.dev
             now == pending[p].now
  <2>1. d \in Device /\ now \in 1..MaxTime
    BY <1>3, BusyType DEF RejectRate, RejectReplay
  <2>2. cache[d] \in [Nonce -> 1..MaxTime \cup {Never}]
    BY <2>1 DEF TypeOK
  <2>3. /\ \A e \in Device : cache'[e] = IF e = d THEN Evict(cache[d], now) ELSE cache[e]
        /\ UNCHANGED log
    BY <1>3 DEF RejectRate, RejectReplay, TypeOK
  <2> HIDE DEF d, now
  <2>4. \A e \in Device, n \in Nonce : cache'[e][n] # Never => cache'[e][n] = cache[e][n]
    BY <2>1, <2>2, <2>3, EvictOnly
  <2> QED
    BY <1>1, <2>3, <2>4, CacheFrame
<1>4. CASE Tick \/ UNCHANGED vars \/ \E p \in Proc, f \in Frame : ReadClock(p, f)
  <2>1. UNCHANGED <<cache, log>>
    BY <1>4 DEF Tick, vars, ReadClock
  <2> QED
    BY <1>1, <2>1, CacheFrame
<1>5. CASE Restart
  <2>1. log' = <<>> /\ \A d \in Device, n \in Nonce : cache'[d][n] = Never
    BY <1>5 DEF Restart, EmptyCache
  <2>2. 1 \in Lowest
    BY <1>0 DEF Lowest
  <2> QED
    BY <2>1, <2>2 DEF CacheInv, Lowest
<1> QED
  BY <1>2, <1>3, <1>4, <1>5 DEF Next

\* The cache holds what is known of it in every state the daemon reaches.
LEMMA CacheInvariant == Spec => []CacheInv
<1>1. Init => CacheInv
  <2>1. 1 \in Lowest
    BY TimesAssumption DEF Lowest
  <2> QED
    BY <2>1 DEF Init, CacheInv, EmptyCache
<1>2. ReplayInv /\ RateInv /\ CacheInv /\ [Next]_vars => CacheInv'
  BY StepCache
<1> QED
  BY <1>1, <1>2, ReplayInvariant, RateInvariant, PTL DEF Spec

\* Integer division by the length of a window: it is monotone, and instants a window
\* apart are in different slots.
LEMMA Slots ==
  ASSUME NEW w \in Nat \ {0}, NEW x \in Nat, NEW y \in Nat, x <= y
  PROVE  /\ x \div w \in Nat /\ y \div w \in Nat /\ x \div w <= y \div w
         /\ x + w <= y => x \div w < y \div w
<1>1. x \div w \in Nat /\ y \div w \in Nat /\ x \div w <= y \div w
  OBVIOUS
<1>2. ASSUME x + w <= y PROVE x \div w < y \div w
  <2>1. (x + w) \div w = x \div w + 1
    OBVIOUS
  <2>2. (x + w) \div w <= y \div w
    BY <1>2
  <2> QED
    BY <1>1, <2>1, <2>2
<1> QED
  BY <1>1, <1>2

\* The requests a device is remembered for began their windows within Span, so they
\* fall in Span \div Window + 1 slots of one window each, Limit to a slot.
THEOREM CacheIsBounded == Spec => []CacheBounded
<1>1. ReplayInv /\ RateInv /\ CacheInv => CacheBounded
  <2> SUFFICES ASSUME TypeOK, RateInv, CacheInv, NEW d \in Device
               PROVE  Cardinality({n \in Nonce : cache[d][n] # Never})
                        <= Limit * ((MaxStall + TTL + 2 * Window - 1) \div Window)
    BY DEF CacheBounded, ReplayInv
  <2> DEFINE S     == {n \in Nonce : cache[d][n] # Never}
             K     == (MaxStall + TTL + 2 * Window - 1) \div Window
             IsOf(i, n) == /\ Latest(i) /\ log[i].frame.dev = d /\ log[i].frame.nonce = n
                           /\ log[i].at = cache[d][n]
             entry == [n \in S |-> CHOOSE i \in 1..Len(log) : IsOf(i, n)]
  <2>1. /\ Window \in Nat \ {0} /\ Limit \in Nat /\ Span \in Nat
        /\ MaxStall + TTL + 2 * Window - 1 = Span + Window /\ MaxTime \in Nat
    BY TimesAssumption DEF Span
  <2>2. PICK low \in Lowest : \A i \in 1..Len(log) :
          (Remembered(i) /\ log[i].frame.dev = d) => log[i].start \in low..(low + Span)
    BY DEF CacheInv
  <2>3. ASSUME NEW n \in S
        PROVE  /\ entry[n] \in 1..Len(log)
               /\ log[entry[n]].frame.dev = d /\ log[entry[n]].frame.nonce = n
               /\ log[entry[n]].start - low \in 0..Span
               /\ log[entry[n]].nth \in 1..Limit
    <3>1. \E i \in 1..Len(log) : IsOf(i, n)
      BY <2>3 DEF CacheInv
    <3>2. entry[n] \in 1..Len(log) /\ IsOf(entry[n], n)
      BY <2>3, <3>1
    <3> HIDE DEF entry
    <3>3. Remembered(entry[n])
      BY <3>2 DEF Remembered
    <3>4. log[entry[n]].start \in low..(low + Span) /\ low \in Int
      BY <2>1, <2>2, <3>2, <3>3, TimesAssumption DEF Lowest
    <3>5. log[entry[n]].nth \in 1..Limit /\ log[entry[n]].start \in 1..MaxTime
      BY <3>2, LogEntryType
    <3> QED
      BY <2>1, <3>2, <3>4, <3>5
  <2> HIDE DEF entry
  <2> DEFINE slot(n) == (log[entry[n]].start - low) \div Window
             g       == [n \in S |-> <<slot(n), log[entry[n]].nth>>]
             T       == (0..(K - 1)) \X (1..Limit)
  <2>4. K = Span \div Window + 1 /\ K \in Nat
    <3>1. (Span + Window) \div Window = Span \div Window + 1 /\ Span \div Window \in Nat
      BY <2>1
    <3> QED
      BY <2>1, <3>1
  <2>5. ASSUME NEW n \in S PROVE slot(n) \in 0..(K - 1)
    <3>1. /\ log[entry[n]].start - low \in Nat /\ log[entry[n]].start - low <= Span
      BY <2>1, <2>3
    <3>2. slot(n) \in Nat /\ slot(n) <= Span \div Window
      BY <2>1, <3>1, Slots
    <3> HIDE DEF K, slot
    <3> QED
      BY <2>1, <2>4, <3>2
  <2>6. g \in [S -> T]
    BY <2>3, <2>5
  <2>7. ASSUME NEW n \in S, NEW o \in S, entry[n] < entry[o]
        PROVE  slot(n) # slot(o) \/ log[entry[n]].nth # log[entry[o]].nth
    <3> DEFINE x == log[entry[n]].start - low
               y == log[entry[o]].start - low
    <3>1. /\ x \in Nat /\ y \in Nat
          /\ log[entry[n]].nth \in 1..Limit /\ log[entry[o]].nth \in 1..Limit
      BY <2>1, <2>3
    <3>2. \/ log[entry[n]].start = log[entry[o]].start /\ log[entry[n]].nth < log[entry[o]].nth
          \/ log[entry[n]].start + Window <= log[entry[o]].start
      BY <2>3, <2>7 DEF RateInv
    <3>3. CASE log[entry[n]].nth < log[entry[o]].nth
      BY <3>1, <3>3
    <3>4. CASE log[entry[n]].start + Window <= log[entry[o]].start
      <4>1. /\ log[entry[n]].start \in 1..MaxTime /\ log[entry[o]].start \in 1..MaxTime
            /\ low \in Int
        BY <2>1, <2>2, <2>3, LogEntryType, TimesAssumption DEF Lowest
      <4>2. x + Window <= y
        BY <2>1, <3>4, <4>1
      <4> HIDE DEF x, y
      <4>3. x <= y
        BY <2>1, <3>1, <4>2
      <4>4. /\ x \div Window \in Nat /\ y \div Window \in Nat
            /\ x \div Window < y \div Window
        BY <2>1, <3>1, <4>2, <4>3, Slots
      <4>5. x \div Window # y \div Window
        BY <4>4
      <4> QED
        BY <4>5 DEF x, y
    <3> QED
      BY <3>2, <3>3, <3>4
  <2>8. \A n, o \in S : g[n] = g[o] => n = o
    <3> SUFFICES ASSUME NEW n \in S, NEW o \in S, g[n] = g[o] PROVE n = o
      OBVIOUS
    <3>1. slot(n) = slot(o) /\ log[entry[n]].nth = log[entry[o]].nth
      BY DEF g
    <3>2. entry[n] \in Int /\ entry[o] \in Int
      BY <2>3
    <3> HIDE DEF slot, S
    <3>3. entry[n] = entry[o]
      BY <2>7, <3>1, <3>2
    <3> QED
      BY <2>3, <3>3
  <2> HIDE DEF g, S
  <2>9. g \in Injection(S, T)
    BY <2>6, <2>8, InjectionFrom
  <2> HIDE DEF K
  <2>10. /\ IsFiniteSet(0..(K - 1)) /\ Cardinality(0..(K - 1)) = K
         /\ IsFiniteSet(1..Limit) /\ Cardinality(1..Limit) = Limit
    <3>1. 0 \in Int /\ 1 \in Int /\ K - 1 \in Int /\ Limit \in Int
      BY <2>1, <2>4
    <3>2. /\ IsFiniteSet(0..(K - 1)) /\ IsFiniteSet(1..Limit)
          /\ Cardinality(0..(K - 1)) = IF 0 > K - 1 THEN 0 ELSE (K - 1) - 0 + 1
          /\ Cardinality(1..Limit) = IF 1 > Limit THEN 0 ELSE Limit - 1 + 1
      BY <3>1, FS_Interval
    <3> QED
      BY <2>1, <2>4, <3>2
  <2>11. IsFiniteSet(T) /\ Cardinality(T) = K * Limit
    <3>1. /\ IsFiniteSet(T)
          /\ Cardinality(T) = Cardinality(0..(K - 1)) * Cardinality(1..Limit)
      BY <2>10, FS_Product, Zenon
    <3> QED
      BY <2>10, <3>1
  <2> HIDE DEF T
  <2>12. Cardinality(S) <= K * Limit
    BY <2>9, <2>11, FS_Injection
  <2>13. K * Limit = Limit * K
    BY <2>1, <2>4
  <2> QED
    BY <2>12, <2>13 DEF S, K
<1> QED
  BY <1>1, ReplayInvariant, RateInvariant, CacheInvariant, PTL

-----------------------------------------------------------------------------
\* Every step leaves the counted places given.
LEMMA StepPlaces == TypeOK /\ PlacesInv /\ [Next]_vars => PlacesInv'
<1> SUFFICES ASSUME TypeOK, PlacesInv, [Next]_vars PROVE PlacesInv'
  OBVIOUS
<1>1. ASSUME NEW p \in Proc, Accept(p) PROVE PlacesInv'
  <2>1. PICK f \in Frame, now \in 1..MaxTime, start \in 1..MaxTime, nth \in 1..Limit :
          f = pending[p].frame /\ now = pending[p].now /\ Commits(f, now, start, nth)
    BY <1>1, AcceptCommits
  <2>2. /\ f.dev \in Device /\ Len(log) \in Nat /\ Len(log') = Len(log) + 1
        /\ log'[Len(log) + 1] = [frame |-> f, at |-> now, start |-> start, nth |-> nth]
        /\ \A i \in 1..Len(log) : i \in 1..Len(log') /\ log'[i] = log[i]
        /\ \A d \in Device : rate'[d] = IF d = f.dev THEN [start |-> start, count |-> nth] ELSE rate[d]
    BY <2>1 DEF Commits
  <2> SUFFICES ASSUME NEW d \in Device, NEW n \in 1..rate'[d].count
               PROVE  \E i \in 1..Len(log') : /\ log'[i].frame.dev = d
                                              /\ log'[i].start = rate'[d].start /\ log'[i].nth = n
    BY DEF PlacesInv
  <2>3. CASE d = f.dev /\ n = nth
    BY <2>2, <2>3
  <2>4. CASE d = f.dev /\ n # nth
    <3>1. rate'[d] = [start |-> start, count |-> nth] /\ n \in 1..(nth - 1)
      BY <2>2, <2>4
    <3>2. nth - 1 = rate[d].count /\ start = rate[d].start
      BY <2>1, <2>4, <3>1 DEF Commits, TypeOK
    <3>3. PICK i \in 1..Len(log) :
            log[i].frame.dev = d /\ log[i].start = rate[d].start /\ log[i].nth = n
      BY <3>1, <3>2 DEF PlacesInv
    <3> QED
      BY <2>2, <3>1, <3>2, <3>3
  <2>5. CASE d # f.dev
    <3>1. PICK i \in 1..Len(log) :
            log[i].frame.dev = d /\ log[i].start = rate[d].start /\ log[i].nth = n
      BY <2>2, <2>5 DEF PlacesInv
    <3> QED
      BY <2>2, <2>5, <3>1
  <2> QED
    BY <2>3, <2>4, <2>5
<1>2. ASSUME NEW p \in Proc,
             \/ \E f \in Frame : ReadClock(p, f)
             \/ RejectRate(p) \/ RejectReplay(p)
      PROVE  PlacesInv'
  BY <1>2 DEF ReadClock, RejectRate, RejectReplay, PlacesInv
<1>3. CASE Tick \/ UNCHANGED vars
  BY <1>3 DEF Tick, vars, PlacesInv
<1>4. CASE Restart
  BY <1>4 DEF Restart, PlacesInv, NoWindows
<1> QED
  BY <1>1, <1>2, <1>3, <1>4 DEF Next

LEMMA PlacesInvariant == Spec => []PlacesInv
<1>1. Init => PlacesInv
  BY DEF Init, PlacesInv, NoWindows
<1> QED
  BY <1>1, StepPlaces, TypeCorrect, PTL DEF Spec

\* The ledger of the promise is the history without windows and places.
LEMMA LedgerIs ==
  ASSUME TypeOK
  PROVE  /\ Len(Ledger) = Len(log) /\ Len(log) \in Nat
         /\ \A i \in 1..Len(log) : Ledger[i] = [frame |-> log[i].frame, at |-> log[i].at]
<1>1. Len(log) \in Nat
  BY DEF TypeOK
<1>2. Ledger \in [1..Len(log) -> [frame : Frame, at : 1..MaxTime]]
  BY LogEntryType DEF Ledger
<1>3. Len(Ledger) = Len(log)
  BY <1>1, <1>2, LenProperties
<1> QED
  BY <1>1, <1>3 DEF Ledger

\* What the promise knows of a device is what the history has of it.
OfDevice(d) == {i \in 1..Len(log) : log[i].frame.dev = d}

LEMMA LedgerOf ==
  ASSUME TypeOK, NEW f
  PROVE  /\ Admission!SameDevice(f) = OfDevice(f.dev)
         /\ Admission!Earlier(f) = {i \in OfDevice(f.dev) : log[i].frame.nonce = f.nonce}
         /\ \A i \in OfDevice(f.dev) : /\ i \in 1..Len(log) /\ Ledger[i].at = log[i].at
                                       /\ Ledger[i].frame = log[i].frame
<1>1. Len(Ledger) = Len(log)
  BY LedgerIs
<1>2. ASSUME NEW i \in 1..Len(log)
      PROVE  Ledger[i].frame = log[i].frame /\ Ledger[i].at = log[i].at
  <2>1. Ledger[i] = [frame |-> log[i].frame, at |-> log[i].at]
    BY LedgerIs
  <2> QED
    BY <2>1
<1>3. Admission!SameDevice(f) = OfDevice(f.dev)
  BY <1>1, <1>2 DEF Admission!SameDevice, OfDevice
<1>4. Admission!Earlier(f) = {i \in OfDevice(f.dev) : log[i].frame.nonce = f.nonce}
  BY <1>2, <1>3 DEF Admission!Earlier, OfDevice
<1> QED
  BY <1>2, <1>3, <1>4 DEF OfDevice

\* FrameAdmission counts as the guard does.
LEMMA SameCardinality ==
  ASSUME NEW S PROVE Admission!Cardinality(S) = Cardinality(S)
  BY Zenon DEF Admission!Cardinality, Cardinality

\* The steps of the promise, as the guard sees them.
LEMMA NextAdmission ==
  /\ \A p \in Proc : (\E f \in Frame : Admission!Arrive(p, f)) => Admission!Next
  /\ \A p \in Proc : Admission!Admit(p) \/ Admission!Refuse(p) => Admission!Next
  /\ Admission!Pass \/ Admission!Forget => Admission!Next
  BY DEF Admission!Next

\* Accept is an admission.
LEMMA AcceptAdmits ==
  ASSUME ReplayInv, TypeOK, TypeOK', BurstBound', NEW p \in Proc, Accept(p)
  PROVE  Admission!Admit(p)
<1> DEFINE f   == pending[p].frame
           now == pending[p].now
<1>1. PICK start \in 1..MaxTime, nth \in 1..Limit : Commits(f, now, start, nth)
  BY AcceptCommits
<1>2. /\ f \in Frame /\ now \in 1..MaxTime /\ pending[p].busy
      /\ Evict(cache[f.dev], now)[f.nonce] = Never
  BY BusyType DEF Accept
<1>3. /\ pending' = [pending EXCEPT ![p] = Idle] /\ clock' = clock
  BY DEF Accept
<1>4. PICK top \in Nat : top = Len(log) + 1
  BY <1>1 DEF Commits
<1>5. /\ f.dev \in Device /\ f.nonce \in Nonce /\ Len(log) \in Nat /\ Len(log') = top
      /\ \A i \in 1..Len(log) : log'[i] = log[i]
      /\ log'[top] = [frame |-> f, at |-> now, start |-> start, nth |-> nth]
  BY <1>1, <1>4 DEF Commits
<1>6. now <= clock /\ Fresh(f.ts, now)
  BY <1>2 DEF ReplayInv
<1> HIDE DEF f, now
<1>7. f.ts >= 0 => \A i \in OfDevice(f.dev) : log[i].frame # f
  <2> SUFFICES ASSUME f.ts >= 0, NEW i \in 1..Len(log), log[i].frame = f PROVE FALSE
    BY DEF OfDevice
  <2>1. f.ts < 0
    BY <1>2, AbsentMeansNew DEF f, now
  <2>2. f.ts \in Int
    BY <1>2, TimestampIsInt DEF Frame
  <2> QED
    BY <2>1, <2>2
<1>8. \A i \in OfDevice(f.dev) : log[i].frame.nonce = f.nonce => clock > log[i].at + TTL
  <2> SUFFICES ASSUME NEW i \in 1..Len(log), log[i].frame.dev = f.dev, log[i].frame.nonce = f.nonce
               PROVE  clock > log[i].at + TTL
    BY DEF OfDevice
  <2>1. log[i].at # Never
    BY LogEntryType DEF Never
  <2> QED
    BY <1>2, <1>5, <1>6, <2>1, EvictKeeps
<1>9. ASSUME NEW i \in OfDevice(f.dev),
             Cardinality({k \in OfDevice(f.dev) : k >= i}) >= 2 * Limit
      PROVE  now - log[i].at > Window - MaxStall
  <2> DEFINE B == {k \in OfDevice(f.dev) : k >= i}
             C == {k \in i..top : log'[k].frame.dev = log'[i].frame.dev}
  <2>1. i \in 1..Len(log) /\ log[i].frame.dev = f.dev
    BY DEF OfDevice
  <2>2. IsFiniteSet(B)
    <3>1. IsFiniteSet(1..Len(log)) /\ B \in SUBSET (1..Len(log))
      BY <1>5, FS_Interval DEF OfDevice
    <3> QED
      BY <3>1, FS_Subset
  <2>3. C = B \cup {top} /\ top \notin B
    BY <1>4, <1>5, <2>1 DEF OfDevice
  <2> HIDE DEF B, C
  <2>4. Cardinality(C) = Cardinality(B) + 1 /\ Cardinality(B) \in Nat
    BY <2>2, <2>3, FS_AddElement, FS_CardinalityType
  <2>5. Cardinality(C) > 2 * Limit
    BY <1>9, <2>4, TimesAssumption DEF B
  <2>6. /\ i \in 1..Len(log') /\ top \in 1..Len(log')
        /\ log'[i] = log[i] /\ log'[top].frame = f /\ log'[top].at = now
    BY <1>4, <1>5, <2>1
  <2>7. log'[top].at - log'[i].at > Window - MaxStall
    BY <2>1, <2>5, <2>6 DEF BurstBound, Between, C
  <2> QED
    BY <2>6, <2>7
<1>10. Ledger' = Append(Ledger, [frame |-> f, at |-> now])
  <2>1. Ledger \in Seq([frame : Frame, at : 1..MaxTime])
    <3>1. \A i \in 1..Len(log) : Ledger[i] \in [frame : Frame, at : 1..MaxTime]
      <4> TAKE i \in 1..Len(log)
      <4>1. log[i].frame \in Frame /\ log[i].at \in 1..MaxTime
        BY LogEntryType
      <4>2. Ledger[i] = [frame |-> log[i].frame, at |-> log[i].at]
        BY LedgerIs
      <4> QED
        BY <4>1, <4>2
    <3> QED
      BY <3>1, LedgerIs DEF Ledger
  <2>2. Ledger' = [i \in 1..top |-> [frame |-> log'[i].frame, at |-> log'[i].at]]
    BY <1>5 DEF Ledger
  <2>3. Append(Ledger, [frame |-> f, at |-> now]) =
          [i \in 1..top |-> IF i = top THEN [frame |-> f, at |-> now] ELSE Ledger[i]]
    BY <1>4, <2>1, LedgerIs
  <2>4. \A i \in 1..top : [frame |-> log'[i].frame, at |-> log'[i].at] =
                          IF i = top THEN [frame |-> f, at |-> now] ELSE Ledger[i]
    BY <1>4, <1>5, LedgerIs
  <2> QED
    BY <2>2, <2>3, <2>4
<1>11. pending' = [pending EXCEPT ![p] = Admission!Idle]
  BY <1>3 DEF Idle, Admission!Idle
<1>12. f.ts >= 0 => \A i \in Admission!SameDevice(f) : Ledger[i].frame # f
  BY <1>7, LedgerOf
<1>13. \A i \in Admission!Earlier(f) : clock > Ledger[i].at + TTL
  BY <1>8, LedgerOf
<1>14. \A i \in Admission!SameDevice(f) :
         Admission!Cardinality(Admission!From(f, i)) >= 2 * Limit =>
           now - Ledger[i].at > Window - MaxStall
  <2> TAKE i \in Admission!SameDevice(f)
  <2>1. i \in OfDevice(f.dev) /\ Ledger[i].at = log[i].at
        /\ Admission!From(f, i) = {k \in OfDevice(f.dev) : k >= i}
    BY LedgerOf DEF Admission!From
  <2>2. Admission!Cardinality(Admission!From(f, i)) = Cardinality(Admission!From(f, i))
    BY SameCardinality
  <2> QED
    BY <1>9, <2>1, <2>2
<1> QED
  BY <1>2, <1>3, <1>10, <1>11, <1>12, <1>13, <1>14 DEF Admission!Admit, f, now

\* Who is refused for the rate has used up a window that began lately.
LEMMA RateRefuses ==
  ASSUME TypeOK, RateInv, PlacesInv, NEW p \in Proc, RejectRate(p)
  PROVE  Admission!Refuse(p)
<1> DEFINE f   == pending[p].frame
           now == pending[p].now
           R   == {i \in OfDevice(f.dev) : now - log[i].at < Window + MaxStall}
<1>0. Limit \in Nat /\ Window \in Nat \ {0} /\ MaxStall \in Nat /\ MaxTime \in Nat
  BY TimesAssumption
<1>1. /\ f.dev \in Device /\ now \in 1..MaxTime /\ pending[p].busy
      /\ CurrentWindow(rate[f.dev], now).count + 1 > Limit
      /\ pending' = [pending EXCEPT ![p] = Idle] /\ UNCHANGED <<clock, log>>
  BY BusyType DEF RejectRate
<1>2. rate[f.dev] \in [start : 0..MaxTime, count : 0..Limit]
  BY <1>1 DEF TypeOK
<1>3. IsFiniteSet(R) /\ Cardinality(R) \in Nat
  <2>1. IsFiniteSet(1..Len(log)) /\ R \in SUBSET (1..Len(log))
    BY FS_Interval DEF OfDevice, TypeOK
  <2> QED
    BY <2>1, FS_Subset, FS_CardinalityType
<1> HIDE DEF f, now
<1>4. Cardinality(R) >= Limit
  <2>1. CASE Limit = 0
    BY <1>3, <2>1
  <2>2. CASE Limit # 0
    <3>1. rate[f.dev].count = Limit /\ now - rate[f.dev].start < Window
      <4>1. ~(rate[f.dev].start = 0 \/ now - rate[f.dev].start >= Window)
        BY <1>0, <1>1, <2>2 DEF CurrentWindow
      <4>2. CurrentWindow(rate[f.dev], now) = rate[f.dev]
        BY <4>1 DEF CurrentWindow
      <4> QED
        BY <1>0, <1>1, <1>2, <4>1, <4>2
    <3> DEFINE Is(i, n) == /\ log[i].frame.dev = f.dev /\ log[i].start = rate[f.dev].start
                           /\ log[i].nth = n
               g == [n \in 1..Limit |-> CHOOSE i \in 1..Len(log) : Is(i, n)]
    <3>2. ASSUME NEW n \in 1..Limit PROVE g[n] \in 1..Len(log) /\ Is(g[n], n)
      <4>1. \E i \in 1..Len(log) : Is(i, n)
        BY <1>1, <3>1 DEF PlacesInv
      <4> QED
        BY <4>1
    <3> HIDE DEF g
    <3>3. ASSUME NEW n \in 1..Limit PROVE g[n] \in R
      <4>1. log[g[n]].start <= log[g[n]].at + MaxStall
        BY <3>2 DEF RateInv
      <4>2. log[g[n]].at \in 1..MaxTime
        BY <3>2, LogEntryType
      <4>3. \A no, at, st, w, m \in Int : (no - st < w /\ st <= at + m) => no - at < w + m
        OBVIOUS
      <4>4. now - log[g[n]].start < Window
        BY <3>1, <3>2
      <4>5. /\ now \in Int /\ log[g[n]].at \in Int /\ log[g[n]].start \in Int
            /\ Window \in Int /\ MaxStall \in Int
        BY <1>0, <1>1, <1>2, <3>2, <4>2
      <4>6. now - log[g[n]].at < Window + MaxStall
        BY ONLY <4>1, <4>3, <4>4, <4>5
      <4> QED
        BY <3>2, <4>6 DEF OfDevice
    <3>4. g \in [1..Limit -> R]
      <4>1. g = [n \in 1..Limit |-> g[n]]
        BY DEF g
      <4> HIDE DEF R
      <4> QED
        BY <3>3, <4>1
    <3>5. \A m, n \in 1..Limit : g[m] = g[n] => m = n
      BY <3>2
    <3> HIDE DEF R
    <3>6. g \in Injection(1..Limit, R)
      BY <3>4, <3>5, InjectionFrom
    <3>7. Cardinality(1..Limit) = Limit
      BY <1>0, <2>2, FS_Interval
    <3> QED
      BY <1>3, <3>6, <3>7, FS_Injection
  <2> QED
    BY <2>1, <2>2
<1>5. Ledger' = Ledger
  BY <1>1 DEF Ledger
<1>6. R = Admission!Lately(f, now)
  BY LedgerOf DEF Admission!Lately
<1>7. Admission!Cardinality(Admission!Lately(f, now)) >= Limit
  <2>1. Admission!Cardinality(R) = Cardinality(R)
    BY SameCardinality
  <2> QED
    BY <1>4, <1>6, <2>1
<1>8. pending' = [pending EXCEPT ![p] = Admission!Idle]
  BY <1>1 DEF Idle, Admission!Idle
<1> QED
  BY <1>1, <1>5, <1>7, <1>8 DEF Admission!Refuse, f, now

\* Who is refused for the nonce was admitted with it within TTL.
LEMMA ReplayRefuses ==
  ASSUME TypeOK, CacheInv, NEW p \in Proc, RejectReplay(p)
  PROVE  Admission!Refuse(p)
<1> DEFINE f   == pending[p].frame
           now == pending[p].now
<1>1. /\ f.dev \in Device /\ f.nonce \in Nonce /\ now \in 1..MaxTime /\ pending[p].busy
      /\ Evict(cache[f.dev], now)[f.nonce] # Never
      /\ pending' = [pending EXCEPT ![p] = Idle] /\ UNCHANGED <<clock, log>>
  BY BusyType DEF RejectReplay
<1>2. cache[f.dev] \in [Nonce -> 1..MaxTime \cup {Never}]
  BY <1>1 DEF TypeOK
<1> HIDE DEF f, now
<1>3. cache[f.dev][f.nonce] \in 1..MaxTime /\ cache[f.dev][f.nonce] >= now - TTL
  BY <1>1, <1>2, EvictOnly
<1>4. PICK i \in 1..Len(log) :
        log[i].frame.dev = f.dev /\ log[i].frame.nonce = f.nonce /\ log[i].at = cache[f.dev][f.nonce]
  BY <1>1, <1>3 DEF CacheInv, Never
<1>5. now - log[i].at <= TTL
  BY <1>1, <1>3, <1>4, TimesAssumption
<1>6. i \in OfDevice(f.dev)
  BY <1>4 DEF OfDevice
<1>7. \E j \in Admission!Earlier(f) : now - Ledger[j].at <= TTL
  BY <1>4, <1>5, <1>6, LedgerOf
<1>8. Ledger' = Ledger
  BY <1>1 DEF Ledger
<1> QED
  BY <1>1, <1>7, <1>8 DEF Admission!Refuse, Admission!Idle, Idle, f, now

\* Every step of the guard is a step of the promise or changes nothing it knows of.
LEMMA StepAdmission ==
  /\ ReplayInv /\ RateInv /\ CacheInv /\ PlacesInv /\ [Next]_vars
  /\ (TypeOK /\ BurstBound)'
  => [Admission!Next]_<<clock, pending, Ledger>>
<1> SUFFICES ASSUME ReplayInv, TypeOK, RateInv, CacheInv, PlacesInv, [Next]_vars,
                    TypeOK', BurstBound'
             PROVE  [Admission!Next]_<<clock, pending, Ledger>>
  BY DEF ReplayInv
<1>1. ASSUME NEW p \in Proc, NEW f \in Frame, ReadClock(p, f) PROVE Admission!Next
  <2>1. f.ts >= 0 => f.ts \in (clock - MaxAge)..(clock + MaxSkew)
    <3>1. f.ts \in Timestamp /\ clock \in 1..MaxTime /\ Fresh(f.ts, clock)
      BY <1>1 DEF Frame, TypeOK, ReadClock
    <3>2. f.ts <= clock + MaxSkew /\ (f.ts >= 0 => clock <= f.ts + MaxAge)
      BY <3>1, FreshBounds
    <3>3. f.ts \in Int /\ MaxAge \in Nat /\ MaxSkew \in Nat
      BY <3>1, TimestampIsInt, TimesAssumption
    <3> QED
      BY <3>1, <3>2, <3>3
  <2>2. Ledger' = Ledger
    BY <1>1 DEF ReadClock, Ledger
  <2>3. Admission!Arrive(p, f)
    BY <1>1, <2>1, <2>2 DEF ReadClock, Admission!Arrive, Admission!Idle, Idle
  <2> QED
    BY <2>3, NextAdmission
<1>2. ASSUME NEW p \in Proc, RejectRate(p) \/ RejectReplay(p) \/ Accept(p) PROVE Admission!Next
  BY <1>2, RateRefuses, ReplayRefuses, AcceptAdmits, NextAdmission
<1>3. ASSUME Tick PROVE Admission!Next
  <2>1. Admission!Pass
    BY <1>3 DEF Tick, Ledger, Admission!Pass
  <2> QED
    BY <2>1, NextAdmission
<1>4. ASSUME Restart PROVE Admission!Next
  <2>1. Ledger' = <<>>
    BY <1>4 DEF Restart, Ledger
  <2>2. Admission!Forget
    BY <1>4, <2>1 DEF Restart, NoRequests, Idle, Admission!Forget, Admission!Idle
  <2> QED
    BY <2>2, NextAdmission
<1>5. CASE UNCHANGED vars
  BY <1>5 DEF vars, Ledger
<1> QED
  BY <1>1, <1>2, <1>3, <1>4, <1>5 DEF Next

\* The guard keeps the promise of FrameAdmission, whatever the constants.
THEOREM Admits == Spec => ImplementsAdmission
<1>1. Init => Admission!Init
  BY DEF Init, NoRequests, Idle, Ledger, Admission!Init, Admission!Idle
<1>2. ReplayInv => TypeOK
  BY DEF ReplayInv
<1>3. /\ ReplayInv /\ RateInv /\ CacheInv /\ PlacesInv /\ [Next]_vars
      /\ (TypeOK /\ BurstBound)'
      => [Admission!Next]_Admission!vars
  BY StepAdmission DEF Admission!vars
<1> QED
  BY <1>1, <1>2, <1>3, ReplayInvariant, RateInvariant, CacheInvariant, PlacesInvariant,
     TypeCorrect, BurstsAreBounded, PTL DEF Spec, ImplementsAdmission, Admission!Spec
=============================================================================
