----------------------------- MODULE ReplayGuard -----------------------------
(***************************************************************************)
(* Freshness window, replay cache and per-device rate limit of the daemon: *)
(* validateFreshnessAndRate in cmd/novakey/crypto.go, run by one goroutine *)
(* per connection.                                                         *)
(*                                                                         *)
(* A goroutine reads the clock and checks the timestamp BEFORE it takes    *)
(* replayMu, and uses that reading for everything it does inside the lock. *)
(* The two halves are separate steps, and MaxStall bounds how long a       *)
(* goroutine can be held up between them.                                  *)
(***************************************************************************)
EXTENDS Integers, Sequences, FiniteSets

CONSTANTS
  Device,      \* identifiers of paired devices
  Nonce,       \* AEAD nonces
  Timestamp,   \* values a frame's 8-byte timestamp can have (int64)
  Proc,        \* connection goroutines
  MaxSkew,     \* maxClockSkewSec
  MaxAge,      \* maxMsgAgeSec
  TTL,         \* replayCacheTTL
  Window,      \* the 60 s of a rate window
  Limit,       \* requests per device and window
  Half,        \* 2^63: int64 is -Half .. Half - 1
  MaxStall,    \* bound: time between the clock reading and the locked section
  MaxTime      \* bound: the last instant modelled

\* The times of the code are non-negative seconds and no instant the daemon
\* reaches is near the end of int64; a window is not empty.
ASSUME TimesAssumption ==
  /\ MaxSkew \in Nat /\ MaxAge \in Nat /\ TTL \in Nat /\ MaxStall \in Nat
  /\ Limit \in Nat /\ Half \in Nat
  /\ Window \in Nat \ {0} /\ MaxTime \in Nat \ {0}
  /\ MaxTime + MaxSkew < Half
  /\ Timestamp \subseteq (0 - Half)..(Half - 1)

\* What crypto.go relies on when it chooses 120, 300 and 600: an entry outlives
\* every instant at which its frame is still fresh, stalls included.
ASSUME RetentionAssumption == MaxAge + MaxSkew + MaxStall <= TTL

VARIABLES
  clock,    \* time.Now().Unix()
  pending,  \* per goroutine: the frame it checks and the time it read, or Idle
  cache,    \* replayCache: device -> nonce -> seenAt, Never when absent
  rate,     \* rateState: device -> [start, count]
  log       \* history: the requests accepted since the daemon started, each with the
            \* time it was accepted at, the start of its window and its place in it

vars == <<clock, pending, cache, rate, log>>

Never == 0 - 1
Idle  == [busy |-> FALSE]
Frame == [dev : Device, nonce : Nonce, ts : Timestamp]

-----------------------------------------------------------------------------
\* int64 subtraction of two int64 values.
Sub64(a, b) ==
  IF a - b >= Half THEN a - b - 2 * Half
  ELSE IF a - b < 0 - Half THEN a - b + 2 * Half
  ELSE a - b

Fresh(ts, now) == ts <= now + MaxSkew /\ Sub64(now, ts) <= MaxAge

\* Faults of the eviction loop: an entry forgotten one second early, and none
\* forgotten at all.
EvictEarly(entries, now) ==
  [n \in Nonce |-> IF entries[n] # Never /\ now - entries[n] >= TTL
                   THEN Never ELSE entries[n]]
EvictNothing(entries, now) == entries

\* The entries that survive the eviction loop.
Evict(entries, now) ==
  [n \in Nonce |-> IF entries[n] # Never /\ now - entries[n] > TTL
                   THEN Never ELSE entries[n]]

\* Fault: the window is renewed by every request of a later second.
WindowTooShort(rw, now) ==
  IF rw.start = 0 \/ now > rw.start THEN [start |-> now, count |-> 0] ELSE rw

\* Fault: a window once begun is never renewed.
WindowForever(rw, now) ==
  IF rw.start = 0 THEN [start |-> now, count |-> 0] ELSE rw

\* The window a request of this instant falls in; start = 0 means none yet.
CurrentWindow(rw, now) ==
  IF rw.start = 0 \/ now - rw.start >= Window
  THEN [start |-> now, count |-> 0] ELSE rw

-----------------------------------------------------------------------------
NoRequests == [p \in Proc |-> Idle]
EmptyCache == [d \in Device |-> [n \in Nonce |-> Never]]
NoWindows  == [d \in Device |-> [start |-> 0, count |-> 0]]

Init ==
  /\ clock = 1
  /\ pending = NoRequests
  /\ cache = EmptyCache
  /\ rate = NoWindows
  /\ log = <<>>

\* A goroutine has decrypted frame f: it reads the clock and the frame is
\* fresh. (A stale frame is rejected here and changes nothing.)
ReadClock(p, f) ==
  /\ pending[p] = Idle
  /\ Fresh(f.ts, clock)
  /\ pending' = [pending EXCEPT ![p] = [busy |-> TRUE, frame |-> f, now |-> clock]]
  /\ UNCHANGED <<clock, cache, rate, log>>

\* The section under replayMu evicts, then fails on the rate, ...
RejectRate(p) ==
  LET f   == pending[p].frame
      now == pending[p].now
  IN  /\ pending[p].busy
      /\ CurrentWindow(rate[f.dev], now).count + 1 > Limit
      /\ cache' = [cache EXCEPT ![f.dev] = Evict(@, now)]
      /\ pending' = [pending EXCEPT ![p] = Idle]
      /\ UNCHANGED <<clock, rate, log>>

\* ... or on a nonce the cache still holds, ...
RejectReplay(p) ==
  LET f    == pending[p].frame
      now  == pending[p].now
      kept == Evict(cache[f.dev], now)
  IN  /\ pending[p].busy
      /\ CurrentWindow(rate[f.dev], now).count + 1 <= Limit
      /\ kept[f.nonce] # Never
      /\ cache' = [cache EXCEPT ![f.dev] = kept]
      /\ pending' = [pending EXCEPT ![p] = Idle]
      /\ UNCHANGED <<clock, rate, log>>

\* Fault: the count is stored without having been compared with the limit.
AcceptUnlimited(p) ==
  LET f    == pending[p].frame
      now  == pending[p].now
      kept == Evict(cache[f.dev], now)
      rw   == CurrentWindow(rate[f.dev], now)
  IN  /\ pending[p].busy
      /\ kept[f.nonce] = Never
      /\ cache' = [cache EXCEPT ![f.dev] = [kept EXCEPT ![f.nonce] = now]]
      /\ rate' = [rate EXCEPT ![f.dev] = [start |-> rw.start, count |-> rw.count + 1]]
      /\ log' = Append(log, [frame |-> f, at |-> now, start |-> rw.start, nth |-> rw.count + 1])
      /\ pending' = [pending EXCEPT ![p] = Idle]
      /\ UNCHANGED clock

\* ... or commits nonce and count.
Accept(p) ==
  LET f    == pending[p].frame
      now  == pending[p].now
      kept == Evict(cache[f.dev], now)
      rw   == CurrentWindow(rate[f.dev], now)
  IN  /\ pending[p].busy
      /\ rw.count + 1 <= Limit
      /\ kept[f.nonce] = Never
      /\ cache' = [cache EXCEPT ![f.dev] = [kept EXCEPT ![f.nonce] = now]]
      /\ rate' = [rate EXCEPT ![f.dev] = [start |-> rw.start, count |-> rw.count + 1]]
      /\ log' = Append(log, [frame |-> f, at |-> now, start |-> rw.start, nth |-> rw.count + 1])
      /\ pending' = [pending EXCEPT ![p] = Idle]
      /\ UNCHANGED clock

\* The clock advances; no goroutine stays stalled longer than MaxStall.
Tick ==
  /\ clock < MaxTime
  /\ \A p \in Proc : pending[p].busy => clock - pending[p].now < MaxStall
  /\ clock' = clock + 1
  /\ UNCHANGED <<pending, cache, rate, log>>

\* The process ends and is started again: cache and windows live in memory.
Restart ==
  /\ pending' = NoRequests
  /\ cache' = EmptyCache
  /\ rate' = NoWindows
  /\ log' = <<>>
  /\ UNCHANGED clock

Next ==
  \/ \E p \in Proc :
       \/ \E f \in Frame : ReadClock(p, f)
       \/ RejectRate(p)
       \/ RejectReplay(p)
       \/ Accept(p)
  \/ Tick
  \/ Restart

Spec == Init /\ [][Next]_vars

-----------------------------------------------------------------------------
Busy == [busy : {TRUE}, frame : Frame, now : 1..MaxTime]

\* Type invariant.
TypeOK ==
  /\ clock \in 1..MaxTime
  /\ pending \in [Proc -> Busy \cup {Idle}]
  /\ cache \in [Device -> [Nonce -> 1..MaxTime \cup {Never}]]
  /\ rate \in [Device -> [start : 0..MaxTime, count : 0..Limit]]
  /\ log \in Seq([frame : Frame, at : 1..MaxTime, start : 1..MaxTime, nth : 1..Limit])

\* A frame is accepted at most once while the daemon runs, whatever the
\* interleaving of connections, if its timestamp is a Unix time: eviction from
\* the cache never lets a frame back in that still counts as fresh.
NoReplay ==
  \A i, j \in 1..Len(log) :
    (i # j /\ log[i].frame = log[j].frame) => log[i].frame.ts < 0

\* The strengthening of NoReplay that every step preserves. An accepted frame
\* was fresh when its time was read; a goroutine in flight read its time at
\* most MaxStall ago and saw a fresh frame; and an accepted nonce is in the
\* cache with its time unless more than TTL has passed since.
ReplayInv ==
  /\ TypeOK
  /\ \A i \in 1..Len(log) :
       log[i].at <= clock /\ Fresh(log[i].frame.ts, log[i].at)
  /\ \A p \in Proc : pending[p].busy =>
       /\ pending[p].now <= clock /\ clock <= pending[p].now + MaxStall
       /\ Fresh(pending[p].frame.ts, pending[p].now)
  /\ \A i \in 1..Len(log) :
       \/ cache[log[i].frame.dev][log[i].frame.nonce] = log[i].at
       \/ clock > log[i].at + TTL
  /\ NoReplay

\* More than two windows' worth of requests of one device cannot be squeezed into
\* less than one window (less the stall): what a fixed-window counter still
\* guarantees across the reset of the window.
Between(i, j) == {k \in i..j : log[k].frame.dev = log[i].frame.dev}
BurstBound ==
  \A i, j \in 1..Len(log) :
    (log[j].frame.dev = log[i].frame.dev /\ Cardinality(Between(i, j)) > 2 * Limit) =>
      log[j].at - log[i].at > Window - MaxStall

\* The nonces remembered for a device are bounded by the rate limit and the
\* retention time, although nothing but a request of that device evicts them.
CacheBounded ==
  \A d \in Device :
    Cardinality({n \in Nonce : cache[d][n] # Never})
      <= Limit * ((MaxStall + TTL + 2 * Window - 1) \div Window)

-----------------------------------------------------------------------------
(* The inductive invariants behind the two bounds. *)

\* A request was accepted within its window, but for the stall, and nobody has its
\* place in that window; the windows of a device follow one another at a distance of
\* Window, the one in force last.
RateInv ==
  /\ \A d \in Device : rate[d].start <= clock
  /\ \A i \in 1..Len(log) :
       /\ log[i].at < log[i].start + Window /\ log[i].start <= log[i].at + MaxStall
       /\ \/ /\ log[i].start = rate[log[i].frame.dev].start
             /\ log[i].nth <= rate[log[i].frame.dev].count
          \/ log[i].start + Window <= rate[log[i].frame.dev].start
  /\ \A i, j \in 1..Len(log) :
       (i < j /\ log[i].frame.dev = log[j].frame.dev) =>
         \/ log[i].start = log[j].start /\ log[i].nth < log[j].nth
         \/ log[i].start + Window <= log[j].start

\* Every place in the window in force that is counted was given to somebody.
PlacesInv ==
  \A d \in Device : \A n \in 1..rate[d].count : \E i \in 1..Len(log) :
    log[i].frame.dev = d /\ log[i].start = rate[d].start /\ log[i].nth = n

\* Entry i is what the cache has of its nonce.
Latest(i) ==
  \A j \in (i + 1)..Len(log) :
    ~(log[j].frame.dev = log[i].frame.dev /\ log[j].frame.nonce = log[i].frame.nonce)
Remembered(i) == Latest(i) /\ cache[log[i].frame.dev][log[i].frame.nonce] # Never

\* What the cache holds was accepted, and the requests of a device it still has began
\* their windows within Span of one another.
Span == MaxStall + TTL + Window - 1
Lowest == (0 - TTL - Window)..MaxTime
CacheInv ==
  /\ \A d \in Device, n \in Nonce : cache[d][n] # Never =>
       \E i \in 1..Len(log) :
         Latest(i) /\ log[i].frame.dev = d /\ log[i].frame.nonce = n /\ log[i].at = cache[d][n]
  /\ \A d \in Device : \E low \in Lowest : \A i \in 1..Len(log) :
       (Remembered(i) /\ log[i].frame.dev = d) => log[i].start \in low..(low + Span)

-----------------------------------------------------------------------------
\* The guard, which forgets nonces and counts in windows, keeps the promise of
\* FrameAdmission, which knows everything that was admitted.
Ledger == [i \in 1..Len(log) |-> [frame |-> log[i].frame, at |-> log[i].at]]
Admission == INSTANCE FrameAdmission WITH waiting <- pending, ledger <- Ledger

\* Every step of the guard is a step of the promise or invisible to it: it admits no frame
\* twice and no burst, and refuses only for a recent nonce or a used-up window.
ImplementsAdmission == Admission!Spec
=============================================================================
