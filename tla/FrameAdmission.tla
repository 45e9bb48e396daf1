---------------------------- MODULE FrameAdmission ----------------------------
(***************************************************************************)
(* What the replay guard promises, without cache, counters or lock: the    *)
(* daemon decides from the list of everything it has admitted since it     *)
(* started. No frame comes in twice and no device comes in faster than it  *)
(* may; and who is refused has given a reason for it.                      *)
(***************************************************************************)
EXTENDS Integers, Sequences, FiniteSets

CONSTANTS Proc, Frame, MaxSkew, MaxAge, TTL, Window, Limit, MaxStall

VARIABLES
  clock,    \* the time
  waiting,  \* per goroutine: the frame it asks admission for and since when, or Idle
  ledger    \* the frames admitted, in order, and the times they were admitted at

vars == <<clock, waiting, ledger>>

Idle == [busy |-> FALSE]

Init ==
  /\ clock \in Nat
  /\ waiting = [p \in Proc |-> Idle]
  /\ ledger = <<>>

Arrive(p, f) ==
  /\ waiting[p] = Idle
  /\ f.ts >= 0 => f.ts \in (clock - MaxAge)..(clock + MaxSkew)
  /\ waiting' = [waiting EXCEPT ![p] = [busy |-> TRUE, frame |-> f, now |-> clock]]
  /\ UNCHANGED <<clock, ledger>>

\* The entries of f's device; among them those of its nonce, those from entry i on and
\* those of late.
SameDevice(f)  == {i \in 1..Len(ledger) : ledger[i].frame.dev = f.dev}
Earlier(f)     == {i \in SameDevice(f) : ledger[i].frame.nonce = f.nonce}
From(f, i)     == {k \in SameDevice(f) : k >= i}
Lately(f, now) == {i \in SameDevice(f) : now - ledger[i].at < Window + MaxStall}

\* Nothing is admitted that may have been before, and not more than two windows' worth
\* of requests in the time of one.
Admit(p) ==
  LET f   == waiting[p].frame
      now == waiting[p].now
  IN  /\ waiting[p].busy
      /\ f.ts >= 0 => \A i \in SameDevice(f) : ledger[i].frame # f
      /\ \A i \in Earlier(f) : clock > ledger[i].at + TTL
      /\ \A i \in SameDevice(f) :
           Cardinality(From(f, i)) >= 2 * Limit => now - ledger[i].at > Window - MaxStall
      /\ ledger' = Append(ledger, [frame |-> f, at |-> now])
      /\ waiting' = [waiting EXCEPT ![p] = Idle]
      /\ UNCHANGED clock

\* A nonce is refused that was admitted within TTL, and a device that has had Limit
\* requests admitted lately. Nobody else is.
Refuse(p) ==
  LET f   == waiting[p].frame
      now == waiting[p].now
  IN  /\ waiting[p].busy
      /\ \/ \E i \in Earlier(f) : now - ledger[i].at <= TTL
         \/ Cardinality(Lately(f, now)) >= Limit
      /\ waiting' = [waiting EXCEPT ![p] = Idle]
      /\ UNCHANGED <<clock, ledger>>

Pass == clock' = clock + 1 /\ UNCHANGED <<waiting, ledger>>

\* The daemon is started again and knows nothing any more.
Forget ==
  /\ waiting' = [p \in Proc |-> Idle]
  /\ ledger' = <<>>
  /\ UNCHANGED clock

Next ==
  \/ \E p \in Proc : (\E f \in Frame : Arrive(p, f)) \/ Admit(p) \/ Refuse(p)
  \/ Pass
  \/ Forget

Spec == Init /\ [][Next]_vars
=============================================================================
