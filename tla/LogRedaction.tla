------------------------------ MODULE LogRedaction ------------------------------
(***************************************************************************)
(* What happens to a line of the log before it is written, while the       *)
(* writer's goroutine holds the lock of lineSanitizingWriter (logging.go): *)
(* long runs of characters are replaced, then the values after "token=",   *)
(* "password=" and the like. log_redact is on; no secret is registered,    *)
(* for nothing calls addSecret.                                            *)
(*                                                                         *)
(* Of a line only its hints matter, in their order: the key and what       *)
(* stands between the "=" and the next delimiter. Lines quote text the     *)
(* daemon did not choose, such as the title of a window (target_policy.go).*)
(***************************************************************************)
EXTENDS Naturals, Sequences, SequencesExt

CONSTANTS
  Writer,   \* goroutines that log a line each
  Keys,     \* the keys in the order in which they are looked for
  MaxHints, \* bound: hints in a line
  NoWriter  \* nobody holds the lock

\* "blob": at least 120 characters of the alphabet of redactLongBlobs, which has "="
\* in it, so the key goes with its value.
Value == {"empty", "plain", "blob", "redacted"}
Lines == SeqOf([key : ToSet(Keys), value : {"empty", "plain", "blob"}], MaxHints)

VARIABLES
  line, \* the line of each writer, as it is rewritten
  at,   \* where the writer is
  key,  \* the key it looks for, a position in Keys
  mu    \* the writer that holds the lock

redactionVars == <<line, at, key, mu>>

Init ==
  /\ line \in [Writer -> Lines]
  /\ at = [w \in Writer |-> "logs"]
  /\ key = [w \in Writer |-> 1]
  /\ mu = NoWriter

Goto(w, place) == at' = [at EXCEPT ![w] = place]

\* redactLongBlobs.
WithoutBlobs(hints) == SelectSeq(hints, LAMBDA h : h.value # "blob")

\* lineSanitizingWriter.Write takes the lock; the blobs go in one pass.
Lock(w) ==
  /\ at[w] = "logs" /\ mu = NoWriter
  /\ mu' = w
  /\ line' = [line EXCEPT ![w] = WithoutBlobs(@)]
  /\ Goto(w, "find")
  /\ UNCHANGED key

\* redactKeyValueHints: the first place where the key stands, in the line as it is now.
Places(w) == {i \in 1..Len(line[w]) : line[w][i].key = Keys[key[w]]}
First(w)  == CHOOSE i \in Places(w) : \A j \in Places(w) : i <= j

\* An empty value ends the search for the key, as does a line without it.
Find(w) ==
  /\ at[w] = "find" /\ key[w] <= Len(Keys)
  /\ IF Places(w) # {} /\ line[w][First(w)].value # "empty"
     THEN Goto(w, "replace") /\ UNCHANGED key
     ELSE key' = [key EXCEPT ![w] = @ + 1] /\ UNCHANGED at
  /\ UNCHANGED <<line, mu>>

\* The value becomes "[REDACTED]", the key stays, and the search starts over. The "]"
\* is a delimiter: it is what the next value ends at, and stays behind it.
Replace(w) ==
  /\ at[w] = "replace"
  /\ line' = [line EXCEPT ![w][First(w)].value = "redacted"]
  /\ Goto(w, "find")
  /\ UNCHANGED <<key, mu>>

\* The line goes to the log, and the lock is released.
Write(w) ==
  /\ at[w] = "find" /\ key[w] > Len(Keys)
  /\ mu' = NoWriter
  /\ Goto(w, "written")
  /\ UNCHANGED <<line, key>>

Step(w) == Lock(w) \/ Find(w) \/ Replace(w) \/ Write(w)

Next == \E w \in Writer : Step(w)

\* Goroutines are scheduled; the lock goes to those that wait for it.
Spec == Init /\ [][Next]_redactionVars /\ \A w \in Writer : WF_redactionVars(Step(w))

-----------------------------------------------------------------------------
\* logging.go:216: "Redact obvious key/value hints (all occurrences, now URL-safe)."
\* Every line that is logged is written, without a value after any of the keys.
HintsRedacted ==
  \A w \in Writer :
    (at[w] = "logs") ~>
      (at[w] = "written" /\ \A i \in 1..Len(line[w]) : line[w][i].value # "plain")
=============================================================================
