----------------------------- MODULE LossyCache -----------------------------
(***************************************************************************)
(* What callers may rely on of a cache that promises little.  A value gets *)
(* in at one instant of the call that sets it, under the key and for the   *)
(* life that call named, and gets out at the end of that life or at any    *)
(* instant before; it never gets in again.  A call that reads a key sees   *)
(* nothing, or a value that is in under that key at an instant of the call *)
(* itself.  Nothing is said of which of several values it sees, nor that a *)
(* removal removes: a caller cannot tell whether it did.                   *)
(*                                                                         *)
(* CacheService, with its two tiers, timers, outages and swallowed errors, *)
(* implements this specification (Cache there).                            *)
(***************************************************************************)
EXTENDS Integers

CONSTANTS
  Keys,
  Calls,    \* calls of the service; the value a call sets is called like it
  NoValue,
  Lives     \* lifetimes that callers name

VARIABLES
  now,     \* the clock
  kept,    \* entries that are in: key, value, and the instant of its end
  over,    \* calls that have returned
  target,  \* the keys that each call named
  life,    \* the life that each call named
  got      \* the value that each reading call saw

vars == <<now, kept, over, target, life, got>>

Init ==
  /\ now = 0
  /\ kept = {}
  /\ over = {}
  /\ target = [c \in Calls |-> {}]
  /\ life = [c \in Calls |-> 0]
  /\ got = [c \in Calls |-> NoValue]

\* Call c is for the keys K and the life l: it says so now, or said so before.
For(c, K, l) ==
  /\ c \notin over
  /\ target[c] \in {{}, K} /\ target' = [target EXCEPT ![c] = K]
  /\ life[c] \in {0, l} /\ life' = [life EXCEPT ![c] = l]

Return(c) == over' = over \cup {c}

-----------------------------------------------------------------------------

Ask(c, K, l) ==
  /\ For(c, K, l)
  /\ UNCHANGED <<now, kept, over, got>>

\* The value gets in; others may get out for it.
Put(c, k, l) ==
  LET entry == <<k, c, now + l>> IN
  /\ For(c, {k}, l)
  /\ Return(c)
  /\ entry \in kept'
  /\ kept' \ {entry} \subseteq kept
  /\ UNCHANGED <<now, got>>

Get(c, k) ==
  /\ For(c, {k}, 0)
  /\ Return(c)
  /\ \E e \in kept : e[1] = k /\ got' = [got EXCEPT ![c] = e[2]]
  /\ UNCHANGED <<now, kept>>

\* A call returns that sets nothing, sees nothing, or fails.
End(c, K, l) ==
  /\ For(c, K, l)
  /\ Return(c)
  /\ kept' \subseteq kept
  /\ UNCHANGED <<now, got>>

\* Entries get out at any time, and calls are cut short.
Lose ==
  /\ kept' \subseteq kept
  /\ over \subseteq over'
  /\ UNCHANGED <<now, target, life, got>>

Tick ==
  /\ now' = now + 1
  /\ kept' = {e \in kept : e[3] > now'}
  /\ UNCHANGED <<over, target, life, got>>

Next ==
  \/ \E c \in Calls, K \in SUBSET Keys, l \in Lives \cup {0} : Ask(c, K, l) \/ End(c, K, l)
  \/ \E c \in Calls, k \in Keys, l \in Lives : Put(c, k, l)
  \/ \E c \in Calls, k \in Keys : Get(c, k)
  \/ Lose \/ Tick

Spec == Init /\ [][Next]_vars

=============================================================================
