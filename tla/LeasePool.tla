------------------------------ MODULE LeasePool ------------------------------
(***************************************************************************)
(* What KafkaSessionManager promises its callers, without how it connects, *)
(* counts, times or awaits (SPEC-014, REQ-160 and REQ-161): a pool of      *)
(* sessions that callers lease and return.  The pool may drop a session    *)
(* only while nobody holds it; a caller that invalidates may revoke any.   *)
(* When no step can keep the pool within its maximum, every session in it  *)
(* is held.                                                                *)
(***************************************************************************)
EXTENDS Naturals, FiniteSets

CONSTANTS Conn, Client, MaxSessions

VARIABLES
  pooled,   \* the sessions a caller can be given
  held,     \* held[c]: the callers that hold a lease of c
  revoking  \* the callers that are invalidating sessions

poolVars == <<pooled, held, revoking>>

Init == pooled = {} /\ held = [c \in Conn |-> {}] /\ revoking = {}

Within(S, h) == Cardinality(S) > MaxSessions => \A c \in S : h[c] # {}

(* The pool becomes S less some sessions nobody holds, and is within its maximum. *)
Trim(S) ==
  /\ pooled' \subseteq S
  /\ \A c \in S \ pooled' : held'[c] = {}
  /\ Within(pooled', held')

(* p is given a session, pooled already or put into the pool for it. *)
Lease(p, c) ==
  /\ \A d \in Conn : p \notin held[d]
  /\ held' = [held EXCEPT ![c] = @ \cup {p}]
  /\ c \in pooled'
  /\ Trim(pooled \cup {c})
  /\ UNCHANGED revoking

Return(p, c) ==
  /\ p \in held[c]
  /\ held' = [held EXCEPT ![c] = @ \ {p}]
  /\ Trim(pooled)
  /\ UNCHANGED revoking

(* Idle timeout, or an eviction that goes on after a disconnect. *)
Drop ==
  /\ Trim(pooled)
  /\ UNCHANGED <<held, revoking>>

(* Invalidation and shutdown, a session at a time.  The caller may give up a lease of its
   own with it. *)
Revoke(p) ==
  /\ revoking' = revoking \cup {p}
  /\ pooled' \in {pooled} \cup {pooled \ {c} : c \in Conn}
  /\ \/ UNCHANGED held
     \/ \E d \in Conn \ pooled' : p \in held[d] /\ held' = [held EXCEPT ![d] = @ \ {p}]

Revoked(p) ==
  /\ revoking' = revoking \ {p}
  /\ UNCHANGED <<pooled, held>>

Next ==
  \/ \E p \in Client, c \in Conn : Lease(p, c) \/ Return(p, c)
  \/ \E p \in Client : Revoke(p) \/ Revoked(p)
  \/ Drop

Spec == Init /\ [][Next]_poolVars
=============================================================================
