------------------------- MODULE SessionLeaseProofs -------------------------
(***************************************************************************)
(* The leases of SessionManager: they are counted exactly (Counted), and   *)
(* no session without one is forgotten (IdleHasTimer).  All of it rests on *)
(* the structure proved in SessionManagerProofs.                           *)
(***************************************************************************)
EXTENDS SessionManagerProofs

(* entry.leases counts the callers that hold the entry, from its creation on. *)
Counted ==
  \A c \in Conn :
    /\ phase[c] = "open" => leases[c] = Cardinality(Leaseholders(c))
    /\ phase[c] \in {"connecting", "rejecting", "ready"} => leases[c] = 0

-----------------------------------------------------------------------------
(* Counting callers.                                                       *)

LEMMA HoldersFinite ==
  ASSUME NEW c
  PROVE  IsFiniteSet(Leaseholders(c)) /\ Cardinality(Leaseholders(c)) \in Nat
<1>1. IsFiniteSet(Leaseholders(c))
  BY SessionAssumption, FS_Subset DEF Leaseholders
<1>. QED
  BY <1>1, FS_CardinalityType

Holds(x, c) == x.at \in {"acquiring", "holding"} /\ x.conn = c

(* One call changes: the holders of a connection gain it, lose it or stay. *)
LEMMA HoldersMove ==
  ASSUME TypeOK, NEW p \in Client, NEW x, client' = [client EXCEPT ![p] = x], NEW c
  PROVE  /\ Holds(x, c) => Leaseholders(c)' = Leaseholders(c) \cup {p}
         /\ ~Holds(x, c) => Leaseholders(c)' = Leaseholders(c) \ {p}
         /\ p \in Leaseholders(c) <=> Holds(client[p], c)
<1>1. \A q \in Client : client'[q] = IF q = p THEN x ELSE client[q]
  BY DEF TypeOK
<1>. QED
  BY <1>1 DEF Leaseholders, Holds

LEMMA HoldersCount ==
  ASSUME NEW c, NEW p
  PROVE  /\ p \notin Leaseholders(c) =>
              Cardinality(Leaseholders(c) \cup {p}) = Cardinality(Leaseholders(c)) + 1
         /\ p \in Leaseholders(c) =>
              /\ Cardinality(Leaseholders(c) \ {p}) = Cardinality(Leaseholders(c)) - 1
              /\ Cardinality(Leaseholders(c)) > 0
<1>1. IsFiniteSet(Leaseholders(c)) /\ Cardinality(Leaseholders(c)) \in Nat
  BY HoldersFinite
<1>. DEFINE H == Leaseholders(c)
<1>. HIDE DEF H
<1>2. ASSUME p \in H
      PROVE  Cardinality(H \ {p}) = Cardinality(H) - 1 /\ Cardinality(H) > 0
  <2>1. Cardinality(H) # 0
    BY <1>1, <1>2, FS_EmptySet DEF H
  <2>. QED
    BY <1>1, <1>2, <2>1, FS_RemoveElement DEF H
<1>3. ASSUME p \notin H PROVE Cardinality(H \cup {p}) = Cardinality(H) + 1
  BY <1>1, <1>3, FS_AddElement DEF H
<1>. QED
  BY <1>2, <1>3 DEF H

-----------------------------------------------------------------------------
(* The count is exact.                                                     *)

(* A connection only ever becomes open in Resume; elsewhere it keeps its phase, moves on
   while it connects, or ends. *)
NothingOpens ==
  \A c \in Conn :
    \/ phase'[c] = phase[c]
    \/ phase'[c] \in {"rejected", "closing", "closed"}
    \/ phase[c] = "connecting" /\ phase'[c] \in {"rejecting", "ready"}

LEMMA CountedKept ==
  ASSUME Counted, leases' = leases, NothingOpens,
         \A c \in Conn : Leaseholders(c)' = Leaseholders(c)
  PROVE  Counted'
BY DEF Counted, NothingOpens

(* A call that held nothing and holds nothing changes no connection's holders. *)
LEMMA HoldersKept ==
  ASSUME TypeOK, NEW p \in Client, NEW x, client' = [client EXCEPT ![p] = x],
         client[p].at \notin {"acquiring", "holding"}, x.at \notin {"acquiring", "holding"}
  PROVE  \A c \in Conn : Leaseholders(c)' = Leaseholders(c)
<1>. TAKE c \in Conn
<1>1. ~Holds(x, c) /\ ~Holds(client[p], c)
  BY DEF Holds
<1>2. Leaseholders(c)' = Leaseholders(c) \ {p} /\ p \notin Leaseholders(c)
  BY <1>1, HoldersMove
<1>. QED
  BY <1>2

LEMMA CloseNextCounted ==
  ASSUME TypeOK, Counted, NEW p \in Client, client[p].at \in {"idle", "clearing"},
         NEW todo \in SUBSET Conn, NEW joined, CloseNext(p, todo, joined), leases' = leases
  PROVE  Counted'
<1>1. PICK v \in Conn \cup {None}, rest \in SUBSET Conn :
        client' = [client EXCEPT ![p] = Clearing(v, rest, joined)]
  BY DEF CloseNext
<1>2. Clearing(v, rest, joined).at = "clearing"
  BY DEF Clearing
<1>3. \A c \in Conn : Leaseholders(c)' = Leaseholders(c)
  BY <1>1, <1>2, HoldersKept
<1>4. NothingOpens
  BY DEF CloseNext, Disconnect, NothingOpens, TypeOK
<1>. QED
  BY <1>3, <1>4, CountedKept

(* A caller that clears the key of its own lease closes what it held, if nothing had. *)
LEMMA AbandonCounted ==
  ASSUME IInv, Counted, NEW p \in Client, NEW K \in SUBSET Key, Abandons(p, K), Clear(p, K)
  PROVE  Counted'
<1>1. PICK c \in Conn : c = client[p].conn /\ keyOf[c] \in Key /\ K = {keyOf[c]}
  BY DEF IInv, Calls, Abandons
<1>. DEFINE todo == {sessions[k] : k \in K \cap Live(sessions)}
            joined == {pending[k] : k \in K \cap Live(pending)}
<1>2. CloseNext(p, todo, joined) /\ leases' = leases
  BY DEF Clear
<1>3. todo \in SUBSET Conn /\ (phase[c] = "open" => todo = {c})
  BY <1>1, SessionAssumption DEF IInv, TypeOK, Linked, LinkedAs, Live
<1>. HIDE DEF todo, joined
<1>4. NothingOpens
  BY <1>2, <1>3 DEF CloseNext, Disconnect, NothingOpens, IInv, TypeOK
<1>5. phase'[c] # "open"
  <2>1. CASE phase[c] = "open"
    BY <1>2, <1>3, <2>1 DEF CloseNext, Disconnect, IInv, TypeOK
  <2>. QED
    BY <1>4, <2>1 DEF NothingOpens
<1>6. PICK v \in Conn \cup {None}, rest \in SUBSET Conn :
        client' = [client EXCEPT ![p] = Clearing(v, rest, joined)]
  BY <1>2, <1>3 DEF CloseNext
<1>7. \A d \in Conn : d # c => Leaseholders(d)' = Leaseholders(d)
  <2>. TAKE d \in Conn
  <2>. HAVE d # c
  <2>1. ~Holds(Clearing(v, rest, joined), d) /\ ~Holds(client[p], d)
    BY <1>1 DEF Holds, Clearing
  <2>2. Leaseholders(d)' = Leaseholders(d) \ {p} /\ p \notin Leaseholders(d)
    BY <1>6, <2>1, HoldersMove DEF IInv
  <2>. QED
    BY <2>2
<1>. QED
  BY <1>2, <1>4, <1>5, <1>7 DEF Counted, NothingOpens

LEMMA EvictOpensNothing ==
  ASSUME NEW v, NEW p, NEW place, NEW c, NEW rec,
         Evicted(v, p, place, c, sessions, phase, rec)
  PROVE  NothingOpens
BY DEF Evicted, Disconnect, NothingOpens

LEMMA GiveBackMoves ==
  ASSUME IInv, NEW p \in Client, client[p].at \in {"acquiring", "holding"}, GiveBack(p)
  PROVE  /\ NothingOpens
         /\ \E x \in Call : /\ client' = [client EXCEPT ![p] = x]
                            /\ x.at \notin {"acquiring", "holding"}
<1>. DEFINE c == client[p].conn
            rec == Touch(c, Pooled(sessions))
<1>1. c \in Conn
  BY DEF IInv, Calls
<1>2. CASE client' = [client EXCEPT ![p] = Idle] /\ UNCHANGED <<phase, sessions, timer>>
  BY <1>2, IdleType DEF NothingOpens
<1>3. CASE EvictTurn(p, "releasing", c, sessions, phase, rec)
  <2>1. PICK v \in Conn \cup {None} : Evicted(v, p, "releasing", c, sessions, phase, rec)
    BY <1>1, <1>3, EvictTurnEffect DEF IInv, TypeOK
  <2>. DEFINE x == At("releasing", c, v)
  <2>2. client' = [client EXCEPT ![p] = x] /\ x \in Call /\ x.at = "releasing"
    BY <1>1, <2>1, AtType DEF Evicted
  <2>. QED
    BY <2>1, <2>2, EvictOpensNothing
<1>. QED
  BY <1>2, <1>3 DEF GiveBack

LEMMA GiveBackCounts ==
  ASSUME IInv, Counted, NEW p \in Client, client[p].at \in {"acquiring", "holding"},
         GiveBack(p)
  PROVE  /\ NothingOpens
         /\ \A d \in Conn : d # client[p].conn => leases'[d] = leases[d]
         /\ \A d \in Conn : phase[d] = "open" => leases'[d] = Cardinality(Leaseholders(d)')
<1>1. PICK c \in Conn : c = client[p].conn /\ phase[c] \in Used
  BY DEF IInv, Calls
<1>2. leases' = Give(c)
  BY <1>1 DEF GiveBack
<1>3. \A d \in Conn : leases'[d] = IF d = c THEN (IF leases[c] = 0 THEN 0 ELSE leases[c] - 1)
                                         ELSE leases[d]
  BY <1>1, <1>2 DEF Give, IInv, TypeOK
<1>4. PICK x \in Call : /\ client' = [client EXCEPT ![p] = x]
                        /\ x.at \notin {"acquiring", "holding"}
  BY GiveBackMoves
<1>5. \A d \in Conn : /\ Leaseholders(d)' = Leaseholders(d) \ {p}
                      /\ p \in Leaseholders(d) <=> d = c
  <2>. TAKE d \in Conn
  <2>1. ~Holds(x, d) /\ (Holds(client[p], d) <=> d = c)
    BY <1>1, <1>4 DEF Holds
  <2>. QED
    BY <1>1, <1>4, <2>1, HoldersMove DEF IInv
<1>6. NothingOpens
  BY GiveBackMoves
<1>7. ASSUME NEW d \in Conn, phase[d] = "open"
      PROVE  leases'[d] = Cardinality(Leaseholders(d)')
  <2>2. leases[d] = Cardinality(Leaseholders(d)) /\ leases[d] \in Nat
    BY <1>7 DEF Counted, IInv, TypeOK
  <2>3. CASE d = c
    <3>1. /\ Cardinality(Leaseholders(d) \ {p}) = Cardinality(Leaseholders(d)) - 1
          /\ Cardinality(Leaseholders(d)) > 0
      BY <1>5, <2>3, HoldersCount
    <3>2. leases'[d] = leases[d] - 1
      BY <1>3, <2>2, <2>3, <3>1
    <3>3. Leaseholders(d)' = Leaseholders(d) \ {p}
      BY <1>5
    <3>. QED
      BY <2>2, <3>1, <3>2, <3>3, Zenon
  <2>4. CASE d # c
    <3>1. Leaseholders(d)' = Leaseholders(d)
      BY <1>5, <2>4
    <3>. QED
      BY <1>3, <2>2, <2>4, <3>1
  <2>. QED
    BY <2>3, <2>4
<1>. QED
  BY <1>1, <1>3, <1>6, <1>7

LEMMA GiveBackCounted ==
  ASSUME IInv, Counted, NEW p \in Client, client[p].at \in {"acquiring", "holding"},
         GiveBack(p)
  PROVE  Counted'
<1>1. client[p].conn \in Conn /\ phase[client[p].conn] \in Used
  BY DEF IInv, Calls
<1>2. NothingOpens
  BY GiveBackCounts
<1>3. ASSUME NEW d \in Conn, phase'[d] = "open"
      PROVE  leases'[d] = Cardinality(Leaseholders(d)')
  BY <1>2, <1>3, GiveBackCounts DEF NothingOpens
<1>4. ASSUME NEW d \in Conn, phase'[d] \in {"connecting", "rejecting", "ready"}
      PROVE  leases'[d] = 0
  <2>1. phase[d] \in {"connecting", "rejecting", "ready"}
    BY <1>2, <1>4 DEF NothingOpens
  <2>2. leases[d] = 0 /\ d # client[p].conn
    BY <1>1, <2>1 DEF Counted, Used
  <2>. QED
    BY <2>2, GiveBackCounts
<1>. QED
  BY <1>3, <1>4 DEF Counted

(* Resuming gives the caller a lease of the connection it awaited and of no other, and
   what it evicts is another one, which nobody leases. *)
Resumed(c, v, p) ==
  /\ c = client[p].conn /\ keyOf[c] \in Key /\ phase[c] \in {"ready", "open"}
  /\ \A k \in Key : sessions'[k] = IF k = keyOf[c] THEN c
                                   ELSE Without(sessions, v)[k]
  /\ phase'[c] = "open"
  /\ \A d \in Conn \ {c} :
       phase'[d] = IF d = v THEN Disconnect(phase[d]) ELSE phase[d]
  /\ \A d \in Conn : timer'[d] = (timer[d] /\ d # v)
  /\ v # c
  /\ v # None => /\ v \in Pooled(sessions) /\ leases[v] = 0
                 /\ Over([sessions EXCEPT ![keyOf[c]] = c])
  /\ v = None => \/ ~Over([sessions EXCEPT ![keyOf[c]] = c])
                 \/ \A d \in Pooled(sessions) : d # c => leases[d] # 0
  /\ \A d \in Conn : leases'[d] = IF d = c THEN leases[c] + 1 ELSE leases[d]
  /\ \A d \in Conn \ {c} : Leaseholders(d)' = Leaseholders(d)
  /\ Leaseholders(c)' = Leaseholders(c) \cup {p} /\ p \notin Leaseholders(c)
  /\ \E x \in Call : client' = [client EXCEPT ![p] = x] /\ x.at # "releasing"

LEMMA ResumeMoves ==
  ASSUME IInv, NEW p \in Client, Resume(p)
  PROVE  \E c \in Conn, v \in Conn \cup {None} : Resumed(c, v, p)
<1>0. PICK c \in Conn : c = client[p].conn
  BY ResumeInstalls
<1>. DEFINE installed == [sessions EXCEPT ![keyOf[c]] = c]
            opened == [phase EXCEPT ![c] = IF @ = "ready" THEN "open" ELSE @]
            rec == Touch(c, Pooled(installed))
<1>1. /\ c \in Conn /\ installed \in [Key -> Conn \cup {None}] /\ keyOf[c] \in Key
      /\ phase[c] \in {"ready", "open"} /\ opened[c] = "open"
      /\ \A d \in Conn \ {c} : opened[d] = phase[d]
      /\ LinkedAs(installed, Forget(c), opened)
  BY <1>0, ResumeInstalls
<1>2. /\ EvictTurn(p, "acquiring", c, installed, opened, rec) /\ leases' = Take(c)
      /\ client[p].at = "waiting"
  BY <1>0 DEF Resume
<1>3. \A k \in Key : installed[k] = IF k = keyOf[c] THEN c ELSE sessions[k]
  BY <1>1 DEF IInv, TypeOK
<1>. HIDE DEF installed, opened, rec
<1>4. PICK v \in Conn \cup {None} : Evicted(v, p, "acquiring", c, installed, opened, rec)
  BY <1>1, <1>2, EvictTurnEffect
<1>5. \A d \in Conn : leases'[d] = IF d = c THEN leases[c] + 1 ELSE leases[d]
  BY <1>1, <1>2 DEF Take, IInv, TypeOK
<1>6. v # None => /\ v # c /\ v \in Pooled(sessions) /\ leases[v] = 0 /\ Over(installed)
  <2>1. v # None => keyOf[v] # keyOf[c] /\ leases'[v] = 0 /\ v \in Pooled(installed) /\ Over(installed)
    BY <1>4 DEF Evicted, Protected
  <2>2. v # None => v \in Pooled(sessions)
    BY <1>1, <1>3, <2>1 DEF Pooled, Live, LinkedAs
  <2>. QED
    BY <1>5, <2>1, <2>2
<1>7. v # c
  BY <1>6, SessionAssumption
<1>8. v = None => ~Over(installed) \/ \A d \in Pooled(sessions) : d # c => leases[d] # 0
  <2>. SUFFICES ASSUME v = None, Over(installed), NEW d \in Pooled(sessions), d # c
                PROVE  leases[d] # 0
    OBVIOUS
  <2>1. Evictable(installed, keyOf[c], leases') = {}
    BY <1>4 DEF Evicted, Protected
  <2>2. d \in Conn /\ phase[d] = "open"
    BY SessionAssumption DEF Pooled, Live, IInv, TypeOK, Linked, LinkedAs
  <2>3. keyOf[d] \in Key /\ installed[keyOf[d]] = d
    BY <1>1, <2>2 DEF LinkedAs
  <2>4. d \in Pooled(installed) /\ keyOf[d] # keyOf[c]
    BY <1>3, <2>2, <2>3, SessionAssumption DEF Pooled, Live
  <2>5. leases'[d] # 0
    BY <2>1, <2>4 DEF Evictable
  <2>. QED
    BY <1>5, <2>2, <2>5
<1>9. \A k \in Key : sessions'[k] = IF k = keyOf[c] THEN c ELSE Without(sessions, v)[k]
  BY <1>3, <1>4, <1>7 DEF Evicted, Without
<1>10. /\ phase'[c] = "open"
       /\ \A d \in Conn \ {c} : phase'[d] = IF d = v THEN Disconnect(phase[d]) ELSE phase[d]
       /\ \A d \in Conn : timer'[d] = (timer[d] /\ d # v)
  BY <1>1, <1>4, <1>7 DEF Evicted
<1>. DEFINE x == At(IF v = None THEN "holding" ELSE "acquiring", c, v)
<1>11. /\ client' = [client EXCEPT ![p] = x] /\ x \in Call
       /\ x.at \in {"acquiring", "holding"} /\ x.conn = c
  BY <1>1, <1>4, AtType DEF Evicted
<1>. HIDE DEF x
<1>12. ASSUME NEW d \in Conn
       PROVE  /\ p \notin Leaseholders(d)
              /\ d = c => Leaseholders(d)' = Leaseholders(d) \cup {p}
              /\ d # c => Leaseholders(d)' = Leaseholders(d)
  <2>1. ~Holds(client[p], d) /\ (Holds(x, d) <=> d = c)
    BY <1>0, <1>2, <1>11 DEF Holds
  <2>2. /\ p \notin Leaseholders(d)
        /\ d = c => Leaseholders(d)' = Leaseholders(d) \cup {p}
        /\ d # c => Leaseholders(d)' = Leaseholders(d) \ {p}
    BY <1>11, <2>1, HoldersMove, Zenon DEF IInv
  <2>3. Leaseholders(d) \ {p} = Leaseholders(d)
    BY <2>2
  <2>. QED
    BY <2>2, <2>3, Zenon
<1>13. /\ \A d \in Conn \ {c} : Leaseholders(d)' = Leaseholders(d)
       /\ Leaseholders(c)' = Leaseholders(c) \cup {p} /\ p \notin Leaseholders(c)
  BY <1>12
<1>14. \E y \in Call : client' = [client EXCEPT ![p] = y] /\ y.at # "releasing"
  BY <1>11
<1>. USE DEF installed
<1>15. Resumed(c, v, p)
  BY <1>0, <1>1, <1>5, <1>6, <1>7, <1>8, <1>9, <1>10, <1>13, <1>14, Zenon DEF Resumed
<1>. QED
  BY <1>15

LEMMA ResumeCounted ==
  ASSUME IInv, Counted, NEW p \in Client, Resume(p)
  PROVE  Counted'
<1>0. PICK c \in Conn, v \in Conn \cup {None} : Resumed(c, v, p)
  BY ResumeMoves
<1>1. /\ phase[c] \in {"ready", "open"} /\ phase'[c] = "open"
      /\ \A d \in Conn \ {c} : phase'[d] = IF d = v THEN Disconnect(phase[d]) ELSE phase[d]
      /\ \A d \in Conn : leases'[d] = IF d = c THEN leases[c] + 1 ELSE leases[d]
      /\ \A d \in Conn \ {c} : Leaseholders(d)' = Leaseholders(d)
      /\ Leaseholders(c)' = Leaseholders(c) \cup {p} /\ p \notin Leaseholders(c)
  BY <1>0, Zenon DEF Resumed
<1>2. leases[c] = Cardinality(Leaseholders(c))
  <2>1. CASE phase[c] = "open"
    BY <1>1, <2>1 DEF Counted
  <2>2. CASE phase[c] = "ready"
    <3>1. Leaseholders(c) = {}
      BY <2>2 DEF Leaseholders, IInv, Calls, Used
    <3>. QED
      BY <1>1, <2>2, <3>1, FS_EmptySet DEF Counted
  <2>. QED
    BY <1>1, <2>1, <2>2
<1>3. leases'[c] = Cardinality(Leaseholders(c)')
  <2>1. Cardinality(Leaseholders(c) \cup {p}) = Cardinality(Leaseholders(c)) + 1
    BY <1>1, HoldersCount
  <2>2. leases'[c] = leases[c] + 1
    BY <1>1
  <2>. QED
    BY <1>1, <1>2, <2>1, <2>2, Zenon
<1>4. ASSUME NEW d \in Conn, d # c
      PROVE  /\ phase'[d] = "open" => leases'[d] = Cardinality(Leaseholders(d)')
             /\ phase'[d] \in {"connecting", "rejecting", "ready"} => leases'[d] = 0
  <2>1. /\ phase'[d] = phase[d] \/ phase'[d] = "closing"
        /\ leases'[d] = leases[d] /\ Leaseholders(d)' = Leaseholders(d)
    BY <1>1, <1>4 DEF Disconnect
  <2>. QED
    BY <2>1 DEF Counted
<1>. QED
  BY <1>1, <1>3, <1>4 DEF Counted

(* A further turn of evictIfNeeded changes nobody's lease. *)
LEMMA EvictAgainMoves ==
  ASSUME IInv, NEW p \in Client, EvictAgain(p)
  PROVE  /\ leases' = leases
         /\ \A d \in Conn : Leaseholders(d)' = Leaseholders(d)
         /\ \E place \in {"acquiring", "releasing"}, c \in Conn, v \in Conn \cup {None} :
              /\ place = client[p].at /\ c = client[p].conn
              /\ Evicted(v, p, place, c, sessions, phase, older)
<1>1. PICK c \in Conn, place \in {"acquiring", "releasing"} :
        c = client[p].conn /\ place = client[p].at
  BY DEF EvictAgain, IInv, Calls
<1>2. EvictTurn(p, place, c, sessions, phase, older) /\ leases' = leases
  BY <1>1 DEF EvictAgain
<1>3. PICK v \in Conn \cup {None} : Evicted(v, p, place, c, sessions, phase, older)
  BY <1>2, EvictTurnEffect DEF IInv, TypeOK
<1>. DEFINE x == At(IF place = "acquiring" /\ v = None THEN "holding" ELSE place, c, v)
<1>4. /\ client' = [client EXCEPT ![p] = x] /\ x.conn = c
      /\ place = "acquiring" => x.at \in {"acquiring", "holding"}
      /\ place = "releasing" => x.at = "releasing"
  BY <1>3, AtType DEF Evicted
<1>. HIDE DEF x
<1>5. \A d \in Conn : Leaseholders(d)' = Leaseholders(d)
  <2>. TAKE d \in Conn
  <2>1. Holds(x, d) <=> Holds(client[p], d)
    BY <1>1, <1>4 DEF Holds
  <2>2. IF Holds(x, d) THEN Leaseholders(d)' = Leaseholders(d) \cup {p} /\ p \in Leaseholders(d)
                       ELSE Leaseholders(d)' = Leaseholders(d) \ {p} /\ p \notin Leaseholders(d)
    BY <1>4, <2>1, HoldersMove, Zenon DEF IInv
  <2>. QED
    BY <2>2
<1>. QED
  BY <1>1, <1>2, <1>3, <1>5

LEMMA CountedStep == IInv /\ Counted /\ [Next]_vars => Counted'
<1>. SUFFICES ASSUME IInv, Counted, [Next]_vars PROVE Counted'
  OBVIOUS
<1>. USE DEF life, clocks
<1>1. ASSUME NEW p \in Client, NEW k \in Key, AcquireSession(p, k) PROVE Counted'
  <2>1. PICK c \in Conn : c = sessions[k] /\ phase[c] = "open"
    BY <1>1 DEF AcquireSession, IInv, TypeOK, Linked, LinkedAs
  <2>2. client' = [client EXCEPT ![p] = At("holding", c, None)] /\ client[p].at = "idle"
    BY <1>1, <2>1 DEF AcquireSession
  <2>3. phase' = phase /\ \A d \in Conn : leases'[d] = IF d = c THEN leases[d] + 1 ELSE leases[d]
    BY <1>1, <2>1 DEF AcquireSession, Take, IInv, TypeOK
  <2>. DEFINE x == At("holding", c, None)
  <2>8. x.at = "holding" /\ x.conn = c
    BY AtType
  <2>4. \A d \in Conn : /\ ~Holds(client[p], d) /\ (Holds(x, d) <=> d = c)
    BY <2>2, <2>8 DEF Holds
  <2>. HIDE DEF x
  <2>5. client' = [client EXCEPT ![p] = x]
    BY <2>2 DEF x
  <2>6. ASSUME NEW d \in Conn, d # c PROVE Leaseholders(d)' = Leaseholders(d)
    <3>1. Leaseholders(d)' = Leaseholders(d) \ {p} /\ p \notin Leaseholders(d)
      BY <2>4, <2>5, <2>6, HoldersMove, Zenon DEF IInv
    <3>. QED
      BY <3>1
  <2>7. leases'[c] = Cardinality(Leaseholders(c)')
    <3>1. Leaseholders(c)' = Leaseholders(c) \cup {p} /\ p \notin Leaseholders(c)
      BY <2>4, <2>5, HoldersMove, Zenon DEF IInv
    <3>2. Cardinality(Leaseholders(c) \cup {p}) = Cardinality(Leaseholders(c)) + 1
      BY <3>1, HoldersCount
    <3>3. leases'[c] = leases[c] + 1 /\ leases[c] = Cardinality(Leaseholders(c))
      BY <2>1, <2>3 DEF Counted
    <3>. QED
      BY <3>1, <3>2, <3>3, Zenon
  <2>. QED
    BY <2>1, <2>3, <2>6, <2>7 DEF Counted
<1>2. ASSUME NEW p \in Client, NEW k \in Key, JoinPending(p, k) PROVE Counted'
  <2>. DEFINE x == At("waiting", pending[k], None)
  <2>1. x.at = "waiting" /\ client' = [client EXCEPT ![p] = x] /\ client[p].at = "idle"
    BY <1>2 DEF JoinPending, At
  <2>2. \A c \in Conn : Leaseholders(c)' = Leaseholders(c)
    BY <2>1, HoldersKept DEF IInv
  <2>. QED
    BY <1>2, <2>2, CountedKept DEF JoinPending, NothingOpens
<1>3. ASSUME NEW p \in Client, NEW k \in Key, NEW c \in Conn, StartConnect(p, k, c)
      PROVE  Counted'
  <2>. DEFINE x == At("waiting", c, None)
  <2>1. x.at = "waiting" /\ client' = [client EXCEPT ![p] = x] /\ client[p].at = "idle"
    BY <1>3 DEF StartConnect, At
  <2>2. \A d \in Conn : Leaseholders(d)' = Leaseholders(d)
    BY <2>1, HoldersKept DEF IInv
  <2>3. \A d \in Conn : /\ leases'[d] = IF d = c THEN 0 ELSE leases[d]
                        /\ phase'[d] = IF d = c THEN "connecting" ELSE phase[d]
    BY <1>3 DEF StartConnect, IInv, TypeOK
  <2>. QED
    BY <2>2, <2>3 DEF Counted
<1>4. ASSUME NEW p \in Client, NEW K \in SUBSET Key, Clear(p, K) PROVE Counted'
  <2>. DEFINE todo == {sessions[k] : k \in K \cap Live(sessions)}
              joined == {pending[k] : k \in K \cap Live(pending)}
  <2>1. todo \in SUBSET Conn
    BY DEF IInv, TypeOK, Live
  <2>2. /\ CloseNext(p, todo, joined) /\ leases' = leases
        /\ client[p].at = "idle" \/ Abandons(p, K)
    BY <1>4 DEF Clear
  <2>. HIDE DEF todo, joined
  <2>3. CASE client[p].at = "idle"
    BY <2>1, <2>2, <2>3, CloseNextCounted DEF IInv
  <2>. QED
    BY <1>4, <2>2, <2>3, AbandonCounted
<1>5. ASSUME NEW p \in Client, ContinueClear(p) PROVE Counted'
  <2>1. client[p].todo \in SUBSET Conn
    BY DEF IInv, TypeOK, Call
  <2>. QED
    BY <1>5, <2>1, CloseNextCounted DEF ContinueClear, IInv
<1>6. ASSUME NEW p \in Client, client[p].at \notin {"acquiring", "holding"},
             client' = [client EXCEPT ![p] = Idle], UNCHANGED <<phase, leases>>
      PROVE  Counted'
  <2>. DEFINE x == Idle
  <2>1. x.at = "idle" /\ client' = [client EXCEPT ![p] = x]
    BY <1>6, IdleType
  <2>2. \A c \in Conn : Leaseholders(c)' = Leaseholders(c)
    BY <1>6, <2>1, HoldersKept DEF IInv
  <2>. QED
    BY <1>6, <2>2, CountedKept DEF NothingOpens
<1>7. ASSUME NEW p \in Client, ResumeRejected(p) \/ FinishRelease(p) \/ FinishClear(p)
      PROVE  Counted'
  BY <1>6, <1>7 DEF ResumeRejected, FinishRelease, FinishClear
<1>8. ASSUME NEW p \in Client, EvictAgain(p) PROVE Counted'
  BY <1>8, EvictAgainMoves, EvictOpensNothing, CountedKept
<1>9. ASSUME NEW p \in Client, ReleaseLease(p) PROVE Counted'
  BY <1>9, GiveBackCounted DEF ReleaseLease
<1>10. ASSUME NEW p \in Client, ReleaseConnection(p) PROVE Counted'
  <2>1. CASE client[p].conn \in Pooled(sessions)
    BY <1>10, <2>1, GiveBackCounted DEF ReleaseConnection
  <2>2. CASE client[p].conn \notin Pooled(sessions)
    <3>1. PICK c \in Conn : c = client[p].conn /\ phase[c] \in {"closing", "closed"}
      <4>1. PICK c \in Conn : c = client[p].conn /\ phase[c] \in Used
        BY <1>10 DEF ReleaseConnection, IInv, Calls
      <4>2. phase[c] # "open"
        BY <2>2, <4>1, SessionAssumption DEF IInv, Linked, LinkedAs, Pooled, Live
      <4>. QED
        BY <4>1, <4>2 DEF Used
    <3>. DEFINE x == Idle
    <3>2. /\ client' = [client EXCEPT ![p] = x] /\ x.at = "idle"
          /\ UNCHANGED <<phase, leases>>
      BY <1>10, <2>2, IdleType DEF ReleaseConnection
    <3>. HIDE DEF x
    <3>3. ASSUME NEW d \in Conn, d # c PROVE Leaseholders(d)' = Leaseholders(d)
      <4>1. ~Holds(x, d) /\ ~Holds(client[p], d)
        BY <3>1, <3>2, <3>3 DEF Holds
      <4>2. Leaseholders(d)' = Leaseholders(d) \ {p} /\ p \notin Leaseholders(d)
        BY <3>2, <4>1, HoldersMove, Zenon DEF IInv
      <4>. QED
        BY <4>2
    <3>. QED
      BY <3>1, <3>2, <3>3 DEF Counted
  <2>. QED
    BY <2>1, <2>2
<1>11. ASSUME NEW c \in Conn, Settle(c) \/ IdleFires(c) \/ DisconnectDone(c) PROVE Counted'
  <2>1. UNCHANGED <<leases, client>>
    BY <1>11 DEF Settle, ConnectResolves, ConnectRejects, IdleFires, DisconnectDone
  <2>2. NothingOpens
    BY <1>11 DEF Settle, ConnectResolves, ConnectRejects, IdleFires, DisconnectDone, Ended,
                 Disconnect, NothingOpens, IInv, TypeOK
  <2>3. \A d \in Conn : Leaseholders(d)' = Leaseholders(d)
    BY <2>1 DEF Leaseholders
  <2>. QED
    BY <2>1, <2>2, <2>3, CountedKept
<1>12. CASE UNCHANGED vars
  <2>1. UNCHANGED <<phase, leases, client>>
    BY <1>12 DEF vars
  <2>2. \A c \in Conn : Leaseholders(c)' = Leaseholders(c)
    BY <2>1 DEF Leaseholders
  <2>. QED
    BY <2>1, <2>2, CountedKept DEF NothingOpens
<1>. QED
  BY <1>1, <1>2, <1>3, <1>4, <1>5, <1>7, <1>8, <1>9, <1>10, <1>11, <1>12, ResumeCounted
     DEF Next, Step, Acquire, Continue, ClearKey, ClearAll

(* entry.leases is the number of callers that hold the session, however acquires, joins,
   releases through either API and clears interleave. *)
THEOREM LeasesCountedAlways == Spec => []LeasesCounted
<1>1. Init => Counted
  BY DEF Init, Counted
<1>2. IInv /\ Counted => LeasesCounted
  BY DEF IInv, Linked, LinkedAs, Counted, LeasesCounted, Pooled, Live, TypeOK
<1>. QED
  BY <1>1, <1>2, CountedStep, Invariance, PTL DEF Spec

-----------------------------------------------------------------------------
(* The idle timer.                                                         *)

(* A step that keeps the timers and the returns under way keeps the timers of whatever
   stays in the pool without a lease. *)
LEMMA TimersKept ==
  ASSUME IdleHasTimer,
         \A c \in Pooled(sessions') : leases'[c] = 0 =>
            /\ c \in Pooled(sessions) /\ leases[c] = 0
            /\ timer[c] => timer'[c]
            /\ c \in orphans => c \in orphans',
         \A q \in Client : client[q].at = "releasing" =>
            client'[q].at = "releasing" /\ client'[q].conn = client[q].conn
  PROVE  IdleHasTimer'
<1>. SUFFICES ASSUME NEW c \in Pooled(sessions'), leases'[c] = 0
              PROVE  \/ timer'[c] \/ c \in orphans'
                     \/ \E p \in Client : client'[p].at = "releasing" /\ client'[p].conn = c
  BY Zenon DEF IdleHasTimer
<1>1. \/ timer[c] \/ c \in orphans
      \/ \E p \in Client : client[p].at = "releasing" /\ client[p].conn = c
  BY Zenon DEF IdleHasTimer
<1>. QED
  BY <1>1, Zenon

(* A call that is not returning a lease changes. *)
LEMMA ReturnsKept ==
  ASSUME TypeOK, NEW p \in Client, NEW x, client' = [client EXCEPT ![p] = x],
         client[p].at = "releasing" => x.at = "releasing" /\ x.conn = client[p].conn
  PROVE  \A q \in Client : client[q].at = "releasing" =>
            client'[q].at = "releasing" /\ client'[q].conn = client[q].conn
<1>1. \A q \in Client : client'[q] = IF q = p THEN x ELSE client[q]
  BY DEF TypeOK
<1>. QED
  BY <1>1, Zenon

LEMMA PooledWithout ==
  ASSUME NEW sess, NEW v, NEW c \in Pooled(Without(sess, v))
  PROVE  c \in Pooled(sess) /\ c # v /\ c # None
<1>1. PICK k \in Key : Without(sess, v)[k] = c /\ c # None
  BY DEF Pooled, Live
<1>2. sess[k] = c /\ c # v
  BY <1>1 DEF Without
<1>. QED
  BY <1>1, <1>2 DEF Pooled, Live

LEMMA EvictIdle ==
  ASSUME IInv, IdleHasTimer, NEW p \in Client, EvictAgain(p)
  PROVE  IdleHasTimer'
<1>1. PICK place \in {"acquiring", "releasing"}, c \in Conn, v \in Conn \cup {None} :
        /\ place = client[p].at /\ c = client[p].conn
        /\ Evicted(v, p, place, c, sessions, phase, older)
  BY EvictAgainMoves
<1>2. leases' = leases /\ orphans' = orphans
  BY DEF EvictAgain
<1>. DEFINE x == At(IF place = "acquiring" /\ v = None THEN "holding" ELSE place, c, v)
<1>3. /\ client' = [client EXCEPT ![p] = x] /\ x.conn = c
      /\ place = "releasing" => x.at = "releasing"
  BY <1>1, AtType DEF Evicted
<1>. HIDE DEF x
<1>4. \A q \in Client : client[q].at = "releasing" =>
        client'[q].at = "releasing" /\ client'[q].conn = client[q].conn
  BY <1>1, <1>3, ReturnsKept DEF IInv
<1>5. \A d \in Pooled(sessions') : d \in Pooled(sessions) /\ d # v
  BY <1>1, PooledWithout DEF Evicted
<1>6. Pooled(sessions) \subseteq Conn
  BY PooledType DEF IInv, TypeOK
<1>7. \A d \in Conn : timer'[d] = (timer[d] /\ d # v)
  BY <1>1, Zenon DEF Evicted
<1>. QED
  BY <1>2, <1>4, <1>5, <1>6, <1>7, TimersKept

LEMMA ResumeIdle ==
  ASSUME IInv, IdleHasTimer, NEW p \in Client, Resume(p)
  PROVE  IdleHasTimer'
<1>1. PICK c \in Conn, v \in Conn \cup {None} : Resumed(c, v, p)
  BY ResumeMoves
<1>2. /\ \A k \in Key : sessions'[k] = IF k = keyOf[c] THEN c ELSE Without(sessions, v)[k]
      /\ \A d \in Conn : timer'[d] = (timer[d] /\ d # v)
      /\ \A d \in Conn : leases'[d] = IF d = c THEN leases[c] + 1 ELSE leases[d]
  BY <1>1, Zenon DEF Resumed
<1>3. orphans' = orphans /\ client[p].at = "waiting"
  BY DEF Resume
<1>4. \E x \in Call : client' = [client EXCEPT ![p] = x]
  BY <1>1, Zenon DEF Resumed
<1>5. \A q \in Client : client[q].at = "releasing" =>
        client'[q].at = "releasing" /\ client'[q].conn = client[q].conn
  BY <1>3, <1>4, ReturnsKept DEF IInv
<1>6. leases[c] \in Nat
  BY DEF IInv, TypeOK
<1>7. ASSUME NEW d \in Pooled(sessions'), leases'[d] = 0
      PROVE  d \in Pooled(sessions) /\ leases[d] = 0 /\ (timer[d] => timer'[d])
  <2>1. d # c
    BY <1>2, <1>6, <1>7
  <2>2. PICK k \in Key : d = Without(sessions, v)[k] /\ d # None
    BY <1>2, <1>7, <2>1 DEF Pooled, Live
  <2>3. d = sessions[k] /\ d # v
    BY <2>2 DEF Without
  <2>4. d \in Pooled(sessions) /\ d \in Conn
    BY <2>2, <2>3, PooledType DEF IInv, TypeOK, Pooled, Live
  <2>. QED
    BY <1>2, <1>7, <2>1, <2>3, <2>4
<1>. QED
  BY <1>3, <1>5, <1>7, TimersKept

LEMMA GiveBackIdle ==
  ASSUME IInv, IdleHasTimer, NEW p \in Client, client[p].at = "holding", GiveBack(p)
  PROVE  IdleHasTimer'
<1>1. PICK c \in Conn : c = client[p].conn
  BY DEF IInv, Calls
<1>2. \A d \in Conn : d # c => leases'[d] = leases[d]
  BY <1>1 DEF GiveBack, Give, IInv, TypeOK
<1>3. Pooled(sessions) \subseteq Conn /\ orphans' = orphans
  BY PooledType DEF IInv, TypeOK, GiveBack
<1>4. CASE /\ leases'[c] # 0 /\ client' = [client EXCEPT ![p] = Idle]
           /\ sessions' = sessions /\ timer' = timer
  <2>1. \A q \in Client : client[q].at = "releasing" =>
          client'[q].at = "releasing" /\ client'[q].conn = client[q].conn
    BY <1>4, ReturnsKept DEF IInv
  <2>2. \A d \in Pooled(sessions') : leases'[d] = 0 =>
          d \in Pooled(sessions) /\ leases[d] = 0
    BY <1>2, <1>3, <1>4
  <2>. QED
    BY <1>3, <1>4, <2>1, <2>2, TimersKept
<1>5. CASE EvictTurn(p, "releasing", c, sessions, phase, Touch(c, Pooled(sessions)))
  <2>1. PICK v \in Conn \cup {None} :
          Evicted(v, p, "releasing", c, sessions, phase, Touch(c, Pooled(sessions)))
    BY <1>5, EvictTurnEffect DEF IInv, TypeOK
  <2>. DEFINE x == At("releasing", c, v)
  <2>2. client' = [client EXCEPT ![p] = x] /\ x.at = "releasing" /\ x.conn = c
    BY <2>1, AtType DEF Evicted
  <2>. HIDE DEF x
  <2>3. client'[p].at = "releasing" /\ client'[p].conn = c
    BY <2>2 DEF IInv, TypeOK
  <2>4. \A q \in Client : client[q].at = "releasing" =>
          client'[q].at = "releasing" /\ client'[q].conn = client[q].conn
    BY <2>2, ReturnsKept DEF IInv
  <2>5. \A d \in Pooled(sessions') : d \in Pooled(sessions) /\ d # v
    BY <2>1, PooledWithout DEF Evicted
  <2>6. \A d \in Conn : timer'[d] = (timer[d] /\ d # v)
    BY <2>1, Zenon DEF Evicted
  <2>7. ASSUME NEW d \in Pooled(sessions'), leases'[d] = 0, d # c
        PROVE  \/ timer'[d] \/ d \in orphans'
               \/ \E q \in Client : client'[q].at = "releasing" /\ client'[q].conn = d
    <3>1. d \in Conn /\ leases[d] = 0 /\ d \in Pooled(sessions) /\ d # v
      BY <1>2, <1>3, <2>5, <2>7
    <3>2. \/ timer[d] \/ d \in orphans
          \/ \E q \in Client : client[q].at = "releasing" /\ client[q].conn = d
      BY <3>1, Zenon DEF IdleHasTimer
    <3>. QED
      BY <1>3, <2>4, <2>6, <3>1, <3>2, Zenon
  <2>. QED
    BY <2>3, <2>7, Zenon DEF IdleHasTimer
<1>. QED
  BY <1>1, <1>4, <1>5 DEF GiveBack

LEMMA CloseNextIdle ==
  ASSUME IInv, IdleHasTimer, NEW p \in Client, client[p].at # "releasing",
         NEW todo \in SUBSET Conn, NEW joined, CloseNext(p, todo, joined),
         leases' = leases, orphans' = orphans
  PROVE  IdleHasTimer'
<1>1. CASE /\ client' = [client EXCEPT ![p] = Clearing(None, {}, joined)]
           /\ UNCHANGED <<phase, sessions, timer, older>>
  BY <1>1, ReturnsKept, TimersKept DEF IInv
<1>2. ASSUME NEW c \in todo, ClosedNext(c, p, todo, joined) PROVE IdleHasTimer'
  <2>1. \A d \in Pooled(sessions') : d \in Pooled(sessions) /\ d # c
    BY <1>2, SessionAssumption
       DEF ClosedNext, Pooled, Live, IInv, TypeOK, Linked, LinkedAs
  <2>2. Pooled(sessions) \subseteq Conn
    BY PooledType DEF IInv, TypeOK
  <2>3. \A d \in Conn : timer'[d] = (timer[d] /\ d # c)
    BY <1>2, Zenon DEF ClosedNext
  <2>4. \E x : client' = [client EXCEPT ![p] = x]
    BY <1>2 DEF ClosedNext
  <2>5. \A q \in Client : client[q].at = "releasing" =>
          client'[q].at = "releasing" /\ client'[q].conn = client[q].conn
    BY <2>4, ReturnsKept DEF IInv
  <2>. QED
    BY <2>1, <2>2, <2>3, <2>5, TimersKept
<1>. QED
  BY <1>1, <1>2, CloseNextEffect DEF IInv

LEMMA IdleStep == IInv /\ IdleHasTimer /\ [Next]_vars => IdleHasTimer'
<1>. SUFFICES ASSUME IInv, IdleHasTimer, [Next]_vars PROVE IdleHasTimer'
  OBVIOUS
<1>0. TypeOK /\ Pooled(sessions) \subseteq Conn
  BY PooledType DEF IInv, TypeOK
<1>. USE DEF life, clocks
<1>1. ASSUME NEW p \in Client, NEW k \in Key, AcquireSession(p, k) PROVE IdleHasTimer'
  <2>. DEFINE c == sessions[k]
  <2>1. /\ sessions' = sessions /\ orphans' = orphans
        /\ client[p].at = "idle" /\ \E x : client' = [client EXCEPT ![p] = x]
    BY <1>1 DEF AcquireSession
  <2>2. \A q \in Client : client[q].at = "releasing" =>
          client'[q].at = "releasing" /\ client'[q].conn = client[q].conn
    BY <1>0, <2>1, ReturnsKept
  <2>3. \A d \in Conn : /\ leases'[d] = IF d = c THEN leases[d] + 1 ELSE leases[d]
                        /\ d # c => timer'[d] = timer[d]
    BY <1>0, <1>1 DEF AcquireSession, Take, TypeOK
  <2>4. \A d \in Conn : leases'[d] = 0 => d # c /\ leases[d] = 0
    BY <1>0, <2>3 DEF TypeOK
  <2>. QED
    BY <1>0, <2>1, <2>2, <2>3, <2>4, TimersKept
<1>2. ASSUME NEW p \in Client, NEW k \in Key, NEW c \in Conn, StartConnect(p, k, c)
      PROVE  IdleHasTimer'
  <2>1. /\ sessions' = sessions /\ c \notin Pooled(sessions)
        /\ timer' = timer /\ orphans' = orphans
        /\ \A d \in Conn : d # c => leases'[d] = leases[d]
        /\ client[p].at = "idle" /\ \E x : client' = [client EXCEPT ![p] = x]
    BY <1>2 DEF StartConnect, Free, Pooled, Live, IInv, TypeOK
  <2>2. \A q \in Client : client[q].at = "releasing" =>
          client'[q].at = "releasing" /\ client'[q].conn = client[q].conn
    BY <1>0, <2>1, ReturnsKept
  <2>. QED
    BY <1>0, <2>1, <2>2, TimersKept
<1>3. ASSUME NEW p \in Client, client[p].at # "releasing",
             \E x : client' = [client EXCEPT ![p] = x],
             UNCHANGED <<sessions, leases, timer, orphans>>
      PROVE  IdleHasTimer'
  BY <1>0, <1>3, ReturnsKept, TimersKept
<1>4. ASSUME NEW p \in Client, \/ \E k \in Key : JoinPending(p, k)
                               \/ ResumeRejected(p) \/ FinishClear(p)
      PROVE  IdleHasTimer'
  BY <1>3, <1>4 DEF JoinPending, ResumeRejected, FinishClear
<1>5. ASSUME NEW p \in Client, ReleaseLease(p) \/ ReleaseConnection(p) PROVE IdleHasTimer'
  BY <1>3, <1>5, GiveBackIdle DEF ReleaseLease, ReleaseConnection
<1>6. ASSUME NEW p \in Client, FinishRelease(p) PROVE IdleHasTimer'
  <2>1. PICK c \in Conn : c = client[p].conn /\ keyOf[c] \in Key
    BY <1>6 DEF FinishRelease, IInv, Calls
  <2>2. /\ sessions' = sessions /\ leases' = leases
        /\ client' = [client EXCEPT ![p] = Idle]
    BY <1>6 DEF FinishRelease
  <2>3. /\ \A d \in Conn : timer[d] => timer'[d]
        /\ orphans \subseteq orphans'
        /\ c \in Pooled(sessions) => timer'[c]
    BY <1>0, <1>6, <2>1, SessionAssumption
       DEF FinishRelease, EntryKept, TypeOK, Pooled, Live, IInv, Linked, LinkedAs
  <2>4. \A q \in Client : client[q].at = "releasing" =>
          client[q].conn = c \/ (client'[q].at = "releasing" /\ client'[q].conn = client[q].conn)
    BY <1>0, <2>1, <2>2 DEF TypeOK
  <2>. SUFFICES ASSUME NEW d \in Pooled(sessions'), leases'[d] = 0
                PROVE  \/ timer'[d] \/ d \in orphans'
                       \/ \E q \in Client : client'[q].at = "releasing" /\ client'[q].conn = d
    BY Zenon DEF IdleHasTimer
  <2>5. d \in Conn /\ d \in Pooled(sessions) /\ leases[d] = 0
    BY <1>0, <2>2
  <2>6. \/ timer[d] \/ d \in orphans
        \/ \E q \in Client : client[q].at = "releasing" /\ client[q].conn = d
    BY <2>5, Zenon DEF IdleHasTimer
  <2>. QED
    BY <2>3, <2>4, <2>5, <2>6, Zenon
<1>7. ASSUME NEW p \in Client, NEW K \in SUBSET Key, Clear(p, K) PROVE IdleHasTimer'
  <2>. DEFINE todo == {sessions[k] : k \in K \cap Live(sessions)}
              joined == {pending[k] : k \in K \cap Live(pending)}
  <2>1. todo \in SUBSET Conn /\ CloseNext(p, todo, joined)
    BY <1>7 DEF Clear, IInv, TypeOK, Live
  <2>2. client[p].at # "releasing" /\ leases' = leases /\ orphans' = orphans
    BY <1>7 DEF Clear, Abandons
  <2>. HIDE DEF todo, joined
  <2>. QED
    BY <2>1, <2>2, CloseNextIdle
<1>8. ASSUME NEW p \in Client, ContinueClear(p) PROVE IdleHasTimer'
  <2>1. client[p].todo \in SUBSET Conn
    BY DEF IInv, TypeOK, Call
  <2>. QED
    BY <1>8, <2>1, CloseNextIdle DEF ContinueClear
<1>9. ASSUME NEW c \in Conn, IdleFires(c) PROVE IdleHasTimer'
  <2>1. client' = client /\ leases' = leases
    BY <1>9 DEF IdleFires
  <2>2. \A d \in Conn : d # c => (timer[d] => timer'[d]) /\ (d \in orphans => d \in orphans')
    BY <1>0, <1>9 DEF IdleFires, TypeOK
  <2>3. \A d \in Pooled(sessions') : d \in Pooled(sessions) /\ (leases[d] = 0 => d # c)
    BY <1>0, <1>9, SessionAssumption
       DEF IdleFires, Expired, EntryKept, TypeOK, Pooled, Live, IInv, Linked, LinkedAs
  <2>. QED
    BY <1>0, <2>1, <2>2, <2>3, TimersKept
<1>10. ASSUME NEW c \in Conn, DisconnectDone(c) PROVE IdleHasTimer'
  <2>1. c \notin Pooled(sessions)
    BY <1>10 DEF DisconnectDone, Pooled, Live, IInv, Linked, LinkedAs
  <2>2. /\ \A d \in Conn : d # c => timer'[d] = timer[d]
        /\ orphans' = orphans \ {c}
        /\ UNCHANGED <<sessions, leases, client>>
    BY <1>0, <1>10 DEF DisconnectDone, TypeOK
  <2>. QED
    BY <1>0, <2>1, <2>2, TimersKept
<1>11. ASSUME UNCHANGED <<sessions, leases, timer, orphans, client>> PROVE IdleHasTimer'
  BY <1>11, TimersKept
<1>12. ASSUME NEW c \in Conn, Settle(c) PROVE IdleHasTimer'
  BY <1>11, <1>12 DEF Settle, ConnectResolves, ConnectRejects
<1>13. CASE UNCHANGED vars
  BY <1>11, <1>13 DEF vars
<1>. QED
  BY <1>1, <1>2, <1>4, <1>5, <1>6, <1>7, <1>8, <1>9, <1>10, <1>12, <1>13,
     ResumeIdle, EvictIdle
     DEF Next, Step, Acquire, Continue, ClearKey, ClearAll

(* A pooled session nobody leases has an armed timer, or a release that is about to arm
   one: it cannot stay in the pool for want of a timer. *)
THEOREM IdleSessionsTimed == Spec => []IdleHasTimer
<1>1. Init => IdleHasTimer
  BY DEF Init, IdleHasTimer, Pooled, Live
<1>. QED
  BY <1>1, IdleStep, Invariance, PTL DEF Spec

=============================================================================
