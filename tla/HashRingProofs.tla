--------------------------- MODULE HashRingProofs ---------------------------
(***************************************************************************)
(* For every set of agents, peers and positions, and wherever the hash     *)
(* puts the virtual nodes: a ring's keys are owned by its members, rings   *)
(* with the same members differ at collisions only, and a join or a        *)
(* removal moves no key but the joining or removed peer's own.             *)
(***************************************************************************)
EXTENDS HashRing, WellFoundedInduction, TLAPS

\* A set of natural numbers that is not empty has a least element.
LEMMA LeastOf ==
  ASSUME NEW S \in SUBSET Nat, S # {}
  PROVE  Least(S) \in S /\ \A y \in S : Least(S) <= y
<1>1. \E x \in S : \A y \in S : ~ (<<y, x>> \in OpToRel(<, Nat))
  BY NatLessThanWellFounded, WFMin
<1>2. PICK x \in S : \A y \in S : ~ (<<y, x>> \in OpToRel(<, Nat))
  BY <1>1
<1>3. \A y \in S : x <= y
  <2> TAKE y \in S
  <2>1. ~ (y < x)
    BY <1>2 DEF OpToRel
  <2> QED BY <2>1, SMT
<1> QED BY <1>3 DEF Least

\* A set of list indices that is not empty has a greatest element.
LEMMA GreatestOf ==
  ASSUME NEW n \in Nat, NEW S \in SUBSET (1 .. n), S # {}
  PROVE  Greatest(S) \in S /\ \A y \in S : y <= Greatest(S)
<1> DEFINE gap(i) == n - i
           T == {gap(i) : i \in S}
<1>1. T \in SUBSET Nat /\ T # {}
  <2>1. \A i \in S : gap(i) \in Nat
    BY SMT
  <2>2. \E i \in S : gap(i) \in T
    OBVIOUS
  <2> QED BY <2>1, <2>2
<1>2. Least(T) \in T /\ \A y \in T : Least(T) <= y
  <2> HIDE DEF T
  <2> QED BY <1>1, LeastOf
<1>3. PICK x \in S : Least(T) = gap(x)
  BY <1>2
<1>4. \A y \in S : gap(x) <= gap(y)
  BY <1>2, <1>3
<1>5. \A y \in S : y <= x
  BY <1>4, SMT
<1> QED BY <1>5 DEF Greatest

\* The lookup ends on a virtual node.
LEMMA OwnerPointIn ==
  ASSUME NEW sorted \in SUBSET Nat, sorted # {}, NEW k \in Nat
  PROVE  OwnerPoint(sorted, k) \in sorted
<1> DEFINE after == {h \in sorted : h >= k}
           pool == IF after # {} THEN after ELSE sorted
<1>1. pool \in SUBSET Nat /\ pool # {} /\ pool \subseteq sorted
  OBVIOUS
<1>2. Least(pool) \in pool
  BY <1>1, LeastOf
<1> QED BY <1>1, <1>2 DEF OwnerPoint

\* The virtual node a lookup ends on is the one it ends on among fewer.
LEMMA OwnerPointAmongFewer ==
  ASSUME NEW sorted \in SUBSET Nat, NEW fewer \in SUBSET sorted, NEW k \in Nat,
         OwnerPoint(sorted, k) \in fewer
  PROVE  OwnerPoint(fewer, k) = OwnerPoint(sorted, k)
<1> DEFINE h == OwnerPoint(sorted, k)
           after == {g \in sorted : g >= k}
           pool == IF after # {} THEN after ELSE sorted
           after2 == {g \in fewer : g >= k}
           pool2 == IF after2 # {} THEN after2 ELSE fewer
<1>1. sorted # {} /\ pool \in SUBSET Nat /\ pool # {}
  OBVIOUS
<1>2. h \in pool /\ \A y \in pool : h <= y
  BY <1>1, LeastOf DEF OwnerPoint
<1>3. h \in pool2 /\ pool2 \subseteq pool
  <2>1. CASE after # {}
    <3>1. h \in after2
      BY <2>1, <1>2
    <3> QED BY <2>1, <3>1
  <2>2. CASE after = {}
    <3>1. after2 = {}
      BY <2>2
    <3> QED BY <2>2, <3>1
  <2> QED BY <2>1, <2>2
<1>4. pool2 \in SUBSET Nat /\ pool2 # {}
  BY <1>3, <1>1
<1>5. Least(pool2) \in pool2 /\ \A y \in pool2 : Least(pool2) <= y
  BY <1>4, LeastOf
<1>6. h <= Least(pool2) /\ Least(pool2) <= h /\ h \in Nat /\ Least(pool2) \in Nat
  BY <1>1, <1>2, <1>3, <1>5
<1>7. h = Least(pool2)
  BY <1>6, SMT
<1> QED BY <1>7 DEF OwnerPoint

-----------------------------------------------------------------------------
\* The inductive invariant: the sorted hashes are those of the map, a position
\* is held by a member that hashes to it, and a member holds its own positions.
SortedAreHeld == \A a \in Agent : sortedHashes[a] = Rebuilt(hashToNode[a])

HeldByMembers ==
  \A a \in Agent, h \in Position :
    hashToNode[a][h] # NoPeer =>
      hashToNode[a][h] \in member[a] /\ h \in Points[hashToNode[a][h]]

MembersHoldOwnPoints ==
  \A a \in Agent, p \in Peer, h \in Position :
    p \in member[a] /\ h \in Points[p] /\ h \notin Collision => hashToNode[a][h] = p

RingInvariant ==
  RingTypeOK /\ SortedAreHeld /\ HeldByMembers /\ MembersHoldOwnPoints

\* The three parts for one agent's ring: what New, AddPeer and RemovePeer make.
WellMade(nodes, peers) ==
  /\ nodes \in [Position -> Peer \cup {NoPeer}]
  /\ peers \in SUBSET Peer
  /\ \A h \in Position :
       nodes[h] # NoPeer => nodes[h] \in peers /\ h \in Points[nodes[h]]
  /\ \A p \in Peer, h \in Position :
       p \in peers /\ h \in Points[p] /\ h \notin Collision => nodes[h] = p

\* The ring built from a peer list.
LEMMA InstalledWellMade ==
  ASSUME NEW order \in Order
  PROVE  WellMade(Installed(order), Listed(order))
<1> DEFINE at(h) == {i \in DOMAIN order : h \in Points[order[i]]}
<1>1. /\ Len(order) \in Nat
      /\ DOMAIN order = 1 .. Len(order)
      /\ \A i \in DOMAIN order : order[i] \in Peer
  BY RingAssumption
<1>2. \A h \in Position : at(h) # {} =>
        /\ Greatest(at(h)) \in at(h)
        /\ Installed(order)[h] = order[Greatest(at(h))]
  <2> SUFFICES ASSUME NEW h \in Position, at(h) # {}
               PROVE  Greatest(at(h)) \in at(h) /\ Installed(order)[h] = order[Greatest(at(h))]
    OBVIOUS
  <2>1. at(h) \in SUBSET (1 .. Len(order))
    BY <1>1
  <2>2. Greatest(at(h)) \in at(h)
    <3> HIDE DEF at
    <3> QED BY <1>1, <2>1, GreatestOf
  <2> QED BY <2>2 DEF Installed
<1>3. \A h \in Position : at(h) = {} => Installed(order)[h] = NoPeer
  BY DEF Installed
<1>4. Installed(order) \in [Position -> Peer \cup {NoPeer}]
  <2>1. Installed(order) = [h \in Position |-> Installed(order)[h]]
    BY DEF Installed
  <2>2. \A h \in Position : Installed(order)[h] \in Peer \cup {NoPeer}
    BY <1>1, <1>2, <1>3
  <2> QED BY <2>1, <2>2
<1>5. Listed(order) \in SUBSET Peer
  BY <1>1 DEF Listed
<1>6. \A h \in Position :
        Installed(order)[h] # NoPeer =>
          /\ Installed(order)[h] \in Listed(order)
          /\ h \in Points[Installed(order)[h]]
  BY <1>2, <1>3 DEF Listed
<1>7. \A p \in Peer, h \in Position :
        p \in Listed(order) /\ h \in Points[p] /\ h \notin Collision
        => Installed(order)[h] = p
  <2> SUFFICES ASSUME NEW p \in Peer, NEW h \in Position,
                      p \in Listed(order), h \in Points[p], h \notin Collision
               PROVE  Installed(order)[h] = p
    OBVIOUS
  <2>1. at(h) # {}
    BY DEF Listed
  <2>2. Installed(order)[h] \in Peer /\ h \in Points[Installed(order)[h]]
    BY <1>1, <1>2, <2>1
  <2> QED BY <2>2 DEF Collision
<1> QED BY <1>4, <1>5, <1>6, <1>7 DEF WellMade

\* The ring after a join.
LEMMA WithPeerWellMade ==
  ASSUME NEW nodes, NEW peers, WellMade(nodes, peers), NEW q \in Peer
  PROVE  WellMade(WithPeer(nodes, q), peers \cup {q})
<1> DEFINE new == WithPeer(nodes, q)
<1>1. \A h \in Position : new[h] = IF h \in Points[q] THEN q ELSE nodes[h]
  BY DEF WithPeer
<1>2. new \in [Position -> Peer \cup {NoPeer}] /\ peers \cup {q} \in SUBSET Peer
  BY DEF WithPeer, WellMade
<1>3. \A h \in Position :
        new[h] # NoPeer => new[h] \in peers \cup {q} /\ h \in Points[new[h]]
  BY <1>1 DEF WellMade
<1>4. \A p \in Peer, h \in Position :
        p \in peers \cup {q} /\ h \in Points[p] /\ h \notin Collision => new[h] = p
  BY <1>1 DEF WellMade, Collision
<1> HIDE DEF new
<1> QED BY <1>2, <1>3, <1>4 DEF WellMade, new

\* The ring after a removal.
LEMMA WithoutPeerWellMade ==
  ASSUME NEW nodes, NEW peers, WellMade(nodes, peers), NEW q \in Peer
  PROVE  WellMade(WithoutPeer(nodes, q), peers \ {q})
<1> DEFINE new == WithoutPeer(nodes, q)
<1>1. \A h \in Position : new[h] = IF nodes[h] = q THEN NoPeer ELSE nodes[h]
  BY DEF WithoutPeer
<1>2. new \in [Position -> Peer \cup {NoPeer}] /\ peers \ {q} \in SUBSET Peer
  BY DEF WithoutPeer, WellMade
<1>3. \A h \in Position :
        new[h] # NoPeer => new[h] \in peers \ {q} /\ h \in Points[new[h]]
  BY <1>1 DEF WellMade
<1>4. \A p \in Peer, h \in Position :
        p \in peers \ {q} /\ h \in Points[p] /\ h \notin Collision => new[h] = p
  BY <1>1 DEF WellMade
<1> HIDE DEF new
<1> QED BY <1>2, <1>3, <1>4 DEF WellMade, new

-----------------------------------------------------------------------------
\* The inductive invariant, read agent by agent.
LEMMA InvariantByAgent ==
  /\ RingInvariant =>
       \A a \in Agent :
         /\ WellMade(hashToNode[a], member[a])
         /\ sortedHashes[a] = Rebuilt(hashToNode[a])
  /\ /\ RingTypeOK
     /\ \A a \in Agent :
          /\ WellMade(hashToNode[a], member[a])
          /\ sortedHashes[a] = Rebuilt(hashToNode[a])
     => RingInvariant
BY DEF RingInvariant, RingTypeOK, SortedAreHeld, HeldByMembers, MembersHoldOwnPoints, WellMade

\* The first rings are well made.
LEMMA InitInvariant == Init => RingInvariant
<1> SUFFICES ASSUME Init PROVE RingInvariant
  OBVIOUS
<1>1. PICK order \in [Agent -> Order] :
        /\ hashToNode = [a \in Agent |-> Installed(order[a])]
        /\ sortedHashes = [a \in Agent |-> Rebuilt(Installed(order[a]))]
        /\ member = [a \in Agent |-> Listed(order[a])]
  BY DEF Init
<1>2. \A a \in Agent : WellMade(Installed(order[a]), Listed(order[a]))
  BY InstalledWellMade
<1>3. \A a \in Agent :
        /\ WellMade(hashToNode[a], member[a])
        /\ sortedHashes[a] = Rebuilt(hashToNode[a])
  BY <1>1, <1>2
<1>4. RingTypeOK
  BY <1>1, <1>2 DEF RingTypeOK, WellMade, Rebuilt
<1> QED BY <1>3, <1>4, InvariantByAgent

\* A method that leaves its agent's ring well made keeps the invariant.
LEMMA BecomesInvariant ==
  ASSUME RingInvariant, NEW a \in Agent, NEW nodes, NEW peers,
         WellMade(nodes, peers), Becomes(a, nodes, peers)
  PROVE  RingInvariant'
<1>1. /\ hashToNode' = [hashToNode EXCEPT ![a] = nodes]
      /\ sortedHashes' = [sortedHashes EXCEPT ![a] = Rebuilt(nodes)]
      /\ member' = [member EXCEPT ![a] = peers]
      /\ RingTypeOK
  BY DEF Becomes, RingInvariant
<1>2. /\ nodes \in [Position -> Peer \cup {NoPeer}]
      /\ Rebuilt(nodes) \in SUBSET Position
      /\ peers \in SUBSET Peer
  BY DEF WellMade, Rebuilt
<1>3. RingTypeOK'
  BY <1>1, <1>2 DEF RingTypeOK
<1>4. \A b \in Agent :
        /\ hashToNode'[b] = IF b = a THEN nodes ELSE hashToNode[b]
        /\ sortedHashes'[b] = IF b = a THEN Rebuilt(nodes) ELSE sortedHashes[b]
        /\ member'[b] = IF b = a THEN peers ELSE member[b]
  BY <1>1 DEF RingTypeOK
<1>5. \A b \in Agent :
        /\ WellMade(hashToNode'[b], member'[b])
        /\ sortedHashes'[b] = Rebuilt(hashToNode'[b])
  BY <1>4, InvariantByAgent
<1>6. SortedAreHeld' /\ HeldByMembers' /\ MembersHoldOwnPoints'
  BY <1>5 DEF SortedAreHeld, HeldByMembers, MembersHoldOwnPoints, WellMade
<1> QED BY <1>3, <1>6 DEF RingInvariant

\* Every step keeps the invariant.
LEMMA NextInvariant == RingInvariant /\ [Next]_vars => RingInvariant'
<1> SUFFICES ASSUME RingInvariant, [Next]_vars PROVE RingInvariant'
  OBVIOUS
<1>1. ASSUME NEW a \in Agent, NEW q \in Peer, AddPeer(a, q) PROVE RingInvariant'
  <2>1. WellMade(hashToNode[a], member[a])
    BY InvariantByAgent
  <2> QED BY <1>1, <2>1, WithPeerWellMade, BecomesInvariant DEF AddPeer
<1>2. ASSUME NEW a \in Agent, NEW q \in Peer, RemovePeer(a, q) PROVE RingInvariant'
  <2>1. WellMade(hashToNode[a], member[a])
    BY InvariantByAgent
  <2> QED BY <1>2, <2>1, WithoutPeerWellMade, BecomesInvariant DEF RemovePeer
<1>3. ASSUME NEW a \in Agent, NEW order \in Order, Restart(a, order) PROVE RingInvariant'
  BY <1>3, InstalledWellMade, BecomesInvariant DEF Restart
<1>4. CASE UNCHANGED vars
  BY <1>4 DEF vars, RingInvariant, RingTypeOK, SortedAreHeld, HeldByMembers,
              MembersHoldOwnPoints
<1> QED BY <1>1, <1>2, <1>3, <1>4 DEF Next

\* The inductive invariant holds in every reachable state.
THEOREM RingsWellMade == Spec => []RingInvariant
BY InitInvariant, NextInvariant, PTL DEF Spec

-----------------------------------------------------------------------------
\* In a well-made ring with a member, a lookup ends on a held position.
LEMMA LookupEndsOnMember ==
  ASSUME RingInvariant, OwnPointAssumption, NEW a \in Agent, NEW k \in Position
  PROVE  /\ member[a] # {} =>
              /\ sortedHashes[a] # {}
              /\ OwnerPoint(sortedHashes[a], k) \in sortedHashes[a]
              /\ OwnerOf(a, k) = hashToNode[a][OwnerPoint(sortedHashes[a], k)]
              /\ OwnerOf(a, k) \in member[a]
         /\ member[a] = {} => sortedHashes[a] = {} /\ OwnerOf(a, k) = NoPeer
<1>1. /\ WellMade(hashToNode[a], member[a])
      /\ sortedHashes[a] = Rebuilt(hashToNode[a])
  BY InvariantByAgent
<1>2. /\ sortedHashes[a] \in SUBSET Position
      /\ \A h \in sortedHashes[a] : hashToNode[a][h] \in member[a]
  BY <1>1 DEF WellMade, Rebuilt
<1>3. k \in Nat /\ sortedHashes[a] \in SUBSET Nat
  BY <1>2, RingAssumption
<1>4. CASE member[a] # {}
  <2>1. PICK p \in Peer : p \in member[a]
    BY <1>1, <1>4 DEF WellMade
  <2>2. PICK h \in Position : h \in Points[p] /\ h \notin Collision
    BY RingAssumption DEF OwnPointAssumption
  <2>3. hashToNode[a][h] = p /\ p # NoPeer
    BY <1>1, <2>1, <2>2, RingAssumption DEF WellMade
  <2>4. sortedHashes[a] # {}
    BY <1>1, <2>3 DEF Rebuilt
  <2>5. OwnerPoint(sortedHashes[a], k) \in sortedHashes[a]
    BY <1>3, <2>4, OwnerPointIn
  <2>6. OwnerOf(a, k) = hashToNode[a][OwnerPoint(sortedHashes[a], k)]
    BY <2>4 DEF OwnerOf, Owner
  <2> QED BY <1>2, <1>4, <2>4, <2>5, <2>6
<1>5. CASE member[a] = {}
  <2>1. sortedHashes[a] = {}
    BY <1>2, <1>5
  <2> QED BY <1>5, <2>1 DEF OwnerOf, Owner
<1> QED BY <1>4, <1>5

\* A ring with members gives every key to one of them.
THEOREM KeysOwnedByMembers == Spec => []OwnersAreMembers
<1>1. RingInvariant => OwnersAreMembers
  BY LookupEndsOnMember DEF OwnersAreMembers
<1> QED BY <1>1, RingsWellMade, PTL

\* A position that is not shared and held in one ring is held, by the same
\* peer, in every ring with the same members.
LEMMA OwnPositionsAgree ==
  ASSUME RingInvariant, NEW a \in Agent, NEW b \in Agent, member[a] = member[b],
         NEW h \in sortedHashes[a], h \notin Collision
  PROVE  h \in sortedHashes[b] /\ hashToNode[b][h] = hashToNode[a][h]
<1>1. /\ WellMade(hashToNode[a], member[a]) /\ sortedHashes[a] = Rebuilt(hashToNode[a])
      /\ WellMade(hashToNode[b], member[b]) /\ sortedHashes[b] = Rebuilt(hashToNode[b])
  BY InvariantByAgent
<1>2. h \in Position /\ hashToNode[a][h] # NoPeer
  BY <1>1 DEF Rebuilt
<1>3. /\ hashToNode[a][h] \in Peer
      /\ hashToNode[a][h] \in member[b]
      /\ h \in Points[hashToNode[a][h]]
  BY <1>1, <1>2 DEF WellMade
<1>4. hashToNode[b][h] = hashToNode[a][h]
  BY <1>1, <1>2, <1>3 DEF WellMade
<1> QED BY <1>1, <1>2, <1>4 DEF Rebuilt

\* Agents with the same members disagree at collisions only.
THEOREM AgreementButAtCollisions == Spec => []DisagreeOnlyAtCollisions
<1>1. ASSUME RingInvariant, OwnPointAssumption,
             NEW a \in Agent, NEW b \in Agent, NEW k \in Position,
             member[a] = member[b], ~ EndsOnCollision(a, k), ~ EndsOnCollision(b, k)
      PROVE  OwnerOf(a, k) = OwnerOf(b, k)
  <2>1. CASE member[a] = {}
    BY <1>1, <2>1, LookupEndsOnMember
  <2>2. CASE member[a] # {}
    <3> DEFINE ha == OwnerPoint(sortedHashes[a], k)
               hb == OwnerPoint(sortedHashes[b], k)
               common == sortedHashes[a] \cap sortedHashes[b]
    <3>1. /\ sortedHashes[a] # {} /\ ha \in sortedHashes[a]
          /\ OwnerOf(a, k) = hashToNode[a][ha]
          /\ sortedHashes[b] # {} /\ hb \in sortedHashes[b]
          /\ OwnerOf(b, k) = hashToNode[b][hb]
      BY <1>1, <2>2, LookupEndsOnMember
    <3>2. ha \notin Collision /\ hb \notin Collision
      BY <1>1, <3>1 DEF EndsOnCollision
    <3>3. ha \in common /\ hashToNode[b][ha] = hashToNode[a][ha]
      BY <1>1, <3>1, <3>2, OwnPositionsAgree
    <3>4. hb \in common
      BY <1>1, <3>1, <3>2, OwnPositionsAgree
    <3>5. k \in Nat /\ sortedHashes[a] \in SUBSET Nat /\ sortedHashes[b] \in SUBSET Nat
      BY <1>1, RingAssumption DEF RingInvariant, RingTypeOK
    <3>6. OwnerPoint(common, k) = ha
      BY <3>3, <3>5, OwnerPointAmongFewer
    <3>7. OwnerPoint(common, k) = hb
      BY <3>4, <3>5, OwnerPointAmongFewer
    <3> QED BY <3>1, <3>3, <3>6, <3>7
  <2> QED BY <2>1, <2>2
<1>2. RingInvariant => DisagreeOnlyAtCollisions
  BY <1>1 DEF DisagreeOnlyAtCollisions
<1> QED BY <1>2, RingsWellMade, PTL

-----------------------------------------------------------------------------
\* What a lookup returns after a method of a's ring.
LEMMA OwnerAfter ==
  ASSUME RingInvariant, NEW a \in Agent, NEW nodes, NEW peers,
         Becomes(a, nodes, peers), NEW k \in Position
  PROVE  OwnerOf(a, k)' = Owner(nodes, Rebuilt(nodes), k)
BY DEF Becomes, RingInvariant, RingTypeOK, OwnerOf

\* A removal leaves the lookups that ended elsewhere where they were.
THEOREM RemovalsAreLocal == Spec => RemovalIsLocal
<1>1. ASSUME RingInvariant, NEW a \in Agent, NEW p \in Peer, RemovePeer(a, p),
             NEW k \in Position, OwnerOf(a, k) # p
      PROVE  OwnerOf(a, k)' = OwnerOf(a, k)
  <2> DEFINE nodes == hashToNode[a]
             sorted == sortedHashes[a]
             new == WithoutPeer(nodes, p)
             h == OwnerPoint(sorted, k)
  <2>1. OwnerOf(a, k)' = Owner(new, Rebuilt(new), k)
    BY <1>1, OwnerAfter DEF RemovePeer
  <2>2. WellMade(nodes, member[a]) /\ sorted = Rebuilt(nodes)
    BY <1>1, InvariantByAgent
  <2>3. \A g \in Position : new[g] = IF nodes[g] = p THEN NoPeer ELSE nodes[g]
    BY DEF WithoutPeer
  <2>4. Rebuilt(new) = {g \in sorted : nodes[g] # p}
    <3> HIDE DEF new
    <3> QED BY <2>2, <2>3, RingAssumption DEF Rebuilt
  <2>5. sorted \in SUBSET Nat /\ sorted \in SUBSET Position /\ k \in Nat
    BY <2>2, RingAssumption DEF Rebuilt
  <2>6. CASE sorted = {}
    BY <2>1, <2>4, <2>6 DEF OwnerOf, Owner
  <2>7. CASE sorted # {}
    <3>1. h \in sorted /\ OwnerOf(a, k) = nodes[h]
      BY <2>5, <2>7, OwnerPointIn DEF OwnerOf, Owner
    <3>2. h \in Rebuilt(new)
      BY <1>1, <2>4, <3>1
    <3>3. OwnerPoint(Rebuilt(new), k) = h
      BY <2>4, <2>5, <3>2, OwnerPointAmongFewer
    <3>4. new[h] = nodes[h]
      BY <1>1, <2>3, <2>5, <3>1
    <3> QED BY <2>1, <3>1, <3>2, <3>3, <3>4 DEF Owner
  <2> QED BY <2>6, <2>7
<1>2. RingInvariant => [RemovalMoves]_vars
  BY <1>1 DEF RemovalMoves
<1> QED BY <1>2, RingsWellMade, PTL DEF RemovalIsLocal

\* A join takes keys to the peer that joins and nowhere else.
THEOREM AdditionsAreLocal == Spec => AdditionIsLocal
<1>1. ASSUME RingInvariant, NEW a \in Agent, NEW p \in Peer, AddPeer(a, p),
             NEW k \in Position, OwnerOf(a, k)' # p
      PROVE  OwnerOf(a, k)' = OwnerOf(a, k)
  <2> DEFINE nodes == hashToNode[a]
             sorted == sortedHashes[a]
             new == WithPeer(nodes, p)
             h == OwnerPoint(Rebuilt(new), k)
  <2>1. OwnerOf(a, k)' = Owner(new, Rebuilt(new), k)
    BY <1>1, OwnerAfter DEF AddPeer
  <2>2. WellMade(nodes, member[a]) /\ sorted = Rebuilt(nodes)
    BY <1>1, InvariantByAgent
  <2>3. \A g \in Position : new[g] = IF g \in Points[p] THEN p ELSE nodes[g]
    BY DEF WithPeer
  <2>4. /\ Rebuilt(new) \in SUBSET Position /\ sorted \subseteq Rebuilt(new)
        /\ \A g \in Rebuilt(new) : g \notin Points[p] => g \in sorted
    <3> HIDE DEF new
    <3> QED BY <2>2, <2>3, RingAssumption DEF Rebuilt
  <2>5. Rebuilt(new) \in SUBSET Nat /\ k \in Nat
    BY <2>4, RingAssumption
  <2>6. CASE Rebuilt(new) = {}
    BY <2>1, <2>4, <2>6 DEF OwnerOf, Owner
  <2>7. CASE Rebuilt(new) # {}
    <3>1. h \in Rebuilt(new) /\ OwnerOf(a, k)' = new[h]
      BY <2>1, <2>5, <2>7, OwnerPointIn DEF Owner
    <3>2. h \notin Points[p] /\ new[h] = nodes[h]
      BY <1>1, <2>3, <2>4, <3>1
    <3>3. h \in sorted
      BY <2>4, <3>1, <3>2
    <3>4. OwnerPoint(sorted, k) = h
      BY <2>4, <2>5, <3>3, OwnerPointAmongFewer
    <3> QED BY <3>1, <3>2, <3>3, <3>4 DEF OwnerOf, Owner
  <2> QED BY <2>6, <2>7
<1>2. RingInvariant => [AdditionMoves]_vars
  BY <1>1 DEF AdditionMoves
<1> QED BY <1>2, RingsWellMade, PTL DEF AdditionIsLocal

=============================================================================
