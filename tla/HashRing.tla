------------------------------ MODULE HashRing ------------------------------
(***************************************************************************)
(* The consistent hash ring by which every agent decides, on its own, who  *)
(* owns a flow (ebpf-detection-02/agent/internal/ring/ring.go).            *)
(*                                                                         *)
(* Each agent has a ring of its own, built from its configured peers and   *)
(* changed by AddPeer and RemovePeer as it learns of joins and failures,   *)
(* in whatever order. The 32-bit hash is abstracted to the positions it    *)
(* gives the virtual nodes: two peers may share one, and then the map      *)
(* holds the peer that came last.                                          *)
(***************************************************************************)
EXTENDS Integers, Sequences, FiniteSets

CONSTANTS Agent,      \* the nodes that run an agent
          Peer,       \* the node IDs a ring may hold
          NoPeer,     \* the empty string, the owner in an empty ring
          Position,   \* the hash values
          Points,     \* the positions of every peer's virtual nodes
          Order       \* the peer lists an agent may be configured with

ASSUME RingAssumption ==
  /\ NoPeer \notin Peer
  /\ Position \subseteq Nat
  /\ Points \in [Peer -> SUBSET Position]
  /\ Order \subseteq Seq(Peer)

VARIABLES
  hashToNode,     \* Ring.hashToNode of every agent, NoPeer where it has no entry
  sortedHashes,   \* Ring.sortedHashes of every agent, as a set
  member          \* (history) the peers every agent was told of

vars == <<hashToNode, sortedHashes, member>>

RingTypeOK ==
  /\ hashToNode \in [Agent -> [Position -> Peer \cup {NoPeer}]]
  /\ sortedHashes \in [Agent -> SUBSET Position]
  /\ member \in [Agent -> SUBSET Peer]

Least(S) == CHOOSE x \in S : \A y \in S : x <= y
Greatest(S) == CHOOSE x \in S : \A y \in S : y <= x

\* addPeer: the peer takes its positions, whoever had them.
WithPeer(nodes, p) == [h \in Position |-> IF h \in Points[p] THEN p ELSE nodes[h]]

\* Mutant of WithoutPeer: the peer's positions are hashed anew and deleted.
WithoutPointsOf(nodes, p) ==
  [h \in Position |-> IF h \in Points[p] THEN NoPeer ELSE nodes[h]]

\* RemovePeer's loop: the entries that name the peer go.
WithoutPeer(nodes, p) ==
  [h \in Position |-> IF nodes[h] = p THEN NoPeer ELSE nodes[h]]

\* New's loop over the peer list: a position belongs to the last of its peers.
Installed(order) ==
  [h \in Position |->
     LET at == {i \in DOMAIN order : h \in Points[order[i]]}
     IN  IF at = {} THEN NoPeer ELSE order[Greatest(at)]]

\* rebuild
Rebuilt(nodes) == {h \in Position : nodes[h] # NoPeer}

Listed(order) == {order[i] : i \in DOMAIN order}

\* sort.Search with the wrap-around: the first virtual node at or after k.
OwnerPoint(sorted, k) ==
  LET after == {h \in sorted : h >= k}
  IN  Least(IF after # {} THEN after ELSE sorted)

\* Mutant of Owner: the virtual node is picked by the hash modulo their number.
OwnerModulo(nodes, sorted, k) ==
  IF sorted = {} THEN NoPeer
  ELSE nodes[CHOOSE h \in sorted :
               Cardinality({g \in sorted : g < h}) = k % Cardinality(sorted)]

\* Owner of a key whose hash is k.
Owner(nodes, sorted, k) ==
  IF sorted = {} THEN NoPeer ELSE nodes[OwnerPoint(sorted, k)]

OwnerOf(a, k) == Owner(hashToNode[a], sortedHashes[a], k)

-----------------------------------------------------------------------------

Init ==
  \E order \in [Agent -> Order] :
    /\ hashToNode = [a \in Agent |-> Installed(order[a])]
    /\ sortedHashes = [a \in Agent |-> Rebuilt(Installed(order[a]))]
    /\ member = [a \in Agent |-> Listed(order[a])]

\* What the methods that change a ring have in common.
Becomes(a, nodes, peers) ==
  /\ hashToNode' = [hashToNode EXCEPT ![a] = nodes]
  /\ sortedHashes' = [sortedHashes EXCEPT ![a] = Rebuilt(nodes)]
  /\ member' = [member EXCEPT ![a] = peers]

\* Mutant of AddPeer: no rebuild.
AddPeerWithoutRebuild(a, p) ==
  /\ hashToNode' = [hashToNode EXCEPT ![a] = WithPeer(@, p)]
  /\ member' = [member EXCEPT ![a] = @ \cup {p}]
  /\ UNCHANGED sortedHashes

AddPeer(a, p) == Becomes(a, WithPeer(hashToNode[a], p), member[a] \cup {p})

\* Mutant of RemovePeer: no rebuild.
RemovePeerWithoutRebuild(a, p) ==
  /\ hashToNode' = [hashToNode EXCEPT ![a] = WithoutPeer(@, p)]
  /\ member' = [member EXCEPT ![a] = @ \ {p}]
  /\ UNCHANGED sortedHashes

RemovePeer(a, p) == Becomes(a, WithoutPeer(hashToNode[a], p), member[a] \ {p})

\* The agent starts again with the peers its configuration names by then.
Restart(a, order) == Becomes(a, Installed(order), Listed(order))

Next ==
  \E a \in Agent :
    \/ \E p \in Peer : AddPeer(a, p) \/ RemovePeer(a, p)
    \/ \E order \in Order : Restart(a, order)

Spec == Init /\ [][Next]_vars

-----------------------------------------------------------------------------
\* A position that virtual nodes of two peers hash to.
Collision == {h \in Position : \E p, q \in Peer : p # q /\ h \in Points[p] \cap Points[q]}

\* Every peer keeps a virtual node of its own (150 of them on 2^32 positions).
OwnPointAssumption == \A p \in Peer : Points[p] \ Collision # {}

\* The lookup of k in a's ring ends on a position that two peers share.
EndsOnCollision(a, k) ==
  sortedHashes[a] # {} /\ OwnerPoint(sortedHashes[a], k) \in Collision

\* No join, failure or restart, in whatever order, leaves a key without an
\* owner or with one the agent was told is gone, although a removal does not
\* give back the positions a removed peer had taken from others.
OwnersAreMembers ==
  OwnPointAssumption =>
    \A a \in Agent, k \in Position :
      IF member[a] = {} THEN OwnerOf(a, k) = NoPeer ELSE OwnerOf(a, k) \in member[a]

\* Two agents that know the same peers agree on the owner of a key, whatever
\* the order they learnt of them in, unless the lookup of one of them ends on
\* a position that two peers share: the agents need not talk to agree.
DisagreeOnlyAtCollisions ==
  OwnPointAssumption =>
    \A a, b \in Agent, k \in Position :
      member[a] = member[b] /\ OwnerOf(a, k) # OwnerOf(b, k) =>
        EndsOnCollision(a, k) \/ EndsOnCollision(b, k)

\* "Only the virtual nodes belonging to this peer rehash - everything else is
\* stable" (RemovePeer): a key changes its owner only if the peer owned it.
RemovalMoves ==
  \A a \in Agent, p \in Peer :
    RemovePeer(a, p) =>
      \A k \in Position : OwnerOf(a, k)' # OwnerOf(a, k) => OwnerOf(a, k) = p

RemovalIsLocal == [][RemovalMoves]_vars

\* The same of a join: a key changes its owner only to the peer that joined.
AdditionMoves ==
  \A a \in Agent, p \in Peer :
    AddPeer(a, p) =>
      \A k \in Position : OwnerOf(a, k)' # OwnerOf(a, k) => OwnerOf(a, k)' = p

AdditionIsLocal == [][AdditionMoves]_vars

=============================================================================
