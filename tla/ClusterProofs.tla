---------------------------- MODULE ClusterProofs ----------------------------
(***************************************************************************)
(* The cluster of the Go daemon (cluster_raft.go), for any number of nodes,*)
(* keys, replicas and commands and any scores: a change of the healthy     *)
(* nodes moves no more replicas than it must, the replicas of the cluster  *)
(* map agree, the epoch identifies the map, and the map keeps its types.   *)
(***************************************************************************)
EXTENDS ClusterMap, ClusterReplicas, FiniteSetTheorems, TLAPS

-----------------------------------------------------------------------------
\* Placement.

\* Of the highest scores of a set, those that remain in a subset are among the
\* highest of the subset: fewer nodes rank above each of them.
LEMMA TopOfSubset ==
    ASSUME NEW k \in Keys, NEW S \in SUBSET Nodes, NEW T \in SUBSET S
    PROVE  Top(k, S) \cap T \subseteq Top(k, T)
<1> SUFFICES ASSUME NEW n \in Top(k, S) \cap T
             PROVE  n \in Top(k, T)
    BY Zenon
<1>1. Above(k, n, T) \subseteq Above(k, n, S)
    BY Zenon DEF Above
<1>2. IsFiniteSet(Above(k, n, S))
  <2>1. Above(k, n, S) \subseteq Nodes
      BY Zenon DEF Above
  <2> QED BY Zenon, <2>1, MapAssumption, FS_Subset
<1>3. /\ IsFiniteSet(Above(k, n, T))
      /\ Cardinality(Above(k, n, T)) <= Cardinality(Above(k, n, S))
    BY Zenon, <1>1, <1>2, FS_Subset
<1>4. Cardinality(Above(k, n, T)) \in Nat /\ Cardinality(Above(k, n, S)) \in Nat
    BY Zenon, <1>2, <1>3, FS_CardinalityType
<1>5. n \in T /\ Cardinality(Above(k, n, S)) < Replication
    BY Zenon DEF Top
<1>6. Cardinality(Above(k, n, T)) < Replication
    BY <1>3, <1>4, <1>5, MapAssumption
<1> QED BY Zenon, <1>5, <1>6 DEF Top

\* Between any two states with enough healthy nodes the placement of a key
\* changes only by the nodes lost and the nodes gained.
LEMMA PlacementStep ==
    ASSUME NEW k \in Keys, Enough, Enough'
    PROVE  /\ Healthy' \subseteq Healthy => Placement(k) \cap Healthy' \subseteq Placement(k)'
           /\ Healthy \subseteq Healthy' => Placement(k)' \cap Healthy \subseteq Placement(k)
<1>1. Placement(k) = Top(k, Healthy)
    BY Zenon DEF Placement
<1>2. Placement(k)' = Top(k, Healthy')
    BY Zenon DEF Placement, Top, Above
<1>3. Healthy \in SUBSET Nodes /\ Healthy' \in SUBSET Nodes
    BY Zenon DEF Healthy
<1>4. ASSUME Healthy' \subseteq Healthy
      PROVE  Placement(k) \cap Healthy' \subseteq Placement(k)'
  <2>1. Healthy' \in SUBSET Healthy
      BY Zenon, <1>4
  <2>2. Top(k, Healthy) \cap Healthy' \subseteq Top(k, Healthy')
      BY Zenon, <1>3, <2>1, TopOfSubset
  <2> QED BY Zenon, <1>1, <1>2, <2>2
<1>5. ASSUME Healthy \subseteq Healthy'
      PROVE  Placement(k)' \cap Healthy \subseteq Placement(k)
  <2>1. Healthy \in SUBSET Healthy'
      BY Zenon, <1>5
  <2>2. Top(k, Healthy') \cap Healthy \subseteq Top(k, Healthy)
      BY Zenon, <1>3, <2>1, TopOfSubset
  <2> QED BY Zenon, <1>1, <1>2, <2>2
<1> QED BY Zenon, <1>4, <1>5

\* In every behaviour of the membership operations, Placement moves a replica
\* only off a node that was lost or onto a node that was gained.
THEOREM PlacementIsStable == Spec => PlacementStable
<1>1. [Next]_vars =>
        [\A k \in Keys : Enough /\ Enough' =>
           /\ Healthy' \subseteq Healthy => Placement(k) \cap Healthy' \subseteq Placement(k)'
           /\ Healthy \subseteq Healthy' => Placement(k)' \cap Healthy \subseteq Placement(k)]_vars
    BY Zenon, PlacementStep
<1> QED BY <1>1, PTL DEF Spec, PlacementStable

-----------------------------------------------------------------------------
\* The replicated map.

\* A replica's state and its snapshots are taken from the history.
Copies(s) ==
    /\ s \in [index : Nat, state : State]
    /\ s.index <= Len(log)
    /\ s.state = history[s.index + 1]

\* Along the history the epoch never falls, and as long as it stays the map stays.
Ordered ==
    \A i, j \in 1..Len(history) :
        i <= j => /\ history[i].epoch <= history[j].epoch
                  /\ history[i].epoch = history[j].epoch => history[i].nodes = history[j].nodes

\* history is what applying the log command by command gives.
HistoryOK ==
    /\ log \in Seq(Command)
    /\ history \in Seq(State)
    /\ Len(history) = Len(log) + 1
    /\ history[1] = newClusterFSM
    /\ \A i \in 1..Len(log) : history[i + 1] = Apply(history[i], log[i])
    /\ Ordered

\* A replica, and a snapshot of it, is some state of the history.
ReplicasOK ==
    /\ fsm \in [Replicas -> State] /\ applied \in [Replicas -> Nat]
    /\ taking \in [Replicas -> [index : Nat, state : State]]
    /\ snapshot \in [Replicas -> [index : Nat, state : State]]
    /\ \A r \in Replicas :
          /\ applied[r] <= Len(log)
          /\ fsm[r] = history[applied[r] + 1]
          /\ Copies(taking[r])
          /\ Copies(snapshot[r])

\* The inductive invariant.
ReplicaInvariant == HistoryOK /\ ReplicasOK

\* Applying a command gives a state whose epoch is higher, or the same state.
LEMMA ApplyState ==
    ASSUME NEW s \in State, NEW cmd \in Command
    PROVE  /\ Apply(s, cmd) \in State
           /\ Apply(s, cmd).epoch > s.epoch \/ Apply(s, cmd) = s
BY DEF Apply, Put, Dropped, State, Command

\* A new replica has the first state of the history ...
LEMMA EmptyState == newClusterFSM \in State
BY Zenon DEF newClusterFSM, State

\* ... so the invariant holds at the start.
LEMMA LogInitOK == LogInit => ReplicaInvariant
<1> SUFFICES ASSUME LogInit PROVE ReplicaInvariant
    BY Zenon
<1>1. HistoryOK
  <2>1. /\ log = <<>> /\ log \in Seq(Command) /\ Len(log) = 0
        /\ history \in Seq(State) /\ Len(history) = 1 /\ history[1] = newClusterFSM
      BY EmptyState DEF LogInit
  <2>2. history[1].epoch \in Nat
      BY Zenon, <2>1, EmptyState DEF State
  <2>3. Ordered
      BY <2>1, <2>2 DEF Ordered
  <2> QED BY <2>1, <2>3 DEF HistoryOK
<1>2. Empty \in [index : Nat, state : State] /\ Empty.index = 0 /\ Empty.state = newClusterFSM
    BY Zenon, EmptyState DEF Empty, Snap
<1>3. Copies(Empty)
    BY <1>2 DEF LogInit, Copies
<1>4. ReplicasOK
    BY <1>2, <1>3, EmptyState DEF LogInit, ReplicasOK
<1> QED BY Zenon, <1>1, <1>4 DEF ReplicaInvariant

\* A command extends the history at its end; what was there stays.
LEMMA CommitStep ==
    ASSUME ReplicaInvariant, NEW cmd \in Command, Commit(cmd)
    PROVE  ReplicaInvariant'
<1> USE DEF ReplicaInvariant
<1> DEFINE n == Len(history)
           new == Apply(history[n], cmd)
<1>1. /\ n \in Nat /\ n >= 1 /\ n = Len(log) + 1
      /\ \A i \in 1..n : history[i] \in State
    BY DEF HistoryOK
<1>2. new \in State /\ (new.epoch > history[n].epoch \/ new = history[n])
    BY <1>1, ApplyState
<1>3. /\ history' \in Seq(State) /\ Len(history') = n + 1
      /\ \A i \in 1..n : history'[i] = history[i]
      /\ history'[n + 1] = new
    BY <1>1, <1>2 DEF Commit, HistoryOK
<1>4. /\ log' \in Seq(Command) /\ Len(log') = n
      /\ \A i \in 1..n-1 : log'[i] = log[i]
      /\ log'[n] = cmd
    BY <1>1 DEF Commit, HistoryOK
<1> HIDE DEF new
<1>5. Ordered'
  <2> SUFFICES ASSUME NEW i \in 1..(n + 1), NEW j \in 1..(n + 1), i <= j
               PROVE  /\ history'[i].epoch <= history'[j].epoch
                      /\ history'[i].epoch = history'[j].epoch => history'[i].nodes = history'[j].nodes
      BY Zenon, <1>1, <1>3 DEF Ordered
  <2>1. CASE j <= n
      BY <1>1, <1>3, <2>1 DEF HistoryOK, Ordered
  <2>2. CASE i = n + 1
      BY <1>1, <1>2, <1>3, <2>2 DEF State
  <2>3. CASE j = n + 1 /\ i <= n
    <3>1. /\ history[i].epoch <= history[n].epoch
          /\ history[i].epoch = history[n].epoch => history[i].nodes = history[n].nodes
        BY <1>1, <2>3 DEF HistoryOK, Ordered
    <3>2. history[i].epoch \in Nat /\ history[n].epoch \in Nat /\ new.epoch \in Nat
        BY <1>1, <1>2, <2>3 DEF State
    <3>3. history'[i] = history[i] /\ history'[j] = new
        BY <1>1, <1>3, <2>3
    <3> QED BY <1>2, <3>1, <3>2, <3>3
  <2> QED BY <1>1, <2>1, <2>2, <2>3
<1>6. \A i \in 1..Len(log') : history'[i + 1] = Apply(history'[i], log'[i])
  <2> SUFFICES ASSUME NEW i \in 1..n PROVE history'[i + 1] = Apply(history'[i], log'[i])
      BY Zenon, <1>4
  <2>1. CASE i = n
      BY Zenon, <1>1, <1>3, <1>4, <2>1 DEF new
  <2>2. CASE i < n
    <3>1. i \in 1..Len(log) /\ i + 1 \in 1..n /\ i \in 1..n-1
        BY <1>1, <2>2
    <3>2. history[i + 1] = Apply(history[i], log[i])
        BY Zenon, <3>1 DEF HistoryOK
    <3> QED BY Zenon, <1>3, <1>4, <3>1, <3>2
  <2> QED BY <1>1, <2>1, <2>2
<1>7. HistoryOK'
    BY <1>1, <1>3, <1>4, <1>5, <1>6 DEF HistoryOK
<1>8. ASSUME NEW s, Copies(s)
      PROVE  s \in [index : Nat, state : State] /\ s.index <= n /\ s.state = history'[s.index + 1]
  <2>1. s \in [index : Nat, state : State] /\ s.index <= n - 1 /\ s.state = history[s.index + 1]
      BY <1>1, <1>8 DEF Copies, HistoryOK
  <2>2. s.index \in Nat /\ s.index + 1 \in 1..n
      BY <1>1, <2>1
  <2> QED BY <1>1, <1>3, <2>1, <2>2
<1>9. ReplicasOK'
  <2>1. fsm' = fsm /\ applied' = applied /\ taking' = taking /\ snapshot' = snapshot
      BY Zenon DEF Commit
  <2>2. ASSUME NEW r \in Replicas
        PROVE  /\ applied'[r] <= Len(log')
               /\ fsm'[r] = history'[applied'[r] + 1]
               /\ Copies(taking[r])'
               /\ Copies(snapshot[r])'
    <3>1. applied[r] \in Nat /\ applied[r] <= n - 1 /\ fsm[r] = history[applied[r] + 1]
        BY <1>1 DEF ReplicasOK
    <3>2. applied[r] + 1 \in 1..n
        BY <1>1, <3>1
    <3>3. Copies(taking[r]) /\ Copies(snapshot[r])
        BY Zenon DEF ReplicasOK
    <3>4. Copies(taking[r])' /\ Copies(snapshot[r])'
        BY Zenon, <1>4, <1>8, <2>1, <3>3 DEF Copies
    <3> QED BY <1>1, <1>3, <1>4, <2>1, <3>1, <3>2, <3>4
  <2> QED BY Zenon, <2>1, <2>2 DEF ReplicasOK
<1> QED BY Zenon, <1>7, <1>9

\* A replica that applies the next command arrives at the next state of the
\* history.
LEMMA ApplyStep ==
    ASSUME ReplicaInvariant, NEW r \in Replicas, ApplyNext(r)
    PROVE  ReplicaInvariant'
<1> USE DEF ReplicaInvariant
<1>1. log' = log /\ history' = history /\ taking' = taking /\ snapshot' = snapshot
    BY Zenon DEF ApplyNext
<1>2. HistoryOK'
    BY Zenon, <1>1 DEF HistoryOK, Ordered
<1>3. /\ applied[r] \in Nat /\ applied[r] + 1 \in 1..Len(log)
      /\ fsm[r] = history[applied[r] + 1]
    BY DEF ReplicasOK, HistoryOK, ApplyNext
<1>4. history[applied[r] + 2] = Apply(fsm[r], log[applied[r] + 1])
    BY <1>3 DEF HistoryOK
<1>5. history[applied[r] + 2] \in State
    BY <1>3 DEF HistoryOK
<1>6. /\ fsm' = [fsm EXCEPT ![r] = history[applied[r] + 2]]
      /\ applied' = [applied EXCEPT ![r] = applied[r] + 1]
    BY Zenon, <1>4 DEF ApplyNext
<1>7. \A q \in Replicas : Copies(taking[q])' /\ Copies(snapshot[q])'
    BY Zenon, <1>1 DEF ReplicasOK, Copies
<1>8. ReplicasOK'
    BY <1>1, <1>3, <1>5, <1>6, <1>7 DEF ReplicasOK
<1> QED BY Zenon, <1>2, <1>8

\* Snapshots copy a state with its index, and restoring puts both back.
LEMMA SnapshotStep ==
    ASSUME ReplicaInvariant, NEW r \in Replicas, NEW q \in Replicas,
           Snapshot(r) \/ Persist(r) \/ PersistFails(r) \/ Install(r, q) \/ Restart(r)
    PROVE  ReplicaInvariant'
<1> USE DEF ReplicaInvariant
<1>1. log' = log /\ history' = history
    BY Zenon DEF Snapshot, Persist, PersistFails, Install, Restart
<1>2. HistoryOK'
    BY Zenon, <1>1 DEF HistoryOK, Ordered
<1>3. Copies(Empty)
    BY EmptyState DEF Copies, Empty, Snap, HistoryOK
<1>4. Copies(Snap(applied[r], fsm[r]))
    BY Zenon DEF Copies, Snap, ReplicasOK
<1>5. \A s : Copies(s) => s \in [index : Nat, state : State]
    BY Zenon DEF Copies
<1>6. \A s : Copies(s) => Copies(s)'
    BY Zenon, <1>1 DEF Copies
<1>7. \A p \in Replicas : Copies(taking[p]) /\ Copies(snapshot[p])
    BY Zenon DEF ReplicasOK
<1>8. CASE Snapshot(r) \/ PersistFails(r)
  <2>1. fsm' = fsm /\ applied' = applied /\ snapshot' = snapshot
      BY Zenon, <1>8 DEF Snapshot, PersistFails
  <2>2. PICK s : Copies(s) /\ taking' = [taking EXCEPT ![r] = s]
      BY Zenon, <1>3, <1>4, <1>8 DEF Snapshot, PersistFails
  <2>3. taking' \in [Replicas -> [index : Nat, state : State]]
      BY Zenon, <1>5, <2>2 DEF ReplicasOK
  <2>4. \A p \in Replicas : Copies(taking'[p]) /\ Copies(snapshot'[p])
      BY Zenon, <1>7, <2>1, <2>2 DEF ReplicasOK
  <2>5. \A p \in Replicas : Copies(taking[p])' /\ Copies(snapshot[p])'
      BY Zenon, <1>1, <2>4 DEF Copies
  <2>6. ReplicasOK'
      BY Zenon, <1>1, <2>1, <2>3, <2>5 DEF ReplicasOK
  <2> QED BY Zenon, <1>2, <2>6
<1>9. CASE Persist(r)
  <2>1. fsm' = fsm /\ applied' = applied
      BY Zenon, <1>9 DEF Persist
  <2>2. PICK s : Copies(s) /\ snapshot' = [snapshot EXCEPT ![r] = s]
      BY Zenon, <1>7, <1>9 DEF Persist, Encoded
  <2>3. taking' = [taking EXCEPT ![r] = Empty]
      BY Zenon, <1>9 DEF Persist
  <2>4. /\ taking' \in [Replicas -> [index : Nat, state : State]]
        /\ snapshot' \in [Replicas -> [index : Nat, state : State]]
      BY Zenon, <1>3, <1>5, <2>2, <2>3 DEF ReplicasOK
  <2>5. \A p \in Replicas : Copies(taking'[p]) /\ Copies(snapshot'[p])
      BY Zenon, <1>3, <1>7, <2>2, <2>3 DEF ReplicasOK
  <2>6. \A p \in Replicas : Copies(taking[p])' /\ Copies(snapshot[p])'
      BY Zenon, <1>1, <2>5 DEF Copies
  <2>7. ReplicasOK'
      BY Zenon, <1>1, <2>1, <2>4, <2>6 DEF ReplicasOK
  <2> QED BY Zenon, <1>2, <2>7
<1>10. CASE Install(r, q) \/ Restart(r)
  <2>1. PICK s : /\ Copies(s)
                 /\ fsm' = [fsm EXCEPT ![r] = s.state]
                 /\ applied' = [applied EXCEPT ![r] = s.index]
                 /\ snapshot' = snapshot \/ snapshot' = [snapshot EXCEPT ![r] = s]
                 /\ taking' = taking \/ taking' = [taking EXCEPT ![r] = Empty]
    <3>1. CASE Install(r, q)
        BY Zenon, <1>7, <3>1 DEF Install
    <3>2. CASE Restart(r)
        BY Zenon, <1>7, <3>2 DEF Restart
    <3> QED BY Zenon, <1>10, <3>1, <3>2
  <2>2. s.index \in Nat /\ s.state \in State /\ s.index <= Len(log) /\ s.state = history[s.index + 1]
      BY Zenon, <2>1 DEF Copies
  <2>3. /\ fsm' \in [Replicas -> State] /\ applied' \in [Replicas -> Nat]
        /\ \A p \in Replicas : applied'[p] <= Len(log) /\ fsm'[p] = history[applied'[p] + 1]
      BY Zenon, <2>1, <2>2 DEF ReplicasOK
  <2>4. /\ taking' \in [Replicas -> [index : Nat, state : State]]
        /\ snapshot' \in [Replicas -> [index : Nat, state : State]]
      BY Zenon, <1>3, <1>5, <2>1 DEF ReplicasOK
  <2>5. \A p \in Replicas : Copies(taking'[p]) /\ Copies(snapshot'[p])
      BY Zenon, <1>3, <1>7, <2>1 DEF ReplicasOK
  <2>6. \A p \in Replicas : Copies(taking[p])' /\ Copies(snapshot[p])'
      BY Zenon, <1>1, <2>5 DEF Copies
  <2>7. ReplicasOK'
      BY Zenon, <1>1, <2>3, <2>4, <2>6 DEF ReplicasOK
  <2> QED BY Zenon, <1>2, <2>7
<1> QED BY Zenon, <1>8, <1>9, <1>10

\* The invariant holds along every behaviour.
THEOREM ReplicasInductive == LogSpec => []ReplicaInvariant
<1>1. ReplicaInvariant /\ [LogNext]_logVars => ReplicaInvariant'
  <2> SUFFICES ASSUME ReplicaInvariant, [LogNext]_logVars PROVE ReplicaInvariant'
      BY Zenon
  <2>1. CASE UNCHANGED logVars
      BY Zenon, <2>1 DEF logVars, ReplicaInvariant, HistoryOK, Ordered, ReplicasOK, Copies
  <2>2. CASE \E cmd \in Command : Commit(cmd)
      BY Zenon, <2>2, CommitStep
  <2>3. CASE \E r \in Replicas : ApplyNext(r)
      BY Zenon, <2>3, ApplyStep
  <2>4. CASE \E r, q \in Replicas :
               Snapshot(r) \/ Persist(r) \/ PersistFails(r) \/ Install(r, q) \/ Restart(r)
      BY Zenon, <2>4, SnapshotStep
  <2> QED BY Zenon, <2>1, <2>2, <2>3, <2>4 DEF LogNext
<1> QED BY <1>1, LogInitOK, PTL DEF LogSpec

\* Replicas and snapshots of the cluster map never disagree about what a number
\* of commands leads to, however often they restart or are restored.
THEOREM ReplicasAlwaysAgree == LogSpec => []ReplicasAgree
<1>1. ReplicaInvariant => ReplicasAgree
    BY Zenon DEF ReplicaInvariant, ReplicasOK, Copies, ReplicasAgree
<1> QED BY <1>1, ReplicasInductive, PTL

\* Two replicas that report the same epoch report the same map.
THEOREM EpochIsIdentity == LogSpec => []EpochIdentifiesMap
<1>1. ReplicaInvariant => EpochIdentifiesMap
  <2> SUFFICES ASSUME ReplicaInvariant, NEW r \in Replicas, NEW q \in Replicas,
                      fsm[r].epoch = fsm[q].epoch
               PROVE  fsm[r].nodes = fsm[q].nodes
      BY Zenon DEF EpochIdentifiesMap
  <2>1. /\ applied[r] + 1 \in 1..Len(history) /\ fsm[r] = history[applied[r] + 1]
        /\ applied[q] + 1 \in 1..Len(history) /\ fsm[q] = history[applied[q] + 1]
      BY DEF ReplicaInvariant, ReplicasOK, HistoryOK
  <2>2. CASE applied[r] <= applied[q]
      BY <2>1, <2>2 DEF ReplicaInvariant, HistoryOK, Ordered, ReplicasOK
  <2>3. CASE applied[q] <= applied[r]
      BY <2>1, <2>3 DEF ReplicaInvariant, HistoryOK, Ordered, ReplicasOK
  <2> QED BY <2>2, <2>3 DEF ReplicaInvariant, ReplicasOK
<1> QED BY <1>1, ReplicasInductive, PTL

-----------------------------------------------------------------------------
\* The types of the map, while calls change it.

\* An entry of the map, and a map.
EntryOf(n) == [address : AddressesOf[n], healthy : BOOLEAN, fresh : BOOLEAN]
MapOK(map) == map = [n \in Nodes |-> map[n]] /\ \A n \in Nodes : map[n] \in EntryOf(n) \cup {None}
AddressOK(addresses) ==
    /\ addresses = [n \in Nodes |-> addresses[n]]
    /\ \A n \in Nodes : addresses[n] \in AddressesOf[n] \cup {None}

\* What a call holds, by its operation: a Join an address of its node, a ReapStale
\* a copy of the map in which the entries to be written were healthy and stale.
Fields == {"op", "node", "address", "at", "todo", "copy"}
CallOK(k) ==
    /\ k = [f \in Fields |-> k[f]]
    /\ k.op = "join" => k.node \in Nodes /\ k.address \in AddressesOf[k.node]
    /\ k.op = "remove" => k.node \in Nodes
    /\ k.op = "reap" =>
          /\ MapOK(k.copy) /\ k.todo \subseteq Nodes
          /\ \A n \in k.todo : k.copy[n] # None /\ k.copy[n].healthy /\ ~k.copy[n].fresh

\* The inductive invariant.
MapInvariant ==
    /\ AddressOK(alive) /\ AddressOK(voters) /\ MapOK(entries)
    /\ call = [c \in Calls |-> call[c]] /\ \A c \in Calls : CallOK(call[c])
    /\ changes \in 0..MaxChanges

\* A call without operation holds nothing.
LEMMA IdleOK == CallOK(Idle)
BY Zenon DEF Idle, CallOK, Fields

\* An address or an entry of the right node may replace another.
LEMMA Updates ==
    ASSUME NEW n \in Nodes
    PROVE  /\ \A f, a : AddressOK(f) /\ a \in AddressesOf[n] \cup {None} => AddressOK([f EXCEPT ![n] = a])
           /\ \A map, e : MapOK(map) /\ e \in EntryOf(n) \cup {None} => MapOK([map EXCEPT ![n] = e])
<1>1. ASSUME NEW f, NEW a \in AddressesOf[n] \cup {None}, AddressOK(f) PROVE AddressOK([f EXCEPT ![n] = a])
    BY Zenon, <1>1 DEF AddressOK
<1>2. ASSUME NEW map, NEW e \in EntryOf(n) \cup {None}, MapOK(map) PROVE MapOK([map EXCEPT ![n] = e])
    BY Zenon, <1>2 DEF MapOK
<1> QED BY Zenon, <1>1, <1>2

\* A call may be replaced by one that holds what its operation needs.
LEMMA CallUpdate ==
    ASSUME MapInvariant, NEW c \in Calls, NEW k, CallOK(k), call' = [call EXCEPT ![c] = k]
    PROVE  call' = [d \in Calls |-> call'[d]] /\ \A d \in Calls : CallOK(call'[d])
BY Zenon DEF MapInvariant

\* The processes and the heartbeats.
LEMMA NodeStep ==
    ASSUME MapInvariant, NEW n \in Nodes,
           Stop(n) \/ Heartbeat(n) \/ Lapse(n) \/ \E a \in AddressesOf[n] : Start(n, a)
    PROVE  MapInvariant'
<1>1. alive[n] \in AddressesOf[n] \cup {None} /\ entries[n] \in EntryOf(n) \cup {None}
    BY Zenon DEF MapInvariant, AddressOK, MapOK
<1>2. MapInvariant /\ Changed => changes' \in 0..MaxChanges
    BY MapAssumption DEF MapInvariant, Changed
<1>3. CASE Stop(n)
    BY Zenon, <1>2, <1>3, Updates DEF Stop, MapInvariant
<1>4. ASSUME NEW a \in AddressesOf[n], Start(n, a) PROVE MapInvariant'
    BY Zenon, <1>2, <1>4, Updates DEF Start, MapInvariant
<1>5. CASE Heartbeat(n)
  <2>1. Entry(alive[n], TRUE, TRUE) \in EntryOf(n)
      BY Zenon, <1>1, <1>5 DEF Heartbeat, HeartbeatDue, Entry, EntryOf
  <2> QED BY Zenon, <1>5, <2>1, Updates DEF Heartbeat, Upsert, MapInvariant
<1>6. CASE Lapse(n)
  <2>1. [entries[n] EXCEPT !.fresh = FALSE] \in EntryOf(n)
      BY Zenon, <1>1, <1>6 DEF Lapse, EntryOf
  <2> QED BY Zenon, <1>6, <2>1, Updates DEF Lapse, Upsert, MapInvariant
<1> QED BY Zenon, <1>3, <1>4, <1>5, <1>6

\* The calls begin.
LEMMA BeginStep ==
    ASSUME MapInvariant, NEW c \in Calls,
           ReapStale(c) \/ \E n \in Nodes : Join(c, n) \/ Remove(c, n)
    PROVE  MapInvariant'
<1>1. ASSUME NEW n \in Nodes, Join(c, n) PROVE MapInvariant'
  <2>1. PICK k : /\ k = [Idle EXCEPT !.op = "join", !.node = n, !.address = alive[n],
                                     !.at = "remove", !.todo = Conflicts(n, alive[n])]
                 /\ call' = [call EXCEPT ![c] = k]
      BY Zenon, <1>1 DEF Join
  <2>2. CallOK(k)
    <3>1. k = [f \in Fields |-> k[f]] /\ k.op = "join" /\ k.node = n /\ k.address = alive[n]
        BY Zenon, <2>1 DEF Idle, Fields
    <3>2. alive[n] \in AddressesOf[n]
        BY Zenon, <1>1 DEF Join, MapInvariant, AddressOK
    <3> QED BY Zenon, <3>1, <3>2 DEF CallOK
  <2>3. UNCHANGED <<alive, voters, entries, changes>>
      BY Zenon, <1>1 DEF Join
  <2> QED BY Zenon, <2>1, <2>2, <2>3, CallUpdate DEF MapInvariant
<1>2. ASSUME NEW n \in Nodes, Remove(c, n) PROVE MapInvariant'
  <2>1. PICK k : /\ k = [Idle EXCEPT !.op = "remove", !.node = n, !.at = "delete"]
                 /\ call' = [call EXCEPT ![c] = k]
      BY Zenon, <1>2 DEF Remove
  <2>2. CallOK(k)
      BY Zenon, <2>1 DEF CallOK, Idle, Fields
  <2>3. AddressOK(voters') /\ UNCHANGED <<alive, entries, changes>>
      BY Zenon, <1>2, Updates DEF Remove, MapInvariant
  <2> QED BY Zenon, <2>1, <2>2, <2>3, CallUpdate DEF MapInvariant
<1>3. CASE ReapStale(c)
  <2>1. PICK k : /\ k = [Idle EXCEPT !.op = "reap", !.at = "upsert", !.todo = Stale, !.copy = entries]
                 /\ call' = [call EXCEPT ![c] = k]
      BY Zenon, <1>3 DEF ReapStale
  <2>2. /\ k = [f \in Fields |-> k[f]] /\ k.op = "reap" /\ k.todo = Stale /\ k.copy = entries
      BY Zenon, <2>1 DEF Idle, Fields
  <2>3. CallOK(k)
      BY Zenon, <2>2 DEF CallOK, Stale, MapInvariant
  <2>4. UNCHANGED <<alive, voters, entries, changes>>
      BY Zenon, <1>3 DEF ReapStale
  <2> QED BY Zenon, <2>1, <2>3, <2>4, CallUpdate DEF MapInvariant
<1> QED BY Zenon, <1>1, <1>2, <1>3

\* The calls go on and end.
LEMMA CallStep ==
    ASSUME MapInvariant, NEW c \in Calls, Step(c) \/ CutShort(c)
    PROVE  MapInvariant'
<1> DEFINE k == call[c]
<1>1. CallOK(k)
    BY Zenon DEF MapInvariant
<1>2. ASSUME Finish(c) PROVE call' = [d \in Calls |-> call'[d]] /\ \A d \in Calls : CallOK(call'[d])
    BY Zenon, <1>2, CallUpdate, IdleOK DEF Finish
<1>3. CASE AddVoter(c)
  <2>1. k.node \in Nodes /\ k.address \in AddressesOf[k.node] /\ UNCHANGED <<alive, entries, changes>>
      BY Zenon, <1>1, <1>3 DEF AddVoter, At, CallOK
  <2>2. AddressOK(voters')
      BY <1>3, <2>1, Updates DEF AddVoter, MapInvariant
  <2>3. ASSUME Goto(c, "upsert")
        PROVE  call' = [d \in Calls |-> call'[d]] /\ \A d \in Calls : CallOK(call'[d])
    <3>1. PICK j : j = [k EXCEPT !.at = "upsert"] /\ call' = [call EXCEPT ![c] = j]
        BY Zenon, <2>3 DEF Goto
    <3>2. CallOK(j)
        BY Zenon, <1>1, <3>1 DEF CallOK, Fields
    <3> QED BY Zenon, <3>1, <3>2, CallUpdate
  <2>4. Finish(c) \/ Goto(c, "upsert")
      BY Zenon, <1>3 DEF AddVoter
  <2> QED BY Zenon, <1>2, <2>1, <2>2, <2>3, <2>4 DEF MapInvariant
<1>4. CASE UpsertJoined(c)
  <2>1. Entry(k.address, TRUE, TRUE) \in EntryOf(k.node) /\ k.node \in Nodes
      BY Zenon, <1>1, <1>4 DEF UpsertJoined, At, CallOK, Entry, EntryOf
  <2>2. MapOK(entries')
      BY Zenon, <1>4, <2>1, Updates DEF UpsertJoined, Upsert, MapInvariant
  <2> QED BY Zenon, <1>2, <1>4, <2>2 DEF UpsertJoined, MapInvariant
<1>5. CASE Delete(c)
  <2>1. MapOK(entries')
      BY Zenon, <1>1, <1>5, Updates DEF Delete, Upsert, At, CallOK, MapInvariant
  <2> QED BY Zenon, <1>2, <1>5, <2>1 DEF Delete, MapInvariant
<1>6. ASSUME NEW n \in Nodes, RemoveConflict(c, n) PROVE MapInvariant'
  <2>1. PICK j : j = [k EXCEPT !.todo = @ \ {n}] /\ call' = [call EXCEPT ![c] = j]
      BY Zenon, <1>6 DEF RemoveConflict
  <2>2. CallOK(j)
      BY Zenon, <1>1, <1>6, <2>1 DEF RemoveConflict, At, CallOK, Fields
  <2>3. AddressOK(voters') /\ UNCHANGED <<alive, entries, changes>>
      BY Zenon, <1>6, Updates DEF RemoveConflict, MapInvariant
  <2> QED BY Zenon, <2>1, <2>2, <2>3, CallUpdate DEF MapInvariant
<1>7. ASSUME NEW n \in Nodes, MarkUnhealthy(c, n) PROVE MapInvariant'
  <2>1. k.op = "reap" /\ n \in k.todo /\ k.copy[n] \in EntryOf(n) /\ UNCHANGED <<alive, voters, changes>>
      BY Zenon, <1>1, <1>7 DEF MarkUnhealthy, At, CallOK, MapOK
  <2>2. Unhealthy(k.copy[n]) \in EntryOf(n)
      BY Zenon, <2>1 DEF Unhealthy, EntryOf
  <2>3. MapOK(entries')
      BY Zenon, <1>7, <2>2, Updates DEF MarkUnhealthy, Upsert, MapInvariant
  <2>4. ASSUME call' = [call EXCEPT ![c].todo = @ \ {n}]
        PROVE  call' = [d \in Calls |-> call'[d]] /\ \A d \in Calls : CallOK(call'[d])
    <3>1. PICK j : j = [k EXCEPT !.todo = @ \ {n}] /\ call' = [call EXCEPT ![c] = j]
        BY Zenon, <2>4
    <3>2. CallOK(j)
        BY Zenon, <1>1, <2>1, <3>1 DEF CallOK, Fields
    <3> QED BY Zenon, <3>1, <3>2, CallUpdate
  <2> QED BY Zenon, <1>2, <1>7, <2>1, <2>3, <2>4 DEF MarkUnhealthy, MapInvariant
<1>8. CASE CutShort(c)
  <2>1. changes' \in 0..MaxChanges
      BY <1>8, MapAssumption DEF CutShort, Changed, MapInvariant
  <2> QED BY Zenon, <1>2, <1>8, <2>1 DEF CutShort, MapInvariant
<1> QED BY Zenon, <1>3, <1>4, <1>5, <1>6, <1>7, <1>8 DEF Step

\* For any nodes, addresses and calls, wherever they are cut short: the map and the
\* configuration have only addresses of their nodes, and ReapStale is about to
\* write only copies of entries that were healthy and stale.
THEOREM MapTypes == Spec => []TypeOK
<1>1. Init => MapInvariant
    BY IdleOK, MapAssumption DEF Init, NoEntries, MapInvariant, AddressOK, MapOK
<1>2. MapInvariant /\ [Next]_vars => MapInvariant'
  <2> SUFFICES ASSUME MapInvariant, [Next]_vars PROVE MapInvariant'
      BY Zenon
  <2>1. CASE UNCHANGED vars
      BY Zenon, <2>1 DEF vars, MapInvariant
  <2> QED BY Zenon, <2>1, NodeStep, BeginStep, CallStep DEF Next
<1>3. MapInvariant => TypeOK
  <2> SUFFICES ASSUME MapInvariant PROVE TypeOK
      BY Zenon
  <2>1. \A n \in Nodes : {alive[n], voters[n]} \subseteq AddressesOf[n] \cup {None}
      BY Zenon DEF MapInvariant, AddressOK
  <2>2. \A n \in Nodes : entries[n] # None =>
            entries[n].address \in AddressesOf[n] /\ entries[n].healthy \in BOOLEAN
      BY Zenon DEF MapInvariant, MapOK, EntryOf
  <2>3. ASSUME NEW c \in Calls, call[c].op = "reap", NEW n \in call[c].todo
        PROVE  call[c].copy[n] # None /\ call[c].copy[n].healthy /\ ~call[c].copy[n].fresh
      BY Zenon, <2>3 DEF MapInvariant, CallOK
  <2> QED BY Zenon, <2>1, <2>2, <2>3 DEF TypeOK, MapInvariant
<1> QED BY <1>1, <1>2, <1>3, PTL DEF Spec
=============================================================================
