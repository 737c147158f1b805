------------------------- MODULE RaftClusterProofs -------------------------
(***************************************************************************)
(* What is proved of RaftCluster for every set of peers and every bound.   *)
(*                                                                         *)
(* The safety of the log is proved of an abstract state, a record of votes *)
(* and full logs: the log of a node with the entries put back that it      *)
(* purged, which are the decided ones.  While nothing in causes happened,  *)
(* a step of the cluster is one of a few steps of that record.             *)
(***************************************************************************)
EXTENDS RaftCluster, FiniteSetTheorems, FunctionTheorems, SequenceTheorems, WellFoundedInduction,
        TLAPS

-----------------------------------------------------------------------------
(* The abstract state.                                                     *)

Entry == [term : Nat, node : Nat]

\* The last index of a store, purged entries counted.
Top(s) == IF DOMAIN s.tree = {} THEN s.last_purged.index ELSE C!LastInTree(s).index

\* A store's log with the entries that it purged, which were decided.
FullLog(s, dec) ==
  [i \in 1..Top(s) |->
     IF i \in DOMAIN s.tree THEN s.tree[i] ELSE (CHOOSE d \in dec : d.index = i).entry]

Abstract(sto, gr, ma, co, dec) ==
  [vote |-> [n \in Nodes |-> sto[n].vote],
   log |-> [n \in Nodes |-> FullLog(sto[n], dec)],
   granted |-> gr, matched |-> ma, committed |-> co, decided |-> dec]

Holds(s, n, i, e) == i \in 1..Len(s.log[n]) /\ s.log[n][i] = e

\* l led, or leads, with the vote it has.
Writing(s, l) == s.vote[l].node = l /\ s.vote[l].committed

Anchors(s) == {a \in s.decided : SameLeader(a.entry, a.vote)}

AsVote(e) == [term |-> e.term, node |-> e.node, committed |-> TRUE]

-----------------------------------------------------------------------------
(* The inductive invariant of the abstract state.                          *)

Ranked(a) == a.term \in Nat /\ a.node \in Nat

Typed(s) ==
  /\ \A n \in Nodes :
       /\ s.vote[n] \in Vote /\ Ranked(s.vote[n]) /\ s.vote[n].committed \in BOOLEAN
       /\ Len(s.log[n]) \in Nat
       /\ \A i \in 1..Len(s.log[n]) : s.log[n][i] \in Entry /\ Ranked(s.log[n][i])
       /\ \A m \in s.granted[n] : m \in Nodes
       /\ \A m \in Nodes : s.matched[n][m] \in Nat
       /\ s.committed[n] \in Nat
  /\ \A d \in s.decided :
       /\ d.index \in Nat /\ d.index > 0
       /\ d.entry \in Entry /\ Ranked(d.entry)
       /\ d.vote \in Vote /\ Ranked(d.vote)

\* Nobody has a vote for a node that is above the vote the node has itself.
VotesOwned(s) ==
  \A n \in Nodes :
    s.vote[n].node \in Nodes => VoteLeq(s.vote[n], s.vote[s.vote[n].node])

\* Who has an entry, and who wrote it, has a vote at least as high as its leader's.
EntriesSigned(s) ==
  /\ \A n \in Nodes : \A i \in 1..Len(s.log[n]) :
       /\ s.log[n][i].node \in Nodes
       /\ VoteLeq(AsVote(s.log[n][i]), s.vote[n])
       /\ VoteLeq(AsVote(s.log[n][i]), s.vote[s.log[n][i].node])
  /\ \A d \in s.decided :
       /\ d.vote.node \in Nodes
       /\ d.vote.committed
       /\ VoteLeq(d.vote, s.vote[d.vote.node])

BallotsCast(s) ==
  \A c \in Nodes : s.granted[c] # {} =>
    /\ c \in s.granted[c]
    /\ s.vote[c].node = c
    /\ ~ s.vote[c].committed
    /\ \A m \in s.granted[c] : VoteLeq(s.vote[c], s.vote[m])

\* The leader that wrote an entry was elected.
WritersElected(s) ==
  \A n \in Nodes : \A i \in 1..Len(s.log[n]) :
    \E q \in Quorums : \A m \in q : ~ LeaderBelow(s.vote[m], s.log[n][i])

LeadersAhead(s) ==
  \A l \in Nodes : Writing(s, l) =>
    /\ Len(s.log[l]) > 0
    /\ SameLeader(s.log[l][Len(s.log[l])], s.vote[l])
    /\ \A m \in Nodes :
         /\ s.matched[l][m] <= Len(s.log[l])
         /\ s.matched[l][m] > 0 => VoteLeq(s.vote[l], s.vote[m])

LogsOrdered(s) ==
  \A n \in Nodes : \A i, j \in 1..Len(s.log[n]) :
    i <= j => ~ LeaderBelow(s.log[n][j], s.log[n][i])

LogsMatch(s) ==
  \A n, m \in Nodes : \A i \in 1..Len(s.log[n]) : Holds(s, m, i, s.log[n][i]) =>
    \A j \in 1..i : s.log[n][j] = s.log[m][j]

\* Nobody has an entry of a leader that the leader does not have.
WritersHold(s) ==
  \A l \in Nodes : Writing(s, l) =>
    \A n \in Nodes : \A i \in 1..Len(s.log[n]) :
      SameLeader(s.log[n][i], s.vote[l]) => Holds(s, l, i, s.log[n][i])

\* A quorum will never take the leader's entry at i.
Blocked(s, l, i) ==
  \E q \in Quorums : \A m \in q :
    s.matched[l][m] < i /\ ~ VoteLeq(s.vote[m], s.vote[l])

\* The entry e at i of leader l is with those that are known to have it, with every
\* later leader and with the candidates that one of the first supports.
Secure(s, l, i, e) ==
  /\ \A m \in Nodes : i <= s.matched[l][m] => Holds(s, m, i, e)
  /\ \A n \in Nodes : \A k \in 1..Len(s.log[n]) :
       LeaderBelow(s.vote[l], s.log[n][k]) => Holds(s, n, i, e)
  /\ \A c, m \in Nodes :
       m \in s.granted[c] /\ LeaderBelow(s.vote[l], s.vote[c]) /\ i <= s.matched[l][m] =>
         Holds(s, c, i, e)

EntriesSecure(s) ==
  \A l \in Nodes : Writing(s, l) =>
    \A i \in 1..Len(s.log[l]) : SameLeader(s.log[l][i], s.vote[l]) =>
      Blocked(s, l, i) \/ Secure(s, l, i, s.log[l][i])

\* The same of an entry that was decided: it was a leader's own.
AnchorsHeld(s) ==
  \A a \in Anchors(s) : \A n \in Nodes : \A k \in 1..Len(s.log[n]) :
    LeaderBelow(a.vote, s.log[n][k]) \/ (SameLeader(a.vote, s.log[n][k]) /\ a.index <= k)
      => Holds(s, n, a.index, a.entry)

AnchorsChosen(s) ==
  \A a \in Anchors(s) : \E q \in Quorums : \A m \in q :
    /\ VoteLeq(a.vote, s.vote[m])
    /\ Holds(s, m, a.index, a.entry)
    /\ \A c \in Nodes : m \in s.granted[c] /\ LeaderBelow(a.vote, s.vote[c]) =>
         Holds(s, c, a.index, a.entry)

\* An entry that was decided is below such an entry.
DecidedAnchored(s) ==
  \A d \in s.decided : \E a \in Anchors(s) :
    /\ a.vote = d.vote
    /\ d.index <= a.index
    /\ \A n \in Nodes : Holds(s, n, a.index, a.entry) => Holds(s, n, d.index, d.entry)

CommittedDecided(s) ==
  \A n \in Nodes : \A i \in 1..s.committed[n] : \E d \in s.decided :
    d.index = i /\ Holds(s, n, i, d.entry) /\ VoteLeq(d.vote, s.vote[n])

LogInv(s) ==
  /\ Typed(s)
  /\ VotesOwned(s)
  /\ EntriesSigned(s)
  /\ BallotsCast(s)
  /\ WritersElected(s)
  /\ LeadersAhead(s)
  /\ LogsOrdered(s)
  /\ LogsMatch(s)
  /\ WritersHold(s)
  /\ EntriesSecure(s)
  /\ AnchorsHeld(s)
  /\ AnchorsChosen(s)
  /\ DecidedAnchored(s)
  /\ CommittedDecided(s)

Abs == Abstract(store, granted, matched, committed, decided)

\* A log is whole: what was purged was decided under a vote that the node has seen,
\* and the rest is there without a gap.
Whole(s, dec) ==
  /\ DOMAIN s.tree = (s.last_purged.index + 1)..Top(s)
  /\ s.last_purged.index = 0 => s.last_purged = NoLogId
  /\ \A i \in 1..s.last_purged.index : \E d \in dec :
       /\ d.index = i
       /\ VoteLeq(d.vote, s.vote)
       /\ i = s.last_purged.index => SameLeader(s.last_purged, d.entry)

Intact ==
  /\ LogInv(Abs)
  /\ \A n \in Nodes : Whole(store[n], decided)
  /\ \A n \in up : base[n] = store[n].last_purged
  /\ \A n \in Nodes \ up : committed[n] = 0

SafetyInv == causes = {} => Intact

-----------------------------------------------------------------------------
(* Quorums and leader ids.                                                 *)

LEMMA NodesFinite == IsFiniteSet(Nodes) /\ Nodes \subseteq Nat \ {0}
<1> DEFINE P == C!ParsePeerConfigs(Peers)
           f == [i \in P |-> Peers[i].node_id]
<1>1. /\ P \subseteq 1..Len(Peers) /\ Len(Peers) \in Nat
      /\ \A i \in P : Peers[i].node_id \in Nat /\ Peers[i].node_id # 0
  <2>1. Peers \in Seq([node_id : Nat, address : Seq(STRING)])
    BY RaftAssumption
  <2>2. Len(Peers) \in Nat /\ DOMAIN Peers = 1..Len(Peers)
    BY <2>1
  <2>3. \A i \in 1..Len(Peers) : Peers[i] \in [node_id : Nat, address : Seq(STRING)]
    BY <2>1, <2>2, ElementOfSeq, Zenon
  <2> QED BY <2>2, <2>3 DEF C!ParsePeerConfigs
<1>2. IsFiniteSet(P)
  <2>1. IsFiniteSet(1..Len(Peers))
    BY <1>1, FS_Interval, 1 \in Int, Len(Peers) \in Int
  <2> QED BY <1>1, <2>1, FS_Subset
<1>3. f \in Surjection(P, Nodes)
  BY DEF Surjection, Nodes
<1>4. Nodes \subseteq Nat \ {0}
  BY <1>1 DEF Nodes
<1> QED BY <1>2, <1>3, <1>4, FS_Surjection

LEMMA QuorumsMeet ==
  ASSUME NEW q \in Quorums, NEW r \in Quorums
  PROVE  \E m \in Nodes : m \in q /\ m \in r
<1>1. q \subseteq Nodes /\ r \subseteq Nodes /\ IsFiniteSet(q) /\ IsFiniteSet(r)
  BY NodesFinite, FS_Subset DEF Quorums
<1>2. /\ Cardinality(q) \in Nat /\ Cardinality(r) \in Nat /\ Cardinality(Nodes) \in Nat
      /\ 2 * Cardinality(q) > Cardinality(Nodes)
      /\ 2 * Cardinality(r) > Cardinality(Nodes)
  BY <1>1, NodesFinite, FS_CardinalityType DEF Quorums
<1>3. Cardinality(q) + Cardinality(r) > Cardinality(Nodes)
  BY <1>2
<1>4. q \cap r # {}
  BY <1>1, <1>3, NodesFinite, FS_MajoritiesIntersect
<1> QED BY <1>1, <1>4

LEMMA QuorumsOfNodes == \A q \in Quorums : q \subseteq Nodes
BY DEF Quorums

LEMMA LeadersOrdered ==
  ASSUME NEW a, NEW b, NEW c, Ranked(a), Ranked(b), Ranked(c)
  PROVE  /\ LeaderBelow(a, b) \/ LeaderBelow(b, a) \/ SameLeader(a, b)
         /\ ~ (LeaderBelow(a, b) /\ LeaderBelow(b, a))
         /\ LeaderBelow(a, b) /\ LeaderBelow(b, c) => LeaderBelow(a, c)
         /\ SameLeader(a, b) => /\ ~ LeaderBelow(a, b) /\ ~ LeaderBelow(b, a)
                                /\ SameLeader(b, a)
                                /\ LeaderBelow(a, c) <=> LeaderBelow(b, c)
                                /\ LeaderBelow(c, a) <=> LeaderBelow(c, b)
                                /\ SameLeader(a, c) <=> SameLeader(b, c)
BY DEF Ranked, LeaderBelow, SameLeader

LEMMA VoteAbove ==
  ASSUME NEW a, NEW b, NEW c, Ranked(a), Ranked(b), Ranked(c),
         LeaderBelow(a, b), ~ LeaderBelow(c, b)
  PROVE  LeaderBelow(a, c) /\ ~ VoteLeq(c, a)
BY DEF Ranked, LeaderBelow, SameLeader, VoteLeq

-----------------------------------------------------------------------------
(* The steps of the abstract state.                                        *)

SameLogs(s, t) == t.log = s.log /\ t.decided = s.decided

\* n stands for election with the vote v.
StepCampaign(s, t, n, v) ==
  /\ v \in Vote /\ v.node = n /\ ~ v.committed
  /\ LeaderBelow(s.vote[n], v)
  /\ \A m \in Nodes :
       /\ t.vote[m] = IF m = n THEN v ELSE s.vote[m]
       /\ t.granted[m] = IF m = n THEN {n} ELSE s.granted[m]
  /\ t.matched = s.matched /\ t.committed = s.committed
  /\ SameLogs(s, t)

\* l takes over the higher vote of f.
StepRefuse(s, t, l, f) ==
  /\ Writing(s, l)
  /\ ~ VoteLeq(s.vote[f], s.vote[l])
  /\ \A m \in Nodes :
       /\ t.vote[m] = IF m = l THEN s.vote[f] ELSE s.vote[m]
       /\ m # l => t.matched[m] = s.matched[m]
  /\ t.granted = s.granted /\ t.committed = s.committed
  /\ SameLogs(s, t)

\* n forgets what it did not store.
StepForget(s, t, n) ==
  /\ \A m \in Nodes :
       /\ t.granted[m] = IF m = n THEN {} ELSE s.granted[m]
       /\ \A k \in Nodes : t.matched[m][k] = IF m = n THEN 0 ELSE s.matched[m][k]
       /\ t.committed[m] = IF m = n THEN 0 ELSE s.committed[m]
  /\ t.vote = s.vote
  /\ SameLogs(s, t)

\* The last entry of m's log is not above that of c's.
NotAhead(s, m, c) ==
  LET i == Len(s.log[m])
      j == Len(s.log[c])
  IN  i > 0 =>
        /\ j > 0
        /\ \/ LeaderBelow(s.log[m][i], s.log[c][j])
           \/ SameLeader(s.log[m][i], s.log[c][j]) /\ i <= j

\* n grants c its vote.
StepGrant(s, t, c, n) ==
  /\ s.granted[c] # {}
  /\ n \notin s.granted[c]
  /\ VoteLeq(s.vote[n], s.vote[c])
  /\ NotAhead(s, n, c)
  /\ \A m \in Nodes :
       /\ t.vote[m] = IF m = n THEN s.vote[c] ELSE s.vote[m]
       /\ t.granted[m] = IF m = n THEN {}
                        ELSE IF m = c THEN s.granted[c] \cup {n} ELSE s.granted[m]
       /\ m # n => t.matched[m] = s.matched[m]
  /\ t.committed = s.committed
  /\ SameLogs(s, t)

\* What these steps have in common: logs stay, votes rise,
\* a leader stays what it was, and new support goes to candidates that are not behind.
VotesRise(s, t) ==
  /\ SameLogs(s, t)
  /\ \A m \in Nodes : VoteLeq(s.vote[m], t.vote[m])
  /\ \A m \in Nodes : t.committed[m] <= s.committed[m]
  /\ \A m \in Nodes : Writing(t, m) =>
       /\ Writing(s, m)
       /\ t.vote[m] = s.vote[m]
       /\ \A k \in Nodes : t.matched[m][k] <= s.matched[m][k]
  /\ \A c, m \in Nodes : m \in t.granted[c] =>
       \/ m \in s.granted[c] /\ t.vote[c] = s.vote[c]
       \/ NotAhead(s, m, c)

LEMMA SecureUpToDate ==
  ASSUME NEW s, LogInv(s), NEW l \in Nodes, Writing(s, l),
         NEW i \in 1..Len(s.log[l]), SameLeader(s.log[l][i], s.vote[l]),
         Secure(s, l, i, s.log[l][i]),
         NEW m \in Nodes, NEW c \in Nodes, Holds(s, m, i, s.log[l][i]), NotAhead(s, m, c)
  PROVE  Holds(s, c, i, s.log[l][i])
<1> DEFINE e == s.log[l][i]
           lm == s.log[m][Len(s.log[m])]
           lc == s.log[c][Len(s.log[c])]
<1> Typed(s)
  BY DEF LogInv
<1>1. /\ Len(s.log[m]) \in Nat /\ Len(s.log[c]) \in Nat /\ Len(s.log[l]) \in Nat
      /\ i \in Nat /\ 0 < i /\ i <= Len(s.log[m]) /\ s.log[m][i] = e
  BY DEF Typed, Holds
<1>2. 0 < Len(s.log[c]) /\ 
      (LeaderBelow(lm, lc) \/ (SameLeader(lm, lc) /\ Len(s.log[m]) <= Len(s.log[c])))
  BY <1>1 DEF NotAhead
<1>n. Len(s.log[m]) \in 1..Len(s.log[m]) /\ Len(s.log[c]) \in 1..Len(s.log[c])
  BY <1>1, <1>2
<1>3. Ranked(e) /\ Ranked(lm) /\ Ranked(lc) /\ Ranked(s.vote[l])
  BY <1>n DEF Typed
<1>4. ~ LeaderBelow(lm, e)
  <2>1. /\ i \in 1..Len(s.log[m]) /\ Len(s.log[m]) \in 1..Len(s.log[m])
        /\ i <= Len(s.log[m]) /\ s.log[m][i] = e
    BY <1>1, <1>n
  <2> QED BY <2>1 DEF LogInv, LogsOrdered
<1>5. CASE LeaderBelow(s.vote[l], lc)
  BY <1>5, <1>n DEF Secure
<1>6. CASE ~ LeaderBelow(s.vote[l], lc)
  <2>1. SameLeader(lc, s.vote[l]) /\ Len(s.log[m]) <= Len(s.log[c])
    <3>1. SameLeader(e, s.vote[l])
      OBVIOUS
    <3> HIDE DEF e, lm, lc
    <3> QED BY <1>2, <1>3, <1>4, <1>6, <3>1
            DEF LeaderBelow, SameLeader, Ranked
  <2>2. Holds(s, l, Len(s.log[c]), lc)
    BY <2>1, <1>n DEF LogInv, WritersHold
  <2>3. s.log[c][i] = s.log[l][i]
    <3>1. i \in 1..Len(s.log[c])
      BY <2>1, <1>1
    <3> QED BY <3>1, <2>2, <1>n DEF LogInv, LogsMatch
  <2> QED BY <2>1, <2>3, <1>1 DEF Holds
<1> QED BY <1>5, <1>6

LEMMA AnchorUpToDate ==
  ASSUME NEW s, LogInv(s), NEW a \in Anchors(s), NEW m \in Nodes, NEW c \in Nodes,
         Holds(s, m, a.index, a.entry), NotAhead(s, m, c)
  PROVE  Holds(s, c, a.index, a.entry)
<1> DEFINE lm == s.log[m][Len(s.log[m])]
           lc == s.log[c][Len(s.log[c])]
<1> Typed(s)
  BY DEF LogInv
<1>0. a \in s.decided /\ SameLeader(a.entry, a.vote)
  BY DEF Anchors
<1>1. /\ Len(s.log[m]) \in Nat /\ Len(s.log[c]) \in Nat
      /\ a.index \in Nat /\ 0 < a.index /\ a.index <= Len(s.log[m])
      /\ s.log[m][a.index] = a.entry
  BY <1>0 DEF Typed, Holds
<1>2. 0 < Len(s.log[c]) /\ 
      (LeaderBelow(lm, lc) \/ (SameLeader(lm, lc) /\ Len(s.log[m]) <= Len(s.log[c])))
  BY <1>1 DEF NotAhead
<1>n. Len(s.log[m]) \in 1..Len(s.log[m]) /\ Len(s.log[c]) \in 1..Len(s.log[c])
  BY <1>1, <1>2
<1>3. Ranked(lm) /\ Ranked(lc) /\ Ranked(a.entry) /\ Ranked(a.vote)
  BY <1>n, <1>0 DEF Typed
<1>4. ~ LeaderBelow(lm, a.entry)
  <2>1. /\ a.index \in 1..Len(s.log[m]) /\ Len(s.log[m]) \in 1..Len(s.log[m])
        /\ a.index <= Len(s.log[m]) /\ s.log[m][a.index] = a.entry
    BY <1>1, <1>n
  <2> QED BY <2>1 DEF LogInv, LogsOrdered
<1>5. LeaderBelow(a.vote, lc) \/ (SameLeader(a.vote, lc) /\ a.index <= Len(s.log[c]))
  <2> HIDE DEF lm, lc
  <2> QED BY <1>0, <1>1, <1>2, <1>3, <1>4 DEF LeaderBelow, SameLeader, Ranked
<1> QED BY <1>n, <1>5 DEF LogInv, AnchorsHeld

LEMMA VotesTransitive ==
  ASSUME NEW a, NEW b, NEW c, Ranked(a), Ranked(b), Ranked(c),
         VoteLeq(a, b), VoteLeq(b, c)
  PROVE  VoteLeq(a, c)
BY DEF Ranked, VoteLeq, LeaderBelow, SameLeader

LEMMA VotesRiseKeepLogInv ==
  ASSUME NEW s, NEW t, LogInv(s), Typed(t), VotesRise(s, t), VotesOwned(t), BallotsCast(t)
  PROVE  LogInv(t)
<1> Typed(s)
  BY DEF LogInv
<1>0. t.log = s.log /\ t.decided = s.decided
  BY DEF VotesRise, SameLogs
<1>1. \A m, i, e : Holds(t, m, i, e) <=> Holds(s, m, i, e)
  BY <1>0 DEF Holds
<1>2. \A m \in Nodes : \A e : Ranked(e) /\ VoteLeq(e, s.vote[m]) => VoteLeq(e, t.vote[m])
  BY VotesTransitive DEF VotesRise, Typed
<1>3. EntriesSigned(t)
  <2>1. ASSUME NEW n \in Nodes, NEW i \in 1..Len(t.log[n])
        PROVE  /\ t.log[n][i].node \in Nodes
               /\ VoteLeq(AsVote(t.log[n][i]), t.vote[n])
               /\ VoteLeq(AsVote(t.log[n][i]), t.vote[t.log[n][i].node])
    <3>1. Ranked(AsVote(t.log[n][i]))
      BY <2>1 DEF Typed, Ranked, AsVote
    <3> QED BY <1>0, <1>2, <2>1, <3>1 DEF LogInv, EntriesSigned
  <2>2. ASSUME NEW d \in t.decided
        PROVE  d.vote.node \in Nodes /\ d.vote.committed /\ VoteLeq(d.vote, t.vote[d.vote.node])
    BY <1>0, <1>2 DEF LogInv, EntriesSigned, Typed
  <2> QED BY <2>1, <2>2 DEF EntriesSigned
<1>4. WritersElected(t)
  <2> SUFFICES ASSUME NEW n \in Nodes, NEW i \in 1..Len(s.log[n])
               PROVE  \E q \in Quorums : \A m \in q : ~ LeaderBelow(t.vote[m], s.log[n][i])
    BY <1>0 DEF WritersElected
  <2>1. PICK q \in Quorums : \A m \in q : ~ LeaderBelow(s.vote[m], s.log[n][i])
    BY DEF LogInv, WritersElected
  <2>2. ASSUME NEW m \in q PROVE ~ LeaderBelow(t.vote[m], s.log[n][i])
    <3>1. m \in Nodes /\ Ranked(s.log[n][i]) /\ Ranked(s.vote[m]) /\ Ranked(t.vote[m])
      BY QuorumsOfNodes DEF Typed
    <3>2. VoteLeq(s.vote[m], t.vote[m]) /\ ~ LeaderBelow(s.vote[m], s.log[n][i])
      BY <2>1, <3>1 DEF VotesRise
    <3> QED BY <3>1, <3>2 DEF VoteLeq, LeaderBelow, SameLeader, Ranked
  <2> QED BY <2>2
<1>5. LogsOrdered(t) /\ LogsMatch(t) /\ AnchorsHeld(t) /\ DecidedAnchored(t)
  BY <1>0, <1>1 DEF LogInv, LogsOrdered, LogsMatch, AnchorsHeld, Anchors, DecidedAnchored
<1>6. WritersHold(t)
  BY <1>0, <1>1 DEF LogInv, WritersHold, VotesRise
<1>7. LeadersAhead(t)
  <2> SUFFICES ASSUME NEW l \in Nodes, Writing(t, l)
               PROVE  /\ Len(s.log[l]) > 0
                      /\ SameLeader(s.log[l][Len(s.log[l])], s.vote[l])
                      /\ \A m \in Nodes :
                           /\ t.matched[l][m] <= Len(s.log[l])
                           /\ t.matched[l][m] > 0 => VoteLeq(s.vote[l], t.vote[m])
    BY <1>0 DEF LeadersAhead, VotesRise
  <2>1. Writing(s, l) /\ \A k \in Nodes : t.matched[l][k] <= s.matched[l][k]
    BY DEF VotesRise
  <2>2. ASSUME NEW m \in Nodes
        PROVE  /\ t.matched[l][m] <= Len(s.log[l])
               /\ t.matched[l][m] > 0 => VoteLeq(s.vote[l], t.vote[m])
    <3>1. /\ t.matched[l][m] \in Nat /\ s.matched[l][m] \in Nat /\ Len(s.log[l]) \in Nat
          /\ Ranked(s.vote[l])
      BY DEF Typed
    <3>2. t.matched[l][m] <= s.matched[l][m]
      BY <2>1
    <3>3. /\ s.matched[l][m] <= Len(s.log[l])
          /\ s.matched[l][m] > 0 => VoteLeq(s.vote[l], s.vote[m])
      BY <2>1 DEF LogInv, LeadersAhead
    <3> QED BY <1>2, <3>1, <3>2, <3>3
  <2> QED BY <2>1, <2>2 DEF LogInv, LeadersAhead
<1>8. EntriesSecure(t)
  <2> SUFFICES ASSUME NEW l \in Nodes, Writing(t, l), NEW i \in 1..Len(s.log[l]),
                      SameLeader(s.log[l][i], s.vote[l])
               PROVE  Blocked(t, l, i) \/ Secure(t, l, i, s.log[l][i])
    BY <1>0 DEF EntriesSecure, VotesRise
  <2>1. /\ Writing(s, l) /\ t.vote[l] = s.vote[l]
        /\ \A k \in Nodes : t.matched[l][k] <= s.matched[l][k]
    BY DEF VotesRise
  <2>2. Blocked(s, l, i) \/ Secure(s, l, i, s.log[l][i])
    BY <2>1 DEF LogInv, EntriesSecure
  <2>3. /\ i \in Nat /\ \A m \in Nodes : t.matched[l][m] \in Nat /\ s.matched[l][m] \in Nat
        /\ Ranked(s.vote[l])
    BY DEF Typed
  <2>4. CASE Blocked(s, l, i)
    <3>1. PICK q \in Quorums : \A m \in q :
            s.matched[l][m] < i /\ ~ VoteLeq(s.vote[m], s.vote[l])
      BY <2>4 DEF Blocked
    <3>2. ASSUME NEW m \in q PROVE t.matched[l][m] < i /\ ~ VoteLeq(t.vote[m], t.vote[l])
      <4>1. m \in Nodes /\ Ranked(s.vote[m]) /\ Ranked(t.vote[m])
        BY QuorumsOfNodes DEF Typed
      <4>2. VoteLeq(s.vote[m], t.vote[m])
        BY <4>1 DEF VotesRise
      <4>3. ~ VoteLeq(t.vote[m], t.vote[l])
        BY <2>1, <2>3, <3>1, <4>1, <4>2, VotesTransitive
      <4> QED BY <2>1, <2>3, <3>1, <4>1, <4>3
    <3> QED BY <3>2 DEF Blocked
  <2>5. CASE Secure(s, l, i, s.log[l][i])
    <3>1. ASSUME NEW m \in Nodes, i <= t.matched[l][m] PROVE Holds(s, m, i, s.log[l][i])
      BY <2>1, <2>3, <2>5, <3>1 DEF Secure
    <3>2. ASSUME NEW n \in Nodes, NEW k \in 1..Len(s.log[n]), LeaderBelow(s.vote[l], s.log[n][k])
          PROVE  Holds(s, n, i, s.log[l][i])
      BY <2>5, <3>2 DEF Secure
    <3>3. ASSUME NEW c \in Nodes, NEW m \in Nodes, m \in t.granted[c],
                 LeaderBelow(s.vote[l], t.vote[c]), i <= t.matched[l][m]
          PROVE  Holds(s, c, i, s.log[l][i])
      <4>1. i <= s.matched[l][m]
        BY <2>1, <2>3, <3>3
      <4>2. CASE m \in s.granted[c] /\ t.vote[c] = s.vote[c]
        BY <2>5, <3>3, <4>1, <4>2 DEF Secure
      <4>3. CASE NotAhead(s, m, c)
        <5>1. Holds(s, m, i, s.log[l][i])
          BY <3>1, <3>3
        <5> QED BY <2>1, <2>5, <4>3, <5>1, SecureUpToDate
      <4> QED BY <3>3, <4>2, <4>3 DEF VotesRise
    <3> QED BY <1>0, <1>1, <2>1, <3>1, <3>2, <3>3 DEF Secure
  <2> QED BY <2>2, <2>4, <2>5
<1>9. AnchorsChosen(t)
  <2> SUFFICES ASSUME NEW a \in Anchors(s)
               PROVE  \E q \in Quorums : \A m \in q :
                        /\ VoteLeq(a.vote, t.vote[m])
                        /\ Holds(s, m, a.index, a.entry)
                        /\ \A c \in Nodes : m \in t.granted[c] /\ LeaderBelow(a.vote, t.vote[c]) =>
                             Holds(s, c, a.index, a.entry)
    BY <1>0, <1>1 DEF AnchorsChosen, Anchors
  <2>1. PICK q \in Quorums : \A m \in q :
          /\ VoteLeq(a.vote, s.vote[m])
          /\ Holds(s, m, a.index, a.entry)
          /\ \A c \in Nodes : m \in s.granted[c] /\ LeaderBelow(a.vote, s.vote[c]) =>
               Holds(s, c, a.index, a.entry)
    BY DEF LogInv, AnchorsChosen
  <2>2. ASSUME NEW m \in q PROVE m \in Nodes /\ VoteLeq(a.vote, t.vote[m])
    BY <1>2, <2>1, QuorumsOfNodes DEF Anchors, Typed
  <2>3. ASSUME NEW m \in q, NEW c \in Nodes, m \in t.granted[c], LeaderBelow(a.vote, t.vote[c])
        PROVE  Holds(s, c, a.index, a.entry)
    <3>1. CASE m \in s.granted[c] /\ t.vote[c] = s.vote[c]
      BY <2>1, <2>3, <3>1
    <3>2. CASE NotAhead(s, m, c)
      BY <2>1, <2>2, <2>3, <3>2, AnchorUpToDate
    <3> QED BY <2>2, <2>3, <3>1, <3>2 DEF VotesRise
  <2> QED BY <2>1, <2>2, <2>3
<1>10. CommittedDecided(t)
  <2> SUFFICES ASSUME NEW n \in Nodes, NEW i \in 1..t.committed[n]
               PROVE  \E d \in s.decided :
                        d.index = i /\ Holds(s, n, i, d.entry) /\ VoteLeq(d.vote, t.vote[n])
    BY <1>0, <1>1 DEF CommittedDecided
  <2>1. i \in 1..s.committed[n]
    BY DEF VotesRise, Typed
  <2>2. PICK d \in s.decided : d.index = i /\ Holds(s, n, i, d.entry) /\ VoteLeq(d.vote, s.vote[n])
    BY <2>1 DEF LogInv, CommittedDecided
  <2> QED BY <2>2, <1>2 DEF Typed
<1> QED
  BY <1>3, <1>4, <1>5, <1>6, <1>7, <1>8, <1>9, <1>10 DEF LogInv

LEMMA ForgetKeepsLogInv ==
  ASSUME NEW s, NEW t, NEW n \in Nodes, LogInv(s), Typed(t), StepForget(s, t, n)
  PROVE  LogInv(t)
<1> USE DEF StepForget
<1> Typed(s)
  BY DEF LogInv
<1>1. VotesOwned(t) /\ BallotsCast(t)
  BY DEF LogInv, VotesOwned, BallotsCast
<1>2. VotesRise(s, t)
  BY DEF VotesRise, SameLogs, Writing, Typed, VoteLeq, SameLeader
<1> QED BY <1>1, <1>2, VotesRiseKeepLogInv

LEMMA CampaignKeepsLogInv ==
  ASSUME NEW s, NEW t, NEW n \in Nodes, NEW v, LogInv(s), Typed(t), StepCampaign(s, t, n, v)
  PROVE  LogInv(t)
<1> USE DEF StepCampaign
<1> Typed(s)
  BY DEF LogInv
<1>1. \A m \in Nodes : VoteLeq(s.vote[m], t.vote[m])
  BY DEF VoteLeq, SameLeader
<1>2. \A m \in Nodes : Ranked(s.vote[m]) /\ Ranked(t.vote[m]) /\ Ranked(v)
  BY DEF Typed
<1>3. VotesOwned(t)
  <2> SUFFICES ASSUME NEW m \in Nodes, t.vote[m].node \in Nodes
               PROVE  VoteLeq(t.vote[m], t.vote[t.vote[m].node])
    BY DEF VotesOwned
  <2>1. CASE m = n
    BY <2>1 DEF VoteLeq, SameLeader
  <2>2. CASE m # n
    <3> DEFINE k == s.vote[m].node
    <3>1. t.vote[m] = s.vote[m] /\ k \in Nodes
      BY <2>2
    <3>2. VoteLeq(s.vote[m], s.vote[k])
      BY <3>1 DEF LogInv, VotesOwned
    <3> QED BY <1>1, <1>2, <3>1, <3>2, VotesTransitive
  <2> QED BY <2>1, <2>2
<1>4. BallotsCast(t)
  <2> SUFFICES ASSUME NEW c \in Nodes, t.granted[c] # {}
               PROVE  /\ c \in t.granted[c]
                      /\ t.vote[c].node = c
                      /\ ~ t.vote[c].committed
                      /\ \A m \in t.granted[c] : VoteLeq(t.vote[c], t.vote[m])
    BY DEF BallotsCast
  <2>1. CASE c = n
    BY <2>1 DEF VoteLeq, SameLeader
  <2>2. CASE c # n
    <3>1. t.vote[c] = s.vote[c] /\ t.granted[c] = s.granted[c]
      BY <2>2
    <3>2. /\ c \in s.granted[c]
          /\ s.vote[c].node = c
          /\ ~ s.vote[c].committed
          /\ \A m \in s.granted[c] : m \in Nodes /\ VoteLeq(s.vote[c], s.vote[m])
      BY <3>1 DEF LogInv, BallotsCast, Typed
    <3> QED BY <1>1, <1>2, <3>1, <3>2, VotesTransitive
  <2> QED BY <2>1, <2>2
<1>5. NotAhead(s, n, n)
  BY DEF NotAhead, SameLeader, Typed
<1>6. VotesRise(s, t)
  BY <1>1, <1>5 DEF VotesRise, Writing, Typed
<1> QED BY <1>3, <1>4, <1>6, VotesRiseKeepLogInv

LEMMA RefuseKeepsLogInv ==
  ASSUME NEW s, NEW t, NEW l \in Nodes, NEW f \in Nodes, LogInv(s), Typed(t),
         StepRefuse(s, t, l, f)
  PROVE  LogInv(t)
<1> USE DEF StepRefuse
<1> Typed(s)
  BY DEF LogInv
<1>1. \A m \in Nodes : Ranked(s.vote[m]) /\ Ranked(t.vote[m])
  BY DEF Typed
<1>2. \A m \in Nodes : VoteLeq(s.vote[m], t.vote[m])
  BY <1>1 DEF VoteLeq, SameLeader, LeaderBelow, Ranked, Writing
<1>3. t.vote[l].node # l
  BY DEF LogInv, VotesOwned
<1>4. VotesOwned(t)
  <2> SUFFICES ASSUME NEW m \in Nodes, t.vote[m].node \in Nodes
               PROVE  VoteLeq(t.vote[m], t.vote[t.vote[m].node])
    BY DEF VotesOwned
  <2>1. PICK j \in Nodes : t.vote[m] = s.vote[j]
    BY DEF StepRefuse
  <2> DEFINE k == s.vote[j].node
  <2>2. VoteLeq(s.vote[j], s.vote[k]) /\ k \in Nodes
    BY <2>1 DEF LogInv, VotesOwned
  <2> QED BY <1>1, <1>2, <2>1, <2>2, VotesTransitive
<1>5. BallotsCast(t)
  <2> SUFFICES ASSUME NEW c \in Nodes, s.granted[c] # {}
               PROVE  /\ c \in s.granted[c]
                      /\ t.vote[c].node = c
                      /\ ~ t.vote[c].committed
                      /\ \A m \in s.granted[c] : VoteLeq(t.vote[c], t.vote[m])
    BY DEF BallotsCast
  <2>1. /\ c \in s.granted[c]
        /\ s.vote[c].node = c
        /\ ~ s.vote[c].committed
        /\ \A m \in s.granted[c] : m \in Nodes /\ VoteLeq(s.vote[c], s.vote[m])
    BY DEF LogInv, BallotsCast, Typed
  <2>2. c # l /\ t.vote[c] = s.vote[c]
    BY <2>1 DEF Writing
  <2> QED BY <1>1, <1>2, <2>1, <2>2, VotesTransitive
<1>6. VotesRise(s, t)
  BY <1>2, <1>3, <1>5 DEF VotesRise, Writing, Typed, BallotsCast
<1> QED BY <1>4, <1>5, <1>6, VotesRiseKeepLogInv

LEMMA GrantKeepsLogInv ==
  ASSUME NEW s, NEW t, NEW c \in Nodes, NEW n \in Nodes, LogInv(s), Typed(t),
         StepGrant(s, t, c, n)
  PROVE  LogInv(t)
<1> USE DEF StepGrant
<1> Typed(s)
  BY DEF LogInv
<1>1. \A m \in Nodes : Ranked(s.vote[m]) /\ Ranked(t.vote[m])
  BY DEF Typed
<1>2. \A m \in Nodes : VoteLeq(s.vote[m], t.vote[m])
  BY DEF VoteLeq, SameLeader
<1>3. /\ n # c /\ t.vote[c] = s.vote[c]
      /\ t.vote[n] = s.vote[c] /\ s.vote[c].node = c
  BY DEF LogInv, BallotsCast
<1>4. VotesOwned(t)
  <2> SUFFICES ASSUME NEW m \in Nodes, t.vote[m].node \in Nodes
               PROVE  VoteLeq(t.vote[m], t.vote[t.vote[m].node])
    BY DEF VotesOwned
  <2>1. PICK j \in Nodes : t.vote[m] = s.vote[j]
    BY DEF StepGrant
  <2> DEFINE k == s.vote[j].node
  <2>2. VoteLeq(s.vote[j], s.vote[k]) /\ k \in Nodes
    BY <2>1 DEF LogInv, VotesOwned
  <2> QED BY <1>1, <1>2, <2>1, <2>2, VotesTransitive
<1>5. BallotsCast(t)
  <2> SUFFICES ASSUME NEW b \in Nodes, t.granted[b] # {}
               PROVE  /\ b \in t.granted[b]
                      /\ t.vote[b].node = b
                      /\ ~ t.vote[b].committed
                      /\ \A m \in t.granted[b] : VoteLeq(t.vote[b], t.vote[m])
    BY DEF BallotsCast
  <2>1. b # n /\ t.vote[b] = s.vote[b] /\ s.granted[b] # {}
    BY <1>3
  <2>2. /\ b \in s.granted[b]
        /\ s.vote[b].node = b
        /\ ~ s.vote[b].committed
        /\ \A m \in s.granted[b] : m \in Nodes /\ VoteLeq(s.vote[b], s.vote[m])
    BY <2>1 DEF LogInv, BallotsCast, Typed
  <2>3. ASSUME NEW m \in t.granted[b] PROVE VoteLeq(t.vote[b], t.vote[m])
    <3>1. CASE m \in s.granted[b]
      BY <1>1, <1>2, <2>1, <2>2, <3>1, VotesTransitive
    <3>2. CASE m \notin s.granted[b]
      <4>1. m = n /\ b = c
        BY <2>1, <2>3, <3>2
      <4> QED BY <1>3, <4>1 DEF VoteLeq, SameLeader
    <3> QED BY <3>1, <3>2
  <2> QED BY <2>1, <2>2, <2>3
<1>6. VotesRise(s, t)
  <2>1. ASSUME NEW b \in Nodes, NEW m \in Nodes, m \in t.granted[b]
        PROVE  (m \in s.granted[b] /\ t.vote[b] = s.vote[b]) \/ NotAhead(s, m, b)
    BY <2>1, <1>3
  <2>2. ASSUME NEW m \in Nodes, Writing(t, m)
        PROVE  m # n /\ Writing(s, m)
    BY <2>2, <1>3 DEF Writing
  <2> QED BY <1>2, <2>1, <2>2 DEF VotesRise, Typed
<1> QED BY <1>4, <1>5, <1>6, VotesRiseKeepLogInv

-----------------------------------------------------------------------------
(* Leaders append entries of their own.                                    *)

\* n appends an entry of its own.
Appends(s, t, n) ==
  /\ \A m \in Nodes : m # n => t.log[m] = s.log[m]
  /\ Len(t.log[n]) = Len(s.log[n]) + 1
  /\ \A i \in 1..Len(s.log[n]) : t.log[n][i] = s.log[n][i]
  /\ SameLeader(t.log[n][Len(t.log[n])], t.vote[n])

StepPropose(s, t, n) ==
  /\ Writing(s, n)
  /\ Appends(s, t, n)
  /\ t.vote = s.vote /\ t.granted = s.granted /\ t.matched = s.matched
  /\ t.committed = s.committed /\ t.decided = s.decided

StepElect(s, t, n) ==
  /\ s.granted[n] \in Quorums
  /\ Appends(s, t, n)
  /\ SameLeader(t.vote[n], s.vote[n]) /\ t.vote[n].committed
  /\ \A m \in Nodes :
       /\ m # n => t.vote[m] = s.vote[m] /\ t.matched[m] = s.matched[m]
       /\ t.granted[m] = IF m = n THEN {} ELSE s.granted[m]
       /\ t.matched[n][m] = 0
  /\ t.committed = s.committed /\ t.decided = s.decided

\* What both have in common: n has all that was decided under earlier votes or its own,
\* and all entries of its own, and where it does not have an entry that another leader
\* took for secure, that entry is blocked.
AppendsSafely(s, t, n) ==
  /\ Appends(s, t, n)
  /\ t.committed = s.committed /\ t.decided = s.decided
  /\ \A m \in Nodes :
       /\ VoteLeq(s.vote[m], t.vote[m])
       /\ m # n => t.vote[m] = s.vote[m] /\ t.matched[m] = s.matched[m]
       /\ t.matched[n][m] <= Len(s.log[n])
       /\ t.matched[n][m] > 0 => VoteLeq(t.vote[n], t.vote[m])
       /\ \A k \in t.granted[m] : k \in s.granted[m] /\ t.vote[m] = s.vote[m]
       /\ \A i \in 1..Len(s.log[m]) :
            SameLeader(s.log[m][i], t.vote[n]) => Holds(s, n, i, s.log[m][i])
  /\ Writing(t, n)
  /\ \E q \in Quorums : \A m \in q : ~ LeaderBelow(t.vote[m], t.vote[n])
  /\ \A i \in 1..Len(s.log[n]) : ~ LeaderBelow(t.vote[n], s.log[n][i])
  /\ \A i \in 1..Len(s.log[n]) : SameLeader(s.log[n][i], t.vote[n]) =>
       Writing(s, n) /\ t.vote[n] = s.vote[n] /\ t.matched[n] = s.matched[n]
  /\ \A l \in Nodes \ {n} : Writing(s, l) /\ LeaderBelow(s.vote[l], t.vote[n]) =>
       \A i \in 1..Len(s.log[l]) : SameLeader(s.log[l][i], s.vote[l]) =>
         Blocked(t, l, i) \/ (Secure(s, l, i, s.log[l][i]) => Holds(s, n, i, s.log[l][i]))
  /\ \A a \in Anchors(s) : ~ LeaderBelow(t.vote[n], a.vote) =>
       Holds(s, n, a.index, a.entry)

\* A quorum that will not take an entry will not take it later.
LEMMA BlockedStays ==
  ASSUME NEW s, NEW t, Typed(s), Typed(t), NEW l \in Nodes, NEW i \in Nat, Blocked(s, l, i),
         \A m \in Nodes : /\ VoteLeq(s.vote[m], t.vote[m])
                          /\ VoteLeq(s.vote[m], s.vote[l]) \/ t.matched[l][m] <= s.matched[l][m],
         t.vote[l] = s.vote[l]
  PROVE  Blocked(t, l, i)
<1>1. PICK q \in Quorums : \A m \in q :
        s.matched[l][m] < i /\ ~ VoteLeq(s.vote[m], s.vote[l])
  BY DEF Blocked
<1>2. ASSUME NEW m \in q PROVE t.matched[l][m] < i /\ ~ VoteLeq(t.vote[m], t.vote[l])
  <2>1. /\ m \in Nodes /\ Ranked(s.vote[m]) /\ Ranked(t.vote[m]) /\ Ranked(s.vote[l])
        /\ s.matched[l][m] \in Nat /\ t.matched[l][m] \in Nat
    BY QuorumsOfNodes DEF Typed
  <2>2. VoteLeq(s.vote[m], t.vote[m]) /\ t.matched[l][m] <= s.matched[l][m]
    BY <1>1, <2>1
  <2>3. ~ VoteLeq(t.vote[m], t.vote[l])
    BY <1>1, <2>1, <2>2, VotesTransitive
  <2> QED BY <1>1, <2>1, <2>2, <2>3
<1> QED BY <1>2 DEF Blocked

LEMMA AppendKeepsLogInv ==
  ASSUME NEW s, NEW t, NEW n \in Nodes, LogInv(s), Typed(t), AppendsSafely(s, t, n),
         VotesOwned(t), BallotsCast(t)
  PROVE  LogInv(t)
<1> Typed(s)
  BY DEF LogInv
<1> DEFINE N == Len(t.log[n])
           e == t.log[n][N]
<1>1. /\ t.decided = s.decided /\ t.committed = s.committed /\ Appends(s, t, n)
      /\ \A m \in Nodes : m # n => t.log[m] = s.log[m]
      /\ N = Len(s.log[n]) + 1 /\ N \in 1..Len(t.log[n]) /\ Len(s.log[n]) \in Nat
      /\ \A i \in 1..Len(s.log[n]) : t.log[n][i] = s.log[n][i]
      /\ SameLeader(e, t.vote[n]) /\ Ranked(e) /\ Ranked(t.vote[n])
      /\ Writing(t, n)
  <2>1. /\ t.decided = s.decided /\ t.committed = s.committed /\ Appends(s, t, n)
        /\ Writing(t, n) /\ Len(s.log[n]) \in Nat /\ Ranked(t.vote[n])
    BY DEF AppendsSafely, Typed
  <2>2. /\ \A m \in Nodes : m # n => t.log[m] = s.log[m]
        /\ N = Len(s.log[n]) + 1
        /\ \A i \in 1..Len(s.log[n]) : t.log[n][i] = s.log[n][i]
        /\ SameLeader(e, t.vote[n])
    BY <2>1 DEF Appends
  <2>3. N \in 1..Len(t.log[n])
    BY <2>1, <2>2
  <2> QED BY <2>1, <2>2, <2>3 DEF Typed
<1>2. /\ \A m \in Nodes : Ranked(s.vote[m]) /\ Ranked(t.vote[m]) /\ VoteLeq(s.vote[m], t.vote[m])
      /\ \A m \in Nodes : m # n => t.vote[m] = s.vote[m] /\ t.matched[m] = s.matched[m]
  BY DEF AppendsSafely, Typed
\* Every entry of t is one of s, or the new one.
<1>3. ASSUME NEW m \in Nodes, NEW i \in 1..Len(t.log[m])
      PROVE  \/ i \in 1..Len(s.log[m]) /\ t.log[m][i] = s.log[m][i]
             \/ m = n /\ i = N /\ t.log[m][i] = e
  BY <1>1, <1>3
<1>4. ASSUME NEW m \in Nodes, NEW i, NEW x, Holds(s, m, i, x) PROVE Holds(t, m, i, x)
  BY <1>1, <1>4 DEF Holds
<1>5. ASSUME NEW m \in Nodes, NEW i, NEW x, Holds(t, m, i, x)
      PROVE  Holds(s, m, i, x) \/ (m = n /\ i = N /\ x = e)
  BY <1>1, <1>5 DEF Holds
<1>6. ASSUME NEW m \in Nodes, NEW i \in 1..Len(s.log[m]), SameLeader(s.log[m][i], t.vote[n])
      PROVE  i # N /\ Holds(s, n, i, s.log[m][i])
  <2>1. Holds(s, n, i, s.log[m][i])
    BY <1>6 DEF AppendsSafely
  <2> QED BY <2>1, <1>1 DEF Holds
<1>7. EntriesSigned(t)
  <2>1. ASSUME NEW m \in Nodes, NEW i \in 1..Len(t.log[m])
        PROVE  /\ t.log[m][i].node \in Nodes
               /\ VoteLeq(AsVote(t.log[m][i]), t.vote[m])
               /\ VoteLeq(AsVote(t.log[m][i]), t.vote[t.log[m][i].node])
    <3>1. CASE i \in 1..Len(s.log[m]) /\ t.log[m][i] = s.log[m][i]
      <4>1. Ranked(AsVote(t.log[m][i]))
        BY <2>1 DEF Typed, Ranked, AsVote
      <4>2. /\ t.log[m][i].node \in Nodes
            /\ VoteLeq(AsVote(t.log[m][i]), s.vote[m])
            /\ VoteLeq(AsVote(t.log[m][i]), s.vote[t.log[m][i].node])
        BY <3>1 DEF LogInv, EntriesSigned
      <4> QED BY <1>2, <4>1, <4>2, VotesTransitive
    <3>2. CASE m = n /\ t.log[m][i] = e
      BY <1>1, <3>2 DEF AsVote, VoteLeq, SameLeader, Writing
    <3> QED BY <1>3, <3>1, <3>2
  <2>2. ASSUME NEW d \in t.decided
        PROVE  d.vote.node \in Nodes /\ d.vote.committed /\ VoteLeq(d.vote, t.vote[d.vote.node])
    BY <1>1, <1>2, VotesTransitive DEF LogInv, EntriesSigned, Typed
  <2> QED BY <2>1, <2>2 DEF EntriesSigned
<1>8. WritersElected(t)
  <2> SUFFICES ASSUME NEW m \in Nodes, NEW i \in 1..Len(t.log[m])
               PROVE  \E q \in Quorums : \A k \in q : ~ LeaderBelow(t.vote[k], t.log[m][i])
    BY DEF WritersElected
  <2>1. CASE i \in 1..Len(s.log[m]) /\ t.log[m][i] = s.log[m][i]
    <3>1. PICK q \in Quorums : \A k \in q : ~ LeaderBelow(s.vote[k], s.log[m][i])
      BY <2>1 DEF LogInv, WritersElected
    <3>2. ASSUME NEW k \in q PROVE ~ LeaderBelow(t.vote[k], t.log[m][i])
      <4>1. k \in Nodes /\ Ranked(s.log[m][i])
        BY <2>1, QuorumsOfNodes DEF Typed
      <4>2. VoteLeq(s.vote[k], t.vote[k]) /\ Ranked(s.vote[k]) /\ Ranked(t.vote[k])
        BY <1>2, <4>1
      <4> QED BY <2>1, <3>1, <4>1, <4>2 DEF VoteLeq, LeaderBelow, SameLeader, Ranked
    <3> QED BY <3>2
  <2>2. CASE m = n /\ t.log[m][i] = e
    BY <1>1, <2>2 DEF AppendsSafely, LeaderBelow, SameLeader
  <2> QED BY <1>3, <2>1, <2>2
<1>9. LeadersAhead(t)
  <2> SUFFICES ASSUME NEW l \in Nodes, Writing(t, l)
               PROVE  /\ Len(t.log[l]) > 0
                      /\ SameLeader(t.log[l][Len(t.log[l])], t.vote[l])
                      /\ \A m \in Nodes :
                           /\ t.matched[l][m] <= Len(t.log[l])
                           /\ t.matched[l][m] > 0 => VoteLeq(t.vote[l], t.vote[m])
    BY DEF LeadersAhead
  <2>1. CASE l = n
    <3>1. ASSUME NEW m \in Nodes
          PROVE  /\ t.matched[n][m] <= N
                 /\ t.matched[n][m] > 0 => VoteLeq(t.vote[n], t.vote[m])
      <4>1. /\ t.matched[n][m] <= Len(s.log[n])
            /\ t.matched[n][m] > 0 => VoteLeq(t.vote[n], t.vote[m])
        BY DEF AppendsSafely
      <4> QED BY <1>1, <4>1 DEF Typed
    <3> QED BY <1>1, <2>1, <3>1
  <2>2. CASE l # n
    <3>1. Writing(s, l) /\ t.log[l] = s.log[l] /\ t.vote[l] = s.vote[l] /\ t.matched[l] = s.matched[l]
      BY <1>1, <1>2, <2>2 DEF Writing
    <3>2. /\ Len(s.log[l]) > 0
          /\ SameLeader(s.log[l][Len(s.log[l])], s.vote[l])
          /\ \A m \in Nodes :
               /\ s.matched[l][m] <= Len(s.log[l])
               /\ s.matched[l][m] > 0 => VoteLeq(s.vote[l], s.vote[m])
      BY <3>1 DEF LogInv, LeadersAhead
    <3> QED BY <1>2, <3>1, <3>2, VotesTransitive
  <2> QED BY <2>1, <2>2
<1>10. LogsOrdered(t)
  <2> SUFFICES ASSUME NEW m \in Nodes, NEW i \in 1..Len(t.log[m]), NEW j \in 1..Len(t.log[m]), i <= j
               PROVE  ~ LeaderBelow(t.log[m][j], t.log[m][i])
    BY DEF LogsOrdered
  <2>1. CASE m = n /\ j = N
    <3>1. CASE i = N
      BY <1>1, <2>1, <3>1 DEF LeaderBelow, Ranked
    <3>2. CASE i # N
      <4>1. i \in 1..Len(s.log[n]) /\ t.log[n][i] = s.log[n][i]
        BY <1>1, <2>1, <3>2
      <4>2. ~ LeaderBelow(t.vote[n], s.log[n][i])
        BY <4>1 DEF AppendsSafely
      <4> QED BY <1>1, <2>1, <4>1, <4>2 DEF LeaderBelow, SameLeader
    <3> QED BY <3>1, <3>2
  <2>2. CASE ~ (m = n /\ j = N)
    <3>1. j \in 1..Len(s.log[m]) /\ t.log[m][j] = s.log[m][j]
      BY <1>3, <2>2
    <3>2. i \in 1..Len(s.log[m]) /\ t.log[m][i] = s.log[m][i]
      <4>1. ~ (m = n /\ i = N)
        BY <1>1, <2>2, <3>1
      <4> QED BY <1>3, <4>1
    <3> QED BY <3>1, <3>2 DEF LogInv, LogsOrdered
  <2> QED BY <2>1, <2>2
<1>11. LogsMatch(t)
  <2> SUFFICES ASSUME NEW m \in Nodes, NEW k \in Nodes, NEW i \in 1..Len(t.log[m]),
                      Holds(t, k, i, t.log[m][i]), NEW j \in 1..i
               PROVE  t.log[m][j] = t.log[k][j]
    BY DEF LogsMatch
  <2>1. CASE i \in 1..Len(s.log[m]) /\ Holds(s, k, i, t.log[m][i])
    <3>1. t.log[m][i] = s.log[m][i] /\ i \in 1..Len(s.log[k])
      BY <1>1, <2>1 DEF Holds
    <3>2. s.log[m][j] = s.log[k][j]
      BY <2>1, <3>1 DEF LogInv, LogsMatch
    <3>3. j \in 1..Len(s.log[m]) /\ j \in 1..Len(s.log[k])
      BY <2>1, <3>1 DEF Typed
    <3> QED BY <1>1, <3>2, <3>3
  <2>2. CASE i \in 1..Len(s.log[m]) /\ k = n /\ i = N /\ t.log[m][i] = e
    <3>1. t.log[m][i] = s.log[m][i]
      BY <1>1, <2>2
    <3> QED BY <1>1, <1>6, <2>2, <3>1
  <2>3. CASE m = n /\ i = N /\ Holds(s, k, i, t.log[m][i])
    <3>1. i \in 1..Len(s.log[k]) /\ s.log[k][i] = e
      BY <2>3 DEF Holds
    <3> QED BY <1>1, <1>6, <2>3, <3>1
  <2>4. CASE m = n /\ k = n
    BY <2>4
  <2> QED BY <1>3, <1>5, <2>1, <2>2, <2>3, <2>4
<1>12. WritersHold(t)
  <2> SUFFICES ASSUME NEW l \in Nodes, Writing(t, l), NEW m \in Nodes, NEW i \in 1..Len(t.log[m]),
                      SameLeader(t.log[m][i], t.vote[l])
               PROVE  Holds(t, l, i, t.log[m][i])
    BY DEF WritersHold
  <2>1. CASE m = n /\ i = N
    <3>1. l = n
      BY <1>1, <2>1 DEF SameLeader, Writing
    <3> QED BY <1>1, <2>1, <3>1 DEF Holds
  <2>2. CASE i \in 1..Len(s.log[m]) /\ t.log[m][i] = s.log[m][i] /\ l = n
    BY <1>4, <1>6, <2>2
  <2>3. CASE i \in 1..Len(s.log[m]) /\ t.log[m][i] = s.log[m][i] /\ l # n
    <3>1. Writing(s, l) /\ t.vote[l] = s.vote[l]
      BY <1>2, <2>3 DEF Writing
    <3> QED BY <1>4, <2>3, <3>1 DEF LogInv, WritersHold
  <2> QED BY <1>3, <2>1, <2>2, <2>3
<1>13. EntriesSecure(t)
  <2> SUFFICES ASSUME NEW l \in Nodes, Writing(t, l), NEW i \in 1..Len(t.log[l]),
                      SameLeader(t.log[l][i], t.vote[l]), ~ Blocked(t, l, i)
               PROVE  Secure(t, l, i, t.log[l][i])
    BY DEF EntriesSecure
  <2>1. CASE l = n /\ i = N
    <3>1. ASSUME NEW m \in Nodes PROVE t.matched[n][m] < N
      <4>1. t.matched[n][m] <= Len(s.log[n])
        BY DEF AppendsSafely
      <4> QED BY <1>1, <4>1 DEF Typed
    <3>2. ASSUME NEW m \in Nodes, NEW k \in 1..Len(t.log[m]), LeaderBelow(t.vote[n], t.log[m][k])
          PROVE  FALSE
      <4>1. PICK q \in Quorums : \A j \in q : ~ LeaderBelow(t.vote[j], t.log[m][k])
        BY <1>8 DEF WritersElected
      <4>2. ASSUME NEW j \in q PROVE t.matched[n][j] < N /\ ~ VoteLeq(t.vote[j], t.vote[n])
        <5>1. j \in Nodes /\ Ranked(t.vote[j]) /\ Ranked(t.log[m][k])
          BY QuorumsOfNodes DEF Typed
        <5>2. ~ VoteLeq(t.vote[j], t.vote[n])
          <6>1. LeaderBelow(t.vote[n], t.log[m][k]) /\ ~ LeaderBelow(t.vote[j], t.log[m][k])
            BY <3>2, <4>1
          <6>2. Ranked(t.vote[n])
            BY <1>1
          <6> QED BY <5>1, <6>1, <6>2, VoteAbove
        <5> QED BY <3>1, <5>1, <5>2
      <4> QED BY <2>1, <4>2 DEF Blocked
    <3>3. \A m \in Nodes : ~ (i <= t.matched[l][m])
      BY <1>1, <2>1, <3>1 DEF Typed
    <3> QED BY <2>1, <3>2, <3>3 DEF Secure
  <2>2. CASE ~ (l = n /\ i = N)
    <3>1. i \in 1..Len(s.log[l]) /\ t.log[l][i] = s.log[l][i]
      BY <1>3, <2>2
    <3>2. Writing(s, l) /\ t.vote[l] = s.vote[l] /\ t.matched[l] = s.matched[l]
      <4>1. CASE l = n
        BY <3>1, <4>1 DEF AppendsSafely
      <4>2. CASE l # n
        BY <1>2, <4>2 DEF Writing
      <4> QED BY <4>1, <4>2
    <3>3. Secure(s, l, i, s.log[l][i])
      <4>1. Blocked(s, l, i) \/ Secure(s, l, i, s.log[l][i])
        BY <3>1, <3>2 DEF LogInv, EntriesSecure
      <4>2. ~ Blocked(s, l, i)
        <5>1. i \in Nat /\ \A m \in Nodes : s.matched[l][m] \in Nat
          BY DEF Typed
        <5> QED BY <1>2, <3>2, <5>1, BlockedStays
      <4> QED BY <4>1, <4>2
    <3>4. ASSUME NEW m \in Nodes, i <= t.matched[l][m] PROVE Holds(t, m, i, s.log[l][i])
      BY <1>4, <3>2, <3>3, <3>4 DEF Secure
    <3>5. ASSUME NEW m \in Nodes, NEW k \in 1..Len(t.log[m]), LeaderBelow(t.vote[l], t.log[m][k])
          PROVE  Holds(t, m, i, s.log[l][i])
      <4>1. CASE k \in 1..Len(s.log[m]) /\ t.log[m][k] = s.log[m][k]
        BY <1>4, <3>2, <3>3, <3>5, <4>1 DEF Secure
      <4>2. CASE m = n /\ t.log[m][k] = e
        <5>1. LeaderBelow(s.vote[l], t.vote[n])
          BY <1>1, <3>2, <3>5, <4>2 DEF LeaderBelow, SameLeader
        <5>2. l # n
          BY <1>1, <3>2, <5>1 DEF LeaderBelow, Ranked
        <5>3. Blocked(t, l, i) \/ (Secure(s, l, i, s.log[l][i]) => Holds(s, n, i, s.log[l][i]))
          BY <3>1, <3>2, <5>1, <5>2 DEF AppendsSafely
        <5> QED BY <1>4, <3>3, <4>2, <5>3
      <4> QED BY <1>3, <4>1, <4>2
    <3>6. ASSUME NEW c \in Nodes, NEW m \in Nodes, m \in t.granted[c],
                 LeaderBelow(t.vote[l], t.vote[c]), i <= t.matched[l][m]
          PROVE  Holds(t, c, i, s.log[l][i])
      <4>1. m \in s.granted[c] /\ t.vote[c] = s.vote[c]
        BY <3>6 DEF AppendsSafely
      <4> QED BY <1>4, <3>2, <3>3, <3>6, <4>1 DEF Secure
    <3> QED BY <3>1, <3>4, <3>5, <3>6 DEF Secure
  <2> QED BY <2>1, <2>2
<1>14. AnchorsHeld(t)
  <2> SUFFICES ASSUME NEW a \in Anchors(s), NEW m \in Nodes, NEW k \in 1..Len(t.log[m]),
                      LeaderBelow(a.vote, t.log[m][k])
                        \/ (SameLeader(a.vote, t.log[m][k]) /\ a.index <= k)
               PROVE  Holds(t, m, a.index, a.entry)
    BY <1>1 DEF AnchorsHeld, Anchors
  <2>1. CASE k \in 1..Len(s.log[m]) /\ t.log[m][k] = s.log[m][k]
    BY <1>4, <2>1 DEF LogInv, AnchorsHeld
  <2>2. CASE m = n /\ t.log[m][k] = e
    <3>1. Ranked(a.vote)
      BY DEF Typed, Anchors
    <3>2. ~ LeaderBelow(t.vote[n], a.vote)
      BY <1>1, <2>2, <3>1 DEF LeaderBelow, SameLeader, Ranked
    <3> QED BY <1>4, <2>2, <3>2 DEF AppendsSafely
  <2> QED BY <1>3, <2>1, <2>2
<1>15. AnchorsChosen(t)
  <2> SUFFICES ASSUME NEW a \in Anchors(s)
               PROVE  \E q \in Quorums : \A m \in q :
                        /\ VoteLeq(a.vote, t.vote[m])
                        /\ Holds(t, m, a.index, a.entry)
                        /\ \A c \in Nodes : m \in t.granted[c] /\ LeaderBelow(a.vote, t.vote[c]) =>
                             Holds(t, c, a.index, a.entry)
    BY <1>1 DEF AnchorsChosen, Anchors
  <2>1. PICK q \in Quorums : \A m \in q :
          /\ VoteLeq(a.vote, s.vote[m])
          /\ Holds(s, m, a.index, a.entry)
          /\ \A c \in Nodes : m \in s.granted[c] /\ LeaderBelow(a.vote, s.vote[c]) =>
               Holds(s, c, a.index, a.entry)
    BY DEF LogInv, AnchorsChosen
  <2>2. ASSUME NEW m \in q PROVE m \in Nodes /\ VoteLeq(a.vote, t.vote[m])
    <3>1. m \in Nodes /\ Ranked(a.vote)
      BY QuorumsOfNodes DEF Anchors, Typed
    <3> QED BY <1>2, <2>1, <3>1, VotesTransitive
  <2>3. ASSUME NEW m \in q, NEW c \in Nodes, m \in t.granted[c], LeaderBelow(a.vote, t.vote[c])
        PROVE  Holds(t, c, a.index, a.entry)
    <3>1. m \in s.granted[c] /\ t.vote[c] = s.vote[c]
      BY <2>3 DEF AppendsSafely
    <3> QED BY <1>4, <2>1, <2>3, <3>1
  <2> QED BY <1>4, <2>1, <2>2, <2>3
<1>16. DecidedAnchored(t)
  <2> SUFFICES ASSUME NEW d \in s.decided
               PROVE  \E a \in Anchors(s) :
                        /\ a.vote = d.vote
                        /\ d.index <= a.index
                        /\ \A m \in Nodes : Holds(t, m, a.index, a.entry) =>
                                            Holds(t, m, d.index, d.entry)
    BY <1>1 DEF DecidedAnchored, Anchors
  <2>1. PICK a \in Anchors(s) :
          /\ a.vote = d.vote
          /\ d.index <= a.index
          /\ \A m \in Nodes : Holds(s, m, a.index, a.entry) => Holds(s, m, d.index, d.entry)
    BY DEF LogInv, DecidedAnchored
  <2>2. ASSUME NEW m \in Nodes, Holds(t, m, a.index, a.entry)
        PROVE  Holds(t, m, d.index, d.entry)
    <3>1. CASE Holds(s, m, a.index, a.entry)
      BY <1>4, <2>1, <3>1
    <3>2. CASE m = n /\ a.index = N /\ a.entry = e
      <4>1. SameLeader(e, a.vote) /\ Ranked(a.vote)
        BY <3>2 DEF Anchors, Typed
      <4>2. ~ LeaderBelow(t.vote[n], a.vote)
        BY <1>1, <4>1 DEF LeaderBelow, SameLeader, Ranked
      <4>3. Holds(s, n, N, e)
        BY <3>2, <4>2 DEF AppendsSafely
      <4> QED BY <1>1, <4>3 DEF Holds
    <3> QED BY <1>5, <2>2, <3>1, <3>2
  <2> QED BY <2>1, <2>2
<1>17. CommittedDecided(t)
  <2> SUFFICES ASSUME NEW m \in Nodes, NEW i \in 1..s.committed[m]
               PROVE  \E d \in s.decided :
                        d.index = i /\ Holds(t, m, i, d.entry) /\ VoteLeq(d.vote, t.vote[m])
    BY <1>1 DEF CommittedDecided
  <2>1. PICK d \in s.decided : d.index = i /\ Holds(s, m, i, d.entry) /\ VoteLeq(d.vote, s.vote[m])
    BY DEF LogInv, CommittedDecided
  <2>2. Ranked(d.vote)
    BY DEF Typed
  <2> QED BY <1>2, <1>4, <2>1, <2>2, VotesTransitive
<1> QED
  BY <1>7, <1>8, <1>9, <1>10, <1>11, <1>12, <1>13, <1>14, <1>15, <1>16, <1>17 DEF LogInv

\* A leader has what was decided under its vote or an earlier one.
LEMMA LeaderHasDecided ==
  ASSUME NEW s, LogInv(s), NEW l \in Nodes, Writing(s, l),
         NEW d \in s.decided, ~ LeaderBelow(s.vote[l], d.vote)
  PROVE  Holds(s, l, d.index, d.entry)
<1> Typed(s)
  BY DEF LogInv
<1> DEFINE L == Len(s.log[l])
           last == s.log[l][L]
<1>1. L \in 1..Len(s.log[l]) /\ SameLeader(last, s.vote[l]) /\ Ranked(s.vote[l])
  <2>1. L > 0 /\ SameLeader(last, s.vote[l])
    BY DEF LogInv, LeadersAhead
  <2> QED BY <2>1 DEF Typed
<1>2. PICK a \in Anchors(s) :
        a.vote = d.vote /\ (Holds(s, l, a.index, a.entry) => Holds(s, l, d.index, d.entry))
  BY DEF LogInv, DecidedAnchored
<1>3. Ranked(a.vote) /\ Ranked(a.entry) /\ SameLeader(a.entry, a.vote)
  BY DEF Anchors, Typed
<1>4. CASE LeaderBelow(a.vote, s.vote[l])
  <2>1. LeaderBelow(a.vote, last)
    BY <1>1, <1>4 DEF LeaderBelow, SameLeader
  <2> QED BY <1>1, <1>2, <2>1 DEF LogInv, AnchorsHeld
<1>5. CASE ~ LeaderBelow(a.vote, s.vote[l])
  <2>1. SameLeader(a.entry, s.vote[l])
    BY <1>1, <1>2, <1>3, <1>5 DEF LeaderBelow, SameLeader, Ranked
  <2>2. PICK r \in Quorums : \A m \in r : Holds(s, m, a.index, a.entry)
    BY DEF LogInv, AnchorsChosen
  <2>3. PICK m \in Nodes : Holds(s, m, a.index, a.entry)
    BY <2>2, QuorumsMeet
  <2>4. Holds(s, l, a.index, a.entry)
    BY <2>1, <2>3 DEF Holds, LogInv, WritersHold
  <2> QED BY <1>2, <2>4
<1> QED BY <1>4, <1>5

LEMMA ProposeKeepsLogInv ==
  ASSUME NEW s, NEW t, NEW n \in Nodes, LogInv(s), Typed(t), StepPropose(s, t, n)
  PROVE  LogInv(t)
<1> Typed(s)
  BY DEF LogInv
<1>1. /\ Writing(s, n) /\ Appends(s, t, n)
      /\ t.vote = s.vote /\ t.granted = s.granted /\ t.matched = s.matched
      /\ t.committed = s.committed /\ t.decided = s.decided
  BY DEF StepPropose
<1>2. VotesOwned(t) /\ BallotsCast(t)
  BY <1>1 DEF LogInv, VotesOwned, BallotsCast
<1> DEFINE L == Len(s.log[n])
           last == s.log[n][L]
<1>3. /\ L \in 1..Len(s.log[n]) /\ SameLeader(last, s.vote[n])
      /\ Ranked(last) /\ Ranked(s.vote[n])
  <2>1. L > 0 /\ SameLeader(last, s.vote[n])
    BY <1>1 DEF LogInv, LeadersAhead
  <2>2. L \in 1..Len(s.log[n])
    BY <2>1 DEF Typed
  <2> QED BY <2>1, <2>2 DEF Typed
<1>4. \A m \in Nodes :
        /\ VoteLeq(s.vote[m], s.vote[m])
        /\ s.matched[n][m] <= L
        /\ s.matched[n][m] > 0 => VoteLeq(s.vote[n], s.vote[m])
        /\ \A i \in 1..Len(s.log[m]) :
             SameLeader(s.log[m][i], s.vote[n]) => Holds(s, n, i, s.log[m][i])
  BY <1>1 DEF LogInv, LeadersAhead, WritersHold, VoteLeq, SameLeader
<1>5. PICK q \in Quorums : \A m \in q : ~ LeaderBelow(s.vote[m], s.vote[n])
  <2>1. PICK q \in Quorums : \A m \in q : ~ LeaderBelow(s.vote[m], last)
    BY <1>3 DEF LogInv, WritersElected
  <2> QED BY <1>3, <2>1 DEF SameLeader, LeaderBelow
<1>6. ASSUME NEW i \in 1..L PROVE ~ LeaderBelow(s.vote[n], s.log[n][i])
  <2>1. VoteLeq(AsVote(s.log[n][i]), s.vote[n]) /\ Ranked(s.log[n][i])
    BY DEF LogInv, EntriesSigned, Typed
  <2> QED BY <2>1, <1>3 DEF VoteLeq, AsVote, LeaderBelow, SameLeader, Ranked
<1>7. ASSUME NEW l \in Nodes \ {n}, Writing(s, l), LeaderBelow(s.vote[l], s.vote[n]),
             NEW i \in 1..Len(s.log[l]), SameLeader(s.log[l][i], s.vote[l])
      PROVE  Blocked(t, l, i) \/ (Secure(s, l, i, s.log[l][i]) => Holds(s, n, i, s.log[l][i]))
  <2>1. LeaderBelow(s.vote[l], last)
    BY <1>3, <1>7 DEF LeaderBelow, SameLeader
  <2> QED BY <1>3, <2>1 DEF Secure
<1>8. \A a \in Anchors(s) : ~ LeaderBelow(s.vote[n], a.vote) => Holds(s, n, a.index, a.entry)
  BY <1>1, LeaderHasDecided DEF Anchors
<1>9. AppendsSafely(s, t, n)
  <2> HIDE DEF last, L
  <2> QED BY <1>1, <1>4, <1>5, <1>6, <1>7, <1>8 DEF AppendsSafely, Writing, L
<1> QED BY <1>2, <1>9, AppendKeepsLogInv

LEMMA ElectKeepsLogInv ==
  ASSUME NEW s, NEW t, NEW n \in Nodes, LogInv(s), Typed(t), StepElect(s, t, n)
  PROVE  LogInv(t)
<1> Typed(s)
  BY DEF LogInv
<1>1. /\ s.granted[n] \in Quorums
      /\ Appends(s, t, n)
      /\ SameLeader(t.vote[n], s.vote[n]) /\ t.vote[n].committed
      /\ \A m \in Nodes :
           /\ m # n => t.vote[m] = s.vote[m] /\ t.matched[m] = s.matched[m]
           /\ t.granted[m] = IF m = n THEN {} ELSE s.granted[m]
           /\ t.matched[n][m] = 0
      /\ t.committed = s.committed /\ t.decided = s.decided
  BY DEF StepElect
<1>2. /\ s.vote[n].node = n /\ ~ s.vote[n].committed
      /\ \A m \in s.granted[n] : VoteLeq(s.vote[n], s.vote[m])
  <2>1. s.granted[n] # {}
    BY <1>1, QuorumsMeet
  <2> QED BY <2>1 DEF LogInv, BallotsCast
<1>3. \A m \in Nodes : Ranked(s.vote[m]) /\ Ranked(t.vote[m])
  BY DEF Typed
<1>4. ASSUME NEW m \in Nodes PROVE VoteLeq(s.vote[m], t.vote[m])
  BY <1>1 DEF VoteLeq, SameLeader
<1>5. VotesOwned(t)
  <2> SUFFICES ASSUME NEW m \in Nodes, t.vote[m].node \in Nodes
               PROVE  VoteLeq(t.vote[m], t.vote[t.vote[m].node])
    BY DEF VotesOwned
  <2>1. CASE m = n
    BY <1>1, <1>2, <2>1 DEF VoteLeq, SameLeader
  <2>2. CASE m # n
    <3> DEFINE k == s.vote[m].node
    <3>1. t.vote[m] = s.vote[m] /\ k \in Nodes
      BY <1>1, <2>2
    <3>2. VoteLeq(s.vote[m], s.vote[k])
      BY <3>1 DEF LogInv, VotesOwned
    <3> QED BY <1>3, <1>4, <3>1, <3>2, VotesTransitive
  <2> QED BY <2>1, <2>2
<1>6. BallotsCast(t)
  <2> SUFFICES ASSUME NEW c \in Nodes, t.granted[c] # {}
               PROVE  /\ c \in t.granted[c]
                      /\ t.vote[c].node = c
                      /\ ~ t.vote[c].committed
                      /\ \A m \in t.granted[c] : VoteLeq(t.vote[c], t.vote[m])
    BY DEF BallotsCast
  <2>1. c # n /\ t.vote[c] = s.vote[c] /\ t.granted[c] = s.granted[c]
    BY <1>1
  <2>2. /\ c \in s.granted[c]
        /\ s.vote[c].node = c
        /\ ~ s.vote[c].committed
        /\ \A m \in s.granted[c] : m \in Nodes /\ VoteLeq(s.vote[c], s.vote[m])
    BY <2>1 DEF LogInv, BallotsCast, Typed
  <2> QED BY <1>3, <1>4, <2>1, <2>2, VotesTransitive
<1>7. ASSUME NEW m \in Nodes, NEW i \in 1..Len(s.log[m]) 
      PROVE  ~ SameLeader(s.log[m][i], t.vote[n])
  <2>1. VoteLeq(AsVote(s.log[m][i]), s.vote[s.log[m][i].node]) /\ Ranked(s.log[m][i])
    BY DEF LogInv, EntriesSigned, Typed
  <2>2. SUFFICES ASSUME SameLeader(s.log[m][i], t.vote[n]) PROVE FALSE
    OBVIOUS
  <2>3. s.log[m][i].node = n /\ s.log[m][i].term = s.vote[n].term
    BY <1>1, <1>2, <2>2 DEF SameLeader
  <2>4. VoteLeq(AsVote(s.log[m][i]), s.vote[n])
    BY <2>1, <2>3
  <2> QED BY <1>2, <1>3, <2>3, <2>4 DEF VoteLeq, AsVote, LeaderBelow, Ranked
<1>8. \A m \in s.granted[n] : ~ LeaderBelow(t.vote[m], t.vote[n])
  <2> SUFFICES ASSUME NEW m \in s.granted[n] PROVE ~ LeaderBelow(t.vote[m], t.vote[n])
    OBVIOUS
  <2>1. m \in Nodes /\ VoteLeq(s.vote[n], s.vote[m])
    BY <1>2 DEF Typed
  <2>2. VoteLeq(s.vote[n], t.vote[m])
    BY <1>3, <1>4, <2>1, VotesTransitive
  <2> QED BY <1>1, <1>3, <2>1, <2>2 DEF VoteLeq, SameLeader, LeaderBelow, Ranked
<1>9. ASSUME NEW i \in 1..Len(s.log[n]) PROVE ~ LeaderBelow(t.vote[n], s.log[n][i])
  <2>1. VoteLeq(AsVote(s.log[n][i]), s.vote[n]) /\ Ranked(s.log[n][i])
    BY DEF LogInv, EntriesSigned, Typed
  <2> QED BY <1>1, <1>3, <2>1 DEF VoteLeq, AsVote, LeaderBelow, SameLeader, Ranked
<1>10. ASSUME NEW l \in Nodes \ {n}, Writing(s, l), LeaderBelow(s.vote[l], t.vote[n]),
             NEW i \in 1..Len(s.log[l]), SameLeader(s.log[l][i], s.vote[l])
      PROVE  Blocked(t, l, i) \/ (Secure(s, l, i, s.log[l][i]) => Holds(s, n, i, s.log[l][i]))
  <2>0. LeaderBelow(s.vote[l], s.vote[n])
    BY <1>1, <1>10 DEF LeaderBelow, SameLeader
  <2>1. CASE \E m \in s.granted[n] : i <= s.matched[l][m]
    <3>1. PICK m \in s.granted[n] : i <= s.matched[l][m]
      BY <2>1
    <3>2. m \in Nodes
      BY DEF Typed
    <3> QED BY <2>0, <3>1, <3>2 DEF Secure
  <2>2. CASE \A m \in s.granted[n] : ~ (i <= s.matched[l][m])
    <3>1. ASSUME NEW m \in s.granted[n]
          PROVE  t.matched[l][m] < i /\ ~ VoteLeq(t.vote[m], t.vote[l])
      <4>1. m \in Nodes /\ s.matched[l][m] \in Nat /\ i \in Nat
        BY DEF Typed
      <4>2. t.matched[l][m] < i
        BY <1>1, <2>2, <4>1
      <4>3. ~ VoteLeq(t.vote[m], t.vote[l])
        <5>1. LeaderBelow(t.vote[l], t.vote[n]) /\ ~ LeaderBelow(t.vote[m], t.vote[n])
          BY <1>1, <1>8, <1>10
        <5> QED BY <1>3, <4>1, <5>1, VoteAbove
      <4> QED BY <4>2, <4>3
    <3> QED BY <1>1, <3>1 DEF Blocked
  <2> QED BY <2>1, <2>2
<1>11. ASSUME NEW a \in Anchors(s), ~ LeaderBelow(t.vote[n], a.vote)
      PROVE  Holds(s, n, a.index, a.entry)
  <2>1. Ranked(a.vote) /\ a.vote.node \in Nodes /\ a.vote.committed /\ VoteLeq(a.vote, s.vote[a.vote.node])
    BY DEF Anchors, Typed, LogInv, EntriesSigned
  <2>2. LeaderBelow(a.vote, s.vote[n])
    <3>1. ~ SameLeader(a.vote, s.vote[n])
      BY <1>2, <1>3, <2>1 DEF VoteLeq, LeaderBelow, SameLeader, Ranked
    <3>2. ~ LeaderBelow(s.vote[n], a.vote)
      BY <1>1, <1>11 DEF LeaderBelow, SameLeader
    <3> QED BY <1>3, <2>1, <3>1, <3>2, LeadersOrdered
  <2>3. PICK q \in Quorums : \A m \in q : \A c \in Nodes :
          m \in s.granted[c] /\ LeaderBelow(a.vote, s.vote[c]) => Holds(s, c, a.index, a.entry)
    BY DEF LogInv, AnchorsChosen
  <2>4. PICK m \in Nodes : m \in q /\ m \in s.granted[n]
    BY <1>1, QuorumsMeet
  <2> QED BY <2>2, <2>3, <2>4
<1>12. AppendsSafely(s, t, n)
  <2>1. \A m \in Nodes :
       /\ t.matched[n][m] <= Len(s.log[n])
       /\ ~ (t.matched[n][m] > 0)
       /\ \A k \in t.granted[m] : k \in s.granted[m] /\ t.vote[m] = s.vote[m]
    BY <1>1 DEF Typed
  <2>2. Writing(t, n)
    BY <1>1, <1>2 DEF Writing, SameLeader
  <2>3. \E q \in Quorums : \A m \in q : ~ LeaderBelow(t.vote[m], t.vote[n])
    BY <1>1, <1>8
  <2> QED BY <1>1, <1>4, <1>7, <1>9, <1>10, <1>11, <2>1, <2>2, <2>3 DEF AppendsSafely
<1> QED BY <1>5, <1>6, <1>12, AppendKeepsLogInv

-----------------------------------------------------------------------------
(* A node takes over the vote and a part of the log of a leader.           *)

\* f takes over l's vote; its log becomes a part of what it was or of l's, and nothing
\* goes that l has too.
StepTransfer(s, t, l, f) ==
  /\ Writing(s, l)
  /\ l # f
  /\ VoteLeq(s.vote[f], s.vote[l])
  /\ \A m \in Nodes :
       /\ t.vote[m] = IF m = f THEN s.vote[l] ELSE s.vote[m]
       /\ t.granted[m] = IF m = f THEN {} ELSE s.granted[m]
       /\ m # f => t.log[m] = s.log[m] /\ t.committed[m] = s.committed[m]
       /\ m \notin {l, f} => t.matched[m] = s.matched[m]
       /\ m # f => t.matched[l][m] = s.matched[l][m]
  /\ \E k \in {l, f} : \A i \in 1..Len(t.log[f]) : Holds(s, k, i, t.log[f][i])
  /\ \A i \in 1..Len(s.log[f]) :
       Holds(s, l, i, s.log[f][i]) => Holds(t, f, i, s.log[f][i])
  /\ \/ t.matched[l][f] = s.matched[l][f]
     \/ /\ t.matched[l][f] <= Len(s.log[l])
        /\ \A i \in 1..t.matched[l][f] : Holds(t, f, i, s.log[l][i])
  /\ \A i \in 1..t.committed[f] :
       \/ i \in 1..s.committed[f]
       \/ \E d \in s.decided :
            d.index = i /\ Holds(t, f, i, d.entry) /\ VoteLeq(d.vote, s.vote[l])
  /\ t.decided = s.decided

LEMMA TransferKeepsLogInv ==
  ASSUME NEW s, NEW t, NEW l \in Nodes, NEW f \in Nodes, LogInv(s), Typed(t),
         StepTransfer(s, t, l, f)
  PROVE  LogInv(t)
<1> Typed(s)
  BY DEF LogInv
<1>1. /\ Writing(s, l) /\ l # f /\ VoteLeq(s.vote[f], s.vote[l])
      /\ \A m \in Nodes :
           /\ t.vote[m] = IF m = f THEN s.vote[l] ELSE s.vote[m]
           /\ t.granted[m] = IF m = f THEN {} ELSE s.granted[m]
           /\ m # f => t.log[m] = s.log[m] /\ t.committed[m] = s.committed[m]
           /\ m \notin {l, f} => t.matched[m] = s.matched[m]
           /\ m # f => t.matched[l][m] = s.matched[l][m]
      /\ \A i \in 1..Len(s.log[f]) :
           Holds(s, l, i, s.log[f][i]) => Holds(t, f, i, s.log[f][i])
      /\ t.decided = s.decided
  BY DEF StepTransfer
<1>2. \A m \in Nodes : Ranked(s.vote[m]) /\ Ranked(t.vote[m]) /\ VoteLeq(s.vote[m], t.vote[m])
  BY <1>1 DEF Typed, VoteLeq, SameLeader
<1>3. ASSUME NEW c \in Nodes, t.granted[c] # {}
      PROVE  c # f /\ t.vote[c] = s.vote[c] /\ t.granted[c] = s.granted[c] /\ t.log[c] = s.log[c]
  BY <1>1, <1>3
<1>4. ASSUME NEW x \in Nodes, Writing(t, x)
      PROVE  x # f /\ Writing(s, x) /\ t.vote[x] = s.vote[x] /\ t.log[x] = s.log[x]
  BY <1>1, <1>4 DEF Writing
\* What a node has in t, it or l had in s.
<1>5. ASSUME NEW m \in Nodes
      PROVE  \E k \in {l, m} : /\ k \in Nodes
                               /\ VoteLeq(s.vote[k], t.vote[m])
                               /\ \A i \in 1..Len(t.log[m]) : Holds(s, k, i, t.log[m][i])
  <2>1. CASE m = f
    BY <1>1, <1>2, <2>1 DEF StepTransfer, VoteLeq, SameLeader
  <2>2. CASE m # f
    BY <1>1, <1>2, <2>2 DEF Holds
  <2> QED BY <2>1, <2>2
\* What a node has in s and l has too, it has in t.
<1>6. ASSUME NEW m \in Nodes, NEW i, NEW e, Holds(s, m, i, e), m = f => Holds(s, l, i, e)
      PROVE  Holds(t, m, i, e)
  BY <1>1, <1>6 DEF Holds
<1>7. VotesOwned(t)
  <2> SUFFICES ASSUME NEW m \in Nodes, t.vote[m].node \in Nodes
               PROVE  VoteLeq(t.vote[m], t.vote[t.vote[m].node])
    BY DEF VotesOwned
  <2>1. PICK j \in Nodes : t.vote[m] = s.vote[j]
    BY <1>1
  <2> DEFINE k == s.vote[j].node
  <2>2. VoteLeq(s.vote[j], s.vote[k]) /\ k \in Nodes
    BY <2>1 DEF LogInv, VotesOwned
  <2> QED BY <1>2, <2>1, <2>2, VotesTransitive
<1>8. BallotsCast(t)
  <2> SUFFICES ASSUME NEW c \in Nodes, t.granted[c] # {}
               PROVE  /\ c \in t.granted[c]
                      /\ t.vote[c].node = c
                      /\ ~ t.vote[c].committed
                      /\ \A m \in t.granted[c] : VoteLeq(t.vote[c], t.vote[m])
    BY DEF BallotsCast
  <2>1. c # f /\ t.vote[c] = s.vote[c] /\ t.granted[c] = s.granted[c]
    BY <1>3
  <2>2. /\ c \in s.granted[c]
        /\ s.vote[c].node = c
        /\ ~ s.vote[c].committed
        /\ \A m \in s.granted[c] : m \in Nodes /\ VoteLeq(s.vote[c], s.vote[m])
    BY <2>1 DEF LogInv, BallotsCast, Typed
  <2> QED BY <1>2, <2>1, <2>2, VotesTransitive
<1>9. EntriesSigned(t)
  <2>1. ASSUME NEW m \in Nodes, NEW i \in 1..Len(t.log[m])
        PROVE  /\ t.log[m][i].node \in Nodes
               /\ VoteLeq(AsVote(t.log[m][i]), t.vote[m])
               /\ VoteLeq(AsVote(t.log[m][i]), t.vote[t.log[m][i].node])
    <3>1. PICK k \in Nodes : VoteLeq(s.vote[k], t.vote[m]) /\ Holds(s, k, i, t.log[m][i])
      BY <1>5
    <3>2. Ranked(AsVote(t.log[m][i]))
      BY <2>1 DEF Typed, Ranked, AsVote
    <3>3. /\ t.log[m][i].node \in Nodes
          /\ VoteLeq(AsVote(t.log[m][i]), s.vote[k])
          /\ VoteLeq(AsVote(t.log[m][i]), s.vote[t.log[m][i].node])
      BY <3>1 DEF LogInv, EntriesSigned, Holds
    <3> QED BY <1>2, <3>1, <3>2, <3>3, VotesTransitive
  <2>2. ASSUME NEW d \in t.decided
        PROVE  d.vote.node \in Nodes /\ d.vote.committed /\ VoteLeq(d.vote, t.vote[d.vote.node])
    BY <1>1, <1>2, VotesTransitive DEF LogInv, EntriesSigned, Typed
  <2> QED BY <2>1, <2>2 DEF EntriesSigned
<1>10. WritersElected(t)
  <2> SUFFICES ASSUME NEW m \in Nodes, NEW i \in 1..Len(t.log[m])
               PROVE  \E q \in Quorums : \A j \in q : ~ LeaderBelow(t.vote[j], t.log[m][i])
    BY DEF WritersElected
  <2>1. PICK k \in Nodes : Holds(s, k, i, t.log[m][i])
    BY <1>5
  <2>2. PICK q \in Quorums : \A j \in q : ~ LeaderBelow(s.vote[j], t.log[m][i])
    BY <2>1 DEF LogInv, WritersElected, Holds
  <2>3. ASSUME NEW j \in q PROVE ~ LeaderBelow(t.vote[j], t.log[m][i])
    <3>1. j \in Nodes /\ Ranked(t.log[m][i])
      BY <2>1, QuorumsOfNodes DEF Typed
    <3>2. VoteLeq(s.vote[j], t.vote[j]) /\ Ranked(s.vote[j]) /\ Ranked(t.vote[j])
      BY <1>2, <3>1
    <3> QED BY <2>2, <3>1, <3>2 DEF VoteLeq, LeaderBelow, SameLeader, Ranked
  <2> QED BY <2>3
<1>11. LeadersAhead(t)
  <2> SUFFICES ASSUME NEW x \in Nodes, Writing(t, x)
               PROVE  /\ Len(t.log[x]) > 0
                      /\ SameLeader(t.log[x][Len(t.log[x])], t.vote[x])
                      /\ \A m \in Nodes :
                           /\ t.matched[x][m] <= Len(t.log[x])
                           /\ t.matched[x][m] > 0 => VoteLeq(t.vote[x], t.vote[m])
    BY DEF LeadersAhead
  <2>1. x # f /\ Writing(s, x) /\ t.log[x] = s.log[x] /\ t.vote[x] = s.vote[x]
    BY <1>4
  <2>2. /\ Len(s.log[x]) > 0
        /\ SameLeader(s.log[x][Len(s.log[x])], s.vote[x])
        /\ \A m \in Nodes :
             /\ s.matched[x][m] <= Len(s.log[x])
             /\ s.matched[x][m] > 0 => VoteLeq(s.vote[x], s.vote[m])
    BY <2>1 DEF LogInv, LeadersAhead
  <2>3. ASSUME NEW m \in Nodes
        PROVE  /\ t.matched[x][m] <= Len(t.log[x])
               /\ t.matched[x][m] > 0 => VoteLeq(t.vote[x], t.vote[m])
    <3>1. CASE t.matched[x][m] = s.matched[x][m]
      BY <1>2, <2>1, <2>2, <3>1, VotesTransitive
    <3>2. CASE x = l /\ m = f /\ t.matched[l][f] <= Len(s.log[l])
      BY <1>1, <2>1, <3>2 DEF VoteLeq, SameLeader
    <3>3. x # l => t.matched[x] = s.matched[x]
      BY <1>1, <2>1
    <3>4. m # f => t.matched[l][m] = s.matched[l][m]
      BY <1>1
    <3>5. t.matched[l][f] = s.matched[l][f] \/ t.matched[l][f] <= Len(s.log[l])
      BY DEF StepTransfer
    <3> QED BY <3>1, <3>2, <3>3, <3>4, <3>5
  <2> QED BY <2>1, <2>2, <2>3
<1>12. LogsOrdered(t)
  <2> SUFFICES ASSUME NEW m \in Nodes, NEW i \in 1..Len(t.log[m]), NEW j \in 1..Len(t.log[m]), i <= j
               PROVE  ~ LeaderBelow(t.log[m][j], t.log[m][i])
    BY DEF LogsOrdered
  <2>1. PICK k \in Nodes : Holds(s, k, i, t.log[m][i]) /\ Holds(s, k, j, t.log[m][j])
    BY <1>5
  <2> QED BY <2>1 DEF LogInv, LogsOrdered, Holds
<1>13. LogsMatch(t)
  <2> SUFFICES ASSUME NEW n \in Nodes, NEW m \in Nodes, NEW i \in 1..Len(t.log[n]),
                      Holds(t, m, i, t.log[n][i]), NEW j \in 1..i
               PROVE  t.log[n][j] = t.log[m][j]
    BY DEF LogsMatch
  <2>1. i \in 1..Len(t.log[m]) /\ j \in 1..Len(t.log[m]) /\ j \in 1..Len(t.log[n])
        /\ t.log[m][i] = t.log[n][i]
    <3>1. i \in 1..Len(t.log[m]) /\ t.log[m][i] = t.log[n][i]
      BY DEF Holds
    <3> QED BY <3>1 DEF Typed
  <2>2. PICK k \in Nodes : Holds(s, k, i, t.log[n][i]) /\ Holds(s, k, j, t.log[n][j])
    BY <1>5, <2>1
  <2>3. PICK h \in Nodes : Holds(s, h, i, t.log[m][i]) /\ Holds(s, h, j, t.log[m][j])
    BY <1>5, <2>1
  <2>4. s.log[k][j] = s.log[h][j]
    BY <2>1, <2>2, <2>3 DEF LogInv, LogsMatch, Holds
  <2> QED BY <2>2, <2>3, <2>4 DEF Holds
<1>14. WritersHold(t)
  <2> SUFFICES ASSUME NEW x \in Nodes, Writing(t, x), NEW m \in Nodes, NEW i \in 1..Len(t.log[m]),
                      SameLeader(t.log[m][i], t.vote[x])
               PROVE  Holds(t, x, i, t.log[m][i])
    BY DEF WritersHold
  <2>1. Writing(s, x) /\ t.vote[x] = s.vote[x] /\ t.log[x] = s.log[x]
    BY <1>4
  <2>2. PICK k \in Nodes : Holds(s, k, i, t.log[m][i])
    BY <1>5
  <2>3. Holds(s, x, i, t.log[m][i])
    BY <2>1, <2>2 DEF LogInv, WritersHold, Holds
  <2> QED BY <2>1, <2>3 DEF Holds
\* An entry of l below an entry of a later leader.
<1>15. ASSUME NEW m \in Nodes, NEW k \in 1..Len(t.log[m]), NEW i, NEW e, Ranked(e),
              LeaderBelow(e, t.log[m][k]) \/ i <= k,
              \A h \in Nodes : Holds(s, h, k, t.log[m][k]) => Holds(s, h, i, e)
       PROVE  Holds(t, m, i, e)
  <2>1. PICK h \in Nodes : \A j \in 1..Len(t.log[m]) : Holds(s, h, j, t.log[m][j])
    BY <1>5
  <2>2. Holds(s, h, k, t.log[m][k]) /\ Holds(s, h, i, e)
    BY <1>15, <2>1
  <2>3. k \in 1..Len(s.log[h]) /\ s.log[h][k] = t.log[m][k]
        /\ i \in 1..Len(s.log[h]) /\ s.log[h][i] = e
    BY <2>2 DEF Holds
  <2>4. i <= k
    <3>1. k <= i => ~ LeaderBelow(e, t.log[m][k])
      BY <2>3 DEF LogInv, LogsOrdered
    <3> QED BY <1>15, <2>3, <3>1
  <2>5. i \in 1..Len(t.log[m])
    BY <2>3, <2>4 DEF Typed
  <2> QED BY <2>1, <2>3, <2>5 DEF Holds
<1>16. AnchorsHeld(t)
  <2> SUFFICES ASSUME NEW a \in Anchors(s), NEW m \in Nodes, NEW k \in 1..Len(t.log[m]),
                      LeaderBelow(a.vote, t.log[m][k])
                        \/ (SameLeader(a.vote, t.log[m][k]) /\ a.index <= k)
               PROVE  Holds(t, m, a.index, a.entry)
    BY <1>1 DEF AnchorsHeld, Anchors
  <2>1. Ranked(a.entry) /\ SameLeader(a.entry, a.vote)
    BY DEF Anchors, Typed
  <2>2. LeaderBelow(a.entry, t.log[m][k]) \/ a.index <= k
    BY <2>1 DEF LeaderBelow, SameLeader
  <2>3. \A h \in Nodes : Holds(s, h, k, t.log[m][k]) => Holds(s, h, a.index, a.entry)
    BY DEF LogInv, AnchorsHeld, Holds
  <2> QED BY <1>15, <2>1, <2>2, <2>3
<1>17. DecidedAnchored(t)
  <2> SUFFICES ASSUME NEW d \in s.decided
               PROVE  \E a \in Anchors(s) :
                        /\ a.vote = d.vote
                        /\ d.index <= a.index
                        /\ \A m \in Nodes : Holds(t, m, a.index, a.entry) =>
                                            Holds(t, m, d.index, d.entry)
    BY <1>1 DEF DecidedAnchored, Anchors
  <2>1. PICK a \in Anchors(s) :
          /\ a.vote = d.vote
          /\ d.index <= a.index
          /\ \A m \in Nodes : Holds(s, m, a.index, a.entry) => Holds(s, m, d.index, d.entry)
    BY DEF LogInv, DecidedAnchored
  <2>2. ASSUME NEW m \in Nodes, Holds(t, m, a.index, a.entry)
        PROVE  Holds(t, m, d.index, d.entry)
    <3>1. a.index \in 1..Len(t.log[m]) /\ t.log[m][a.index] = a.entry /\ Ranked(d.entry)
      BY <2>2 DEF Holds, Typed
    <3> QED BY <1>15, <2>1, <3>1
  <2> QED BY <2>1, <2>2
<1>18. AnchorsChosen(t)
  <2> SUFFICES ASSUME NEW a \in Anchors(s)
               PROVE  \E q \in Quorums : \A m \in q :
                        /\ VoteLeq(a.vote, t.vote[m])
                        /\ Holds(t, m, a.index, a.entry)
                        /\ \A c \in Nodes : m \in t.granted[c] /\ LeaderBelow(a.vote, t.vote[c]) =>
                             Holds(t, c, a.index, a.entry)
    BY <1>1 DEF AnchorsChosen, Anchors
  <2>1. PICK q \in Quorums : \A m \in q :
          /\ VoteLeq(a.vote, s.vote[m])
          /\ Holds(s, m, a.index, a.entry)
          /\ \A c \in Nodes : m \in s.granted[c] /\ LeaderBelow(a.vote, s.vote[c]) =>
               Holds(s, c, a.index, a.entry)
    BY DEF LogInv, AnchorsChosen
  <2>2. ASSUME NEW m \in q
        PROVE  m \in Nodes /\ VoteLeq(a.vote, t.vote[m]) /\ Holds(t, m, a.index, a.entry)
    <3>1. m \in Nodes /\ Ranked(a.vote) /\ a \in s.decided
      BY QuorumsOfNodes DEF Anchors, Typed
    <3>2. VoteLeq(a.vote, t.vote[m])
      BY <1>2, <2>1, <3>1, VotesTransitive
    <3>3. m = f => Holds(s, l, a.index, a.entry)
      <4>1. m = f => VoteLeq(a.vote, s.vote[l])
        BY <1>1, <3>2
      <4>2. m = f => ~ LeaderBelow(s.vote[l], a.vote)
        BY <1>2, <3>1, <4>1 DEF VoteLeq, LeaderBelow, SameLeader, Ranked
      <4> QED BY <1>1, <3>1, <4>2, LeaderHasDecided
    <3> QED BY <1>6, <2>1, <3>1, <3>2, <3>3
  <2>3. ASSUME NEW m \in q, NEW c \in Nodes, m \in t.granted[c], LeaderBelow(a.vote, t.vote[c])
        PROVE  Holds(t, c, a.index, a.entry)
    <3>1. t.granted[c] = s.granted[c] /\ t.vote[c] = s.vote[c] /\ t.log[c] = s.log[c]
      BY <1>3, <2>3
    <3>2. Holds(s, c, a.index, a.entry)
      BY <2>1, <2>3, <3>1
    <3> QED BY <3>1, <3>2 DEF Holds
  <2> QED BY <2>1, <2>2, <2>3
<1>19. CommittedDecided(t)
  <2> SUFFICES ASSUME NEW m \in Nodes, NEW i \in 1..t.committed[m]
               PROVE  \E d \in s.decided :
                        d.index = i /\ Holds(t, m, i, d.entry) /\ VoteLeq(d.vote, t.vote[m])
    BY <1>1 DEF CommittedDecided
  <2>1. CASE i \in 1..s.committed[m]
    <3>1. PICK d \in s.decided : d.index = i /\ Holds(s, m, i, d.entry) /\ VoteLeq(d.vote, s.vote[m])
      BY <2>1 DEF LogInv, CommittedDecided
    <3>2. Ranked(d.vote)
      BY DEF Typed
    <3>3. VoteLeq(d.vote, t.vote[m])
      BY <1>2, <3>1, <3>2, VotesTransitive
    <3>4. m = f => Holds(s, l, i, d.entry)
      <4>1. m = f => VoteLeq(d.vote, s.vote[l])
        BY <1>1, <3>3
      <4>2. m = f => ~ LeaderBelow(s.vote[l], d.vote)
        BY <1>2, <3>2, <4>1 DEF VoteLeq, LeaderBelow, SameLeader, Ranked
      <4> QED BY <1>1, <3>1, <4>2, LeaderHasDecided
    <3> QED BY <1>6, <3>1, <3>3, <3>4
  <2>2. CASE m = f /\ i \notin 1..s.committed[f]
    BY <1>1, <2>2 DEF StepTransfer
  <2> QED BY <1>1, <2>1, <2>2
<1>20. EntriesSecure(t)
  <2> SUFFICES ASSUME NEW x \in Nodes, Writing(t, x), NEW i \in 1..Len(t.log[x]),
                      SameLeader(t.log[x][i], t.vote[x]), ~ Blocked(t, x, i)
               PROVE  Secure(t, x, i, t.log[x][i])
    BY DEF EntriesSecure
  <2> DEFINE e == s.log[x][i]
  <2>1. x # f /\ Writing(s, x) /\ t.vote[x] = s.vote[x] /\ t.log[x] = s.log[x]
    BY <1>4
  <2>2. i \in 1..Len(s.log[x]) /\ SameLeader(e, s.vote[x]) /\ Holds(s, x, i, e)
        /\ i \in Nat /\ i > 0 /\ Ranked(e)
        /\ \A m \in Nodes : s.matched[x][m] \in Nat
    BY <2>1 DEF Holds, Typed
  <2> HIDE DEF e
  <2>3. Secure(s, x, i, e)
    <3>1. ~ Blocked(s, x, i)
      <4>1. ASSUME NEW m \in Nodes
            PROVE  VoteLeq(s.vote[m], s.vote[x]) \/ t.matched[x][m] <= s.matched[x][m]
        <5>1. s.matched[x][m] <= s.matched[x][m]
          BY <2>2
        <5>2. x = l /\ m = f => VoteLeq(s.vote[m], s.vote[x])
          BY <1>1
        <5> QED BY <1>1, <2>1, <5>1, <5>2
      <4> QED BY <1>2, <2>1, <2>2, <4>1, BlockedStays
    <3> QED BY <2>1, <2>2, <3>1 DEF LogInv, EntriesSecure, e
  <2>4. LeaderBelow(s.vote[x], s.vote[l]) => Holds(s, l, i, e)
    <3> DEFINE L == Len(s.log[l])
    <3>1. L > 0 /\ SameLeader(s.log[l][L], s.vote[l])
      BY <1>1 DEF LogInv, LeadersAhead
    <3>2. L \in 1..Len(s.log[l])
      BY <3>1 DEF Typed
    <3>3. LeaderBelow(s.vote[x], s.vote[l]) => LeaderBelow(s.vote[x], s.log[l][L])
      BY <3>1 DEF SameLeader, LeaderBelow
    <3> QED BY <2>3, <3>2, <3>3 DEF Secure
  <2>5. ASSUME NEW m \in Nodes, i <= t.matched[x][m] PROVE Holds(t, m, i, e)
    <3>1. CASE i <= s.matched[x][m]
      <4>1. Holds(s, m, i, e)
        BY <2>3, <3>1 DEF Secure
      <4>2. VoteLeq(s.vote[x], s.vote[m])
        <5>1. s.matched[x][m] > 0
          BY <2>2, <3>1
        <5> QED BY <2>1, <5>1 DEF LogInv, LeadersAhead
      <4>3. m = f => Holds(s, l, i, e)
        <5>1. CASE x = l
          BY <2>2, <5>1
        <5>2. CASE x # l /\ m = f
          <6>1. VoteLeq(s.vote[x], s.vote[l])
            BY <1>1, <1>2, <4>2, <5>2, VotesTransitive
          <6>2. LeaderBelow(s.vote[x], s.vote[l])
            BY <1>1, <2>1, <5>2, <6>1 DEF VoteLeq, SameLeader, Writing
          <6> QED BY <2>4, <6>2
        <5> QED BY <5>1, <5>2
      <4> QED BY <1>6, <4>1, <4>3
    <3>2. CASE ~ (i <= s.matched[x][m])
      <4>1. x = l /\ m = f /\ ~ (t.matched[l][f] = s.matched[l][f])
        BY <1>1, <2>1, <2>5, <3>2
      <4>2. \A j \in 1..t.matched[l][f] : Holds(t, f, j, s.log[l][j])
        BY <4>1 DEF StepTransfer
      <4>3. i \in 1..t.matched[l][f]
        BY <2>2, <2>5, <4>1 DEF Typed
      <4> QED BY <4>1, <4>2, <4>3 DEF e
    <3> QED BY <3>1, <3>2
  <2>6. ASSUME NEW m \in Nodes, NEW k \in 1..Len(t.log[m]), LeaderBelow(t.vote[x], t.log[m][k])
        PROVE  Holds(t, m, i, e)
    <3>1. LeaderBelow(e, t.log[m][k])
      BY <2>1, <2>2, <2>6 DEF LeaderBelow, SameLeader
    <3>2. \A h \in Nodes : Holds(s, h, k, t.log[m][k]) => Holds(s, h, i, e)
      BY <2>1, <2>3, <2>6 DEF Secure, Holds
    <3> QED BY <1>15, <2>2, <3>1, <3>2
  <2>7. ASSUME NEW c \in Nodes, NEW m \in Nodes, m \in t.granted[c],
               LeaderBelow(t.vote[x], t.vote[c]), i <= t.matched[x][m]
        PROVE  Holds(t, c, i, e)
    <3>1. /\ t.granted[c] = s.granted[c] /\ t.vote[c] = s.vote[c] /\ t.log[c] = s.log[c]
          /\ s.granted[c] # {}
      BY <1>3, <2>7
    <3>2. CASE i <= s.matched[x][m]
      <4>1. Holds(s, c, i, e)
        BY <2>1, <2>3, <2>7, <3>1, <3>2 DEF Secure
      <4> QED BY <3>1, <4>1 DEF Holds
    <3>3. CASE ~ (i <= s.matched[x][m])
      <4>1. x = l /\ m = f
        BY <1>1, <2>1, <2>7, <3>3
      <4>2. VoteLeq(s.vote[c], s.vote[l])
        <5>1. VoteLeq(s.vote[c], s.vote[f])
          BY <2>7, <3>1, <4>1 DEF LogInv, BallotsCast
        <5> QED BY <1>1, <1>2, <5>1, VotesTransitive
      <4>3. LeaderBelow(s.vote[l], s.vote[c])
        BY <2>1, <2>7, <3>1, <4>1
      <4> QED BY <1>2, <4>2, <4>3 DEF VoteLeq, LeaderBelow, SameLeader, Ranked
    <3> QED BY <3>2, <3>3
  <2>8. t.log[x][i] = e
    BY <2>1 DEF e
  <2> QED BY <2>5, <2>6, <2>7, <2>8 DEF Secure
<1> QED
  BY <1>1, <1>7, <1>8, <1>9, <1>10, <1>11, <1>12, <1>13, <1>14, <1>16, <1>17, <1>18, <1>19, <1>20
     DEF LogInv

-----------------------------------------------------------------------------
(* A leader commits what a quorum has.                                     *)

\* l takes what it has up to ci for committed: a quorum has the entry there, its own.
StepCommit(s, t, l, ci) ==
  /\ Writing(s, l)
  /\ ci \in 1..Len(s.log[l])
  /\ SameLeader(s.log[l][ci], s.vote[l])
  /\ \E q \in Quorums : \A m \in q : m = l \/ ci <= s.matched[l][m]
  /\ s.decided \subseteq t.decided
  /\ \A d \in t.decided \ s.decided :
       d.index \in 1..ci /\ d.entry = s.log[l][d.index] /\ d.vote = s.vote[l]
  /\ \E d \in t.decided : d.index = ci /\ d.entry = s.log[l][ci] /\ d.vote = s.vote[l]
  /\ \A i \in 1..ci : \E d \in t.decided :
       d.index = i /\ d.entry = s.log[l][i] /\ VoteLeq(d.vote, s.vote[l])
  /\ \A m \in Nodes : t.committed[m] = IF m = l THEN ci ELSE s.committed[m]
  /\ t.vote = s.vote /\ t.log = s.log /\ t.granted = s.granted /\ t.matched = s.matched

LEMMA CommitKeepsLogInv ==
  ASSUME NEW s, NEW t, NEW l \in Nodes, NEW ci, LogInv(s), Typed(t), StepCommit(s, t, l, ci)
  PROVE  LogInv(t)
<1> Typed(s)
  BY DEF LogInv
<1>1. /\ Writing(s, l)
      /\ ci \in 1..Len(s.log[l])
      /\ SameLeader(s.log[l][ci], s.vote[l])
      /\ s.decided \subseteq t.decided
      /\ \A d \in t.decided \ s.decided :
           d.index \in 1..ci /\ d.entry = s.log[l][d.index] /\ d.vote = s.vote[l]
      /\ \A m \in Nodes : t.committed[m] = IF m = l THEN ci ELSE s.committed[m]
      /\ t.vote = s.vote /\ t.log = s.log /\ t.granted = s.granted /\ t.matched = s.matched
      /\ Len(s.log[l]) \in Nat /\ ci \in Nat
  BY DEF StepCommit, Typed
<1>2. \A m, i, e : Holds(t, m, i, e) <=> Holds(s, m, i, e)
  BY <1>1 DEF Holds
<1>3. PICK q \in Quorums : \A m \in q : m = l \/ ci <= s.matched[l][m]
  BY DEF StepCommit
<1>4. ASSUME NEW i \in 1..ci, SameLeader(s.log[l][i], s.vote[l])
      PROVE  i \in 1..Len(s.log[l]) /\ i \in Nat /\ i > 0 /\ Secure(s, l, i, s.log[l][i])
  <2>1. i \in 1..Len(s.log[l]) /\ i \in Nat /\ i > 0 /\ i <= ci
    BY <1>1
  <2>2. ~ Blocked(s, l, i)
    <3>1. SUFFICES ASSUME NEW r \in Quorums,
                          \A m \in r : s.matched[l][m] < i /\ ~ VoteLeq(s.vote[m], s.vote[l])
                   PROVE  FALSE
      BY DEF Blocked
    <3>2. PICK m \in Nodes : m \in q /\ m \in r
      BY QuorumsMeet
    <3>3. s.matched[l][m] < i /\ s.matched[l][m] \in Nat
      BY <3>1, <3>2 DEF Typed
    <3>4. m = l
      BY <1>1, <1>3, <2>1, <3>2, <3>3
    <3> QED BY <3>1, <3>2, <3>4 DEF VoteLeq, SameLeader
  <2> QED BY <1>1, <1>4, <2>1, <2>2 DEF LogInv, EntriesSecure
<1>5. /\ VotesOwned(t) /\ BallotsCast(t) /\ WritersElected(t) /\ LeadersAhead(t)
      /\ LogsOrdered(t) /\ LogsMatch(t) /\ WritersHold(t)
  BY <1>1, <1>2 DEF LogInv, VotesOwned, BallotsCast, WritersElected, LeadersAhead, LogsOrdered,
                    LogsMatch, WritersHold, Writing
<1>6. EntriesSecure(t)
  <2>1. \A x \in Nodes : \A i : Blocked(t, x, i) <=> Blocked(s, x, i)
    BY <1>1 DEF Blocked
  <2>2. \A x \in Nodes : \A i, e : Secure(t, x, i, e) <=> Secure(s, x, i, e)
    BY <1>1, <1>2 DEF Secure
  <2> QED BY <1>1, <2>1, <2>2 DEF LogInv, EntriesSecure, Writing
<1>7. EntriesSigned(t)
  <2>1. ASSUME NEW d \in t.decided
        PROVE  d.vote.node \in Nodes /\ d.vote.committed /\ VoteLeq(d.vote, t.vote[d.vote.node])
    <3>1. CASE d \in s.decided
      BY <1>1, <3>1 DEF LogInv, EntriesSigned
    <3>2. CASE d \notin s.decided
      BY <1>1, <3>2 DEF Writing, VoteLeq, SameLeader
    <3> QED BY <3>1, <3>2
  <2> QED BY <1>1, <2>1 DEF LogInv, EntriesSigned
<1>8. ASSUME NEW a \in Anchors(t)
      PROVE  \/ a \in Anchors(s)
             \/ /\ a.index \in 1..ci /\ a.vote = s.vote[l]
                /\ a.entry = s.log[l][a.index]
                /\ a.index \in 1..Len(s.log[l])
                /\ SameLeader(a.entry, s.vote[l])
                /\ Secure(s, l, a.index, a.entry)
  BY <1>1, <1>4 DEF Anchors
<1>9. AnchorsHeld(t)
  <2> SUFFICES ASSUME NEW a \in Anchors(t), NEW m \in Nodes, NEW k \in 1..Len(s.log[m]),
                      LeaderBelow(a.vote, s.log[m][k])
                        \/ (SameLeader(a.vote, s.log[m][k]) /\ a.index <= k)
               PROVE  Holds(s, m, a.index, a.entry)
    BY <1>1, <1>2 DEF AnchorsHeld
  <2>1. CASE a \in Anchors(s)
    BY <2>1 DEF LogInv, AnchorsHeld
  <2>2. CASE a \notin Anchors(s)
    <3>1. /\ a.vote = s.vote[l] /\ a.entry = s.log[l][a.index]
          /\ a.index \in 1..Len(s.log[l])
          /\ Secure(s, l, a.index, a.entry)
      BY <1>8, <2>2
    <3>2. CASE LeaderBelow(a.vote, s.log[m][k])
      BY <3>1, <3>2 DEF Secure
    <3>3. CASE SameLeader(a.vote, s.log[m][k]) /\ a.index <= k
      <4>1. Holds(s, l, k, s.log[m][k])
        BY <1>1, <3>1, <3>3 DEF LogInv, WritersHold, SameLeader
      <4>2. a.index \in 1..k
        BY <3>1, <3>3
      <4>3. s.log[m][a.index] = s.log[l][a.index]
        BY <4>1, <4>2 DEF LogInv, LogsMatch
      <4>4. a.index \in 1..Len(s.log[m])
        BY <3>1, <3>3 DEF Typed
      <4> QED BY <3>1, <4>3, <4>4 DEF Holds
    <3> QED BY <3>2, <3>3
  <2> QED BY <2>1, <2>2
<1>10. AnchorsChosen(t)
  <2> SUFFICES ASSUME NEW a \in Anchors(t)
               PROVE  \E r \in Quorums : \A m \in r :
                        /\ VoteLeq(a.vote, s.vote[m])
                        /\ Holds(s, m, a.index, a.entry)
                        /\ \A c \in Nodes : m \in s.granted[c] /\ LeaderBelow(a.vote, s.vote[c]) =>
                             Holds(s, c, a.index, a.entry)
    BY <1>1, <1>2 DEF AnchorsChosen
  <2>1. CASE a \in Anchors(s)
    BY <2>1 DEF LogInv, AnchorsChosen
  <2>2. CASE a \notin Anchors(s)
    <3>1. /\ a.vote = s.vote[l] /\ a.entry = s.log[l][a.index]
          /\ a.index \in 1..Len(s.log[l]) /\ a.index \in 1..ci
          /\ Secure(s, l, a.index, a.entry)
      BY <1>8, <2>2
    <3>2. ASSUME NEW m \in q
          PROVE  /\ VoteLeq(a.vote, s.vote[m])
                 /\ Holds(s, m, a.index, a.entry)
                 /\ \A c \in Nodes : m \in s.granted[c] /\ LeaderBelow(a.vote, s.vote[c]) =>
                      Holds(s, c, a.index, a.entry)
      <4>1. m \in Nodes
        BY QuorumsOfNodes
      <4>2. CASE m = l
        <5>1. ASSUME NEW c \in Nodes, m \in s.granted[c], LeaderBelow(a.vote, s.vote[c])
              PROVE  FALSE
          <6>1. VoteLeq(s.vote[c], s.vote[l]) /\ LeaderBelow(s.vote[l], s.vote[c])
            BY <3>1, <4>2, <5>1 DEF LogInv, BallotsCast
          <6>2. Ranked(s.vote[c]) /\ Ranked(s.vote[l])
            BY DEF Typed
          <6> QED BY <6>1, <6>2 DEF VoteLeq, LeaderBelow, SameLeader, Ranked
        <5> QED BY <3>1, <4>2, <5>1 DEF Holds, VoteLeq, SameLeader
      <4>3. CASE m # l
        <5>1. a.index <= s.matched[l][m] /\ s.matched[l][m] > 0
          BY <1>1, <1>3, <3>1, <4>1, <4>3 DEF Typed
        <5>2. VoteLeq(s.vote[l], s.vote[m])
          BY <1>1, <4>1, <5>1 DEF LogInv, LeadersAhead
        <5> QED BY <3>1, <4>1, <5>1, <5>2 DEF Secure
      <4> QED BY <4>2, <4>3
    <3> QED BY <3>2
  <2> QED BY <2>1, <2>2
<1>11. DecidedAnchored(t)
  <2> SUFFICES ASSUME NEW d \in t.decided
               PROVE  \E a \in Anchors(t) :
                        /\ a.vote = d.vote
                        /\ d.index <= a.index
                        /\ \A m \in Nodes : Holds(s, m, a.index, a.entry) =>
                                            Holds(s, m, d.index, d.entry)
    BY <1>2 DEF DecidedAnchored
  <2>1. CASE d \in s.decided
    <3>1. PICK a \in Anchors(s) :
            /\ a.vote = d.vote
            /\ d.index <= a.index
            /\ \A m \in Nodes : Holds(s, m, a.index, a.entry) => Holds(s, m, d.index, d.entry)
      BY <2>1 DEF LogInv, DecidedAnchored
    <3>2. a \in Anchors(t)
      BY <1>1 DEF Anchors
    <3> QED BY <3>1, <3>2
  <2>2. CASE d \notin s.decided
    <3>1. d.index \in 1..ci /\ d.entry = s.log[l][d.index] /\ d.vote = s.vote[l]
      BY <1>1, <2>2
    <3>2. PICK a \in t.decided : a.index = ci /\ a.entry = s.log[l][ci] /\ a.vote = s.vote[l]
      BY DEF StepCommit
    <3>3. a \in Anchors(t)
      BY <1>1, <3>2 DEF Anchors
    <3>4. ASSUME NEW m \in Nodes, Holds(s, m, ci, s.log[l][ci]) PROVE Holds(s, m, d.index, d.entry)
      <4>1. s.log[l][d.index] = s.log[m][d.index]
        BY <1>1, <3>1, <3>4 DEF LogInv, LogsMatch
      <4>2. d.index \in 1..Len(s.log[m])
        <5>1. ci \in 1..Len(s.log[m]) /\ Len(s.log[m]) \in Nat
          BY <3>4 DEF Holds, Typed
        <5> QED BY <1>1, <3>1, <5>1
      <4> QED BY <3>1, <4>1, <4>2 DEF Holds
    <3> QED BY <1>1, <3>1, <3>2, <3>3, <3>4
  <2> QED BY <2>1, <2>2
<1>12. CommittedDecided(t)
  <2> SUFFICES ASSUME NEW m \in Nodes, NEW i \in 1..t.committed[m]
               PROVE  \E d \in t.decided :
                        d.index = i /\ Holds(s, m, i, d.entry) /\ VoteLeq(d.vote, s.vote[m])
    BY <1>1, <1>2 DEF CommittedDecided
  <2>1. CASE m = l
    <3>1. i \in 1..ci /\ i \in 1..Len(s.log[l])
      BY <1>1, <2>1
    <3>2. PICK d \in t.decided :
            d.index = i /\ d.entry = s.log[l][i] /\ VoteLeq(d.vote, s.vote[l])
      BY <3>1 DEF StepCommit
    <3> QED BY <2>1, <3>1, <3>2 DEF Holds
  <2>2. CASE m # l
    BY <1>1, <2>2 DEF LogInv, CommittedDecided
  <2> QED BY <2>1, <2>2
<1> QED
  BY <1>5, <1>6, <1>7, <1>9, <1>10, <1>11, <1>12 DEF LogInv

\* Two decided entries at one index are the same.
LEMMA DecidedAgree ==
  ASSUME NEW s, LogInv(s), NEW d \in s.decided, NEW e \in s.decided, d.index = e.index
  PROVE  d.entry = e.entry
<1>1. PICK a \in Anchors(s) :
        \A n \in Nodes : Holds(s, n, a.index, a.entry) => Holds(s, n, d.index, d.entry)
  BY DEF LogInv, DecidedAnchored
<1>2. PICK b \in Anchors(s) :
        \A n \in Nodes : Holds(s, n, b.index, b.entry) => Holds(s, n, e.index, e.entry)
  BY DEF LogInv, DecidedAnchored
<1>3. PICK q \in Quorums : \A m \in q : Holds(s, m, a.index, a.entry)
  BY DEF LogInv, AnchorsChosen
<1>4. PICK r \in Quorums : \A m \in r : Holds(s, m, b.index, b.entry)
  BY DEF LogInv, AnchorsChosen
<1>5. PICK m \in Nodes : m \in q /\ m \in r
  BY QuorumsMeet
<1> QED BY <1>1, <1>2, <1>3, <1>4, <1>5 DEF Holds

-----------------------------------------------------------------------------
(* Stores, and what the host's operations make of them.                    *)

Votes == {NoVote} \cup [term : 1..MaxTerm, node : Nodes, committed : BOOLEAN]

LogIds == [term : Nat, node : Nat, index : 0..MaxLog]

IsTree(tr) == DOMAIN tr \subseteq Index /\ \A i \in DOMAIN tr : tr[i] \in Leader

IsStore(s) ==
  /\ s = [vote |-> s.vote, votes |-> s.votes, tree |-> s.tree,
          last_purged |-> s.last_purged, purges |-> s.purges]
  /\ s.vote \in Votes
  /\ s.votes \subseteq Votes
  /\ IsTree(s.tree)
  /\ s.last_purged \in LogIds
  /\ s.purges \subseteq LogIds

\* The DB has flushed its vote.
Durable(s) == service = "db" => s.votes = {s.vote}

LEMMA SaveVoteEffect ==
  ASSUME NEW s, IsStore(s), NEW v \in Votes
  PROVE  LET t == SaveVote(s, v)
         IN  /\ IsStore(t) /\ Durable(t)
             /\ t.vote = v /\ t.tree = s.tree /\ t.last_purged = s.last_purged
BY DEF IsStore, Durable, SaveVote, C!SaveVote, D!SaveVote, D!Flush

LEMMA AppendEffect ==
  ASSUME NEW s, IsStore(s), NEW es, IsTree(es)
  PROVE  LET t == AppendToLog(s, es)
         IN  /\ IsStore(t) /\ Durable(t)
             /\ t.vote = s.vote /\ t.last_purged = s.last_purged
             /\ DOMAIN t.tree = DOMAIN s.tree \cup DOMAIN es
             /\ \A i \in DOMAIN t.tree : t.tree[i] = IF i \in DOMAIN es THEN es[i] ELSE s.tree[i]
BY DEF IsStore, IsTree, Durable, AppendToLog, C!AppendToLog, D!AppendToLog, C!Flush, D!Flush

LEMMA DeleteEffect ==
  ASSUME NEW s, IsStore(s), NEW j
  PROVE  LET t == DeleteSince(s, j)
         IN  /\ IsStore(t) /\ Durable(t)
             /\ t.vote = s.vote /\ t.last_purged = s.last_purged
             /\ DOMAIN t.tree = {i \in DOMAIN s.tree : i < j}
             /\ \A i \in DOMAIN t.tree : t.tree[i] = s.tree[i]
BY DEF IsStore, IsTree, Durable, DeleteSince, C!DeleteConflictLogsSince,
       D!DeleteConflictLogsSince, C!Flush, D!Flush, C!Restrict, D!Restrict

LEMMA RemoveEffect ==
  ASSUME NEW s, IsStore(s), NEW id
  PROVE  LET t == RemoveUpto(s, id)
         IN  /\ IsStore(t) /\ Durable(t)
             /\ t.vote = s.vote /\ t.last_purged = s.last_purged
             /\ DOMAIN t.tree = {i \in DOMAIN s.tree : i > id.index}
             /\ \A i \in DOMAIN t.tree : t.tree[i] = s.tree[i]
BY DEF IsStore, IsTree, Durable, RemoveUpto, C!RemoveUpto, D!RemoveUpto, C!Flush, D!Flush,
       C!Restrict, D!Restrict

LEMMA PurgeEffect ==
  ASSUME NEW s, IsStore(s), NEW id \in LogIds
  PROVE  LET t == PurgeUpto(s, id)
         IN  /\ IsStore(t) /\ Durable(t)
             /\ t.vote = s.vote /\ t.last_purged = id
             /\ DOMAIN t.tree = {i \in DOMAIN s.tree : i > id.index}
             /\ \A i \in DOMAIN t.tree : t.tree[i] = s.tree[i]
BY DEF IsStore, IsTree, Durable, PurgeUpto, C!PurgeLogsUpto, D!PurgeLogsUpto, C!RemoveUpto,
       D!RemoveUpto, C!Flush, D!Flush, C!Restrict, D!Restrict

LEMMA ReopenEffect ==
  ASSUME NEW s, IsStore(s), NEW v \in Votes, NEW id \in LogIds
  PROVE  LET t == Reopen(s, v, id)
         IN  /\ IsStore(t) /\ Durable(t)
             /\ t.vote = v /\ t.last_purged = id /\ t.tree = s.tree
BY DEF IsStore, Durable, Reopen, C!Reopen, D!Reopen

LEMMA EntriesEffect ==
  ASSUME NEW s, IsStore(s), NEW r
  PROVE  LET es == Entries(s, r)
         IN  IsTree(es) /\ DOMAIN es = DOMAIN s.tree \cap r /\ \A i \in DOMAIN es : es[i] = s.tree[i]
BY DEF IsStore, IsTree, Entries, C!TryGetLogEntries, D!TryGetLogEntries, C!Restrict, D!Restrict

\* A nonempty set of indexes has a greatest and a least element.
LEMMA Greatest ==
  ASSUME NEW S, S \subseteq 0..MaxLog, S # {}
  PROVE  \E i \in S : \A j \in S : j <= i
<1> DEFINE R == {MaxLog - j : j \in S}
<1>0. MaxLog \in Nat
  BY RaftAssumption
<1>1. R \subseteq Nat /\ R # {}
  <2>1. \A j \in S : MaxLog - j \in Nat
    BY <1>0
  <2>2. PICK j \in S : TRUE
    OBVIOUS
  <2>3. MaxLog - j \in R
    BY <2>2
  <2> QED BY <2>1, <2>3
<1>2. PICK k \in R : \A j \in R : ~ (<<j, k>> \in OpToRel(<, Nat))
  BY <1>1, NatLessThanWellFounded, WFMin
<1>3. PICK i \in S : k = MaxLog - i
  BY <1>2
<1>4. ASSUME NEW j \in S PROVE j <= i
  <2>1. MaxLog - j \in R /\ MaxLog - j \in Nat /\ k \in Nat
    BY <1>0, <1>1
  <2>2. ~ (MaxLog - j < k)
    BY <1>2, <2>1 DEF OpToRel
  <2> QED BY <1>0, <1>3, <2>2
<1> QED BY <1>4

LEMMA Least ==
  ASSUME NEW S, S \subseteq Nat, S # {}
  PROVE  \E i \in S : \A j \in S : i <= j
<1>2. PICK k \in S : \A j \in S : ~ (<<j, k>> \in OpToRel(<, Nat))
  BY NatLessThanWellFounded, WFMin
<1>3. \A j \in S : ~ (j < k)
  BY <1>2 DEF OpToRel
<1> QED BY <1>3

LEMMA LastEffect ==
  ASSUME NEW s, IsStore(s)
  PROVE  LET id == LastInTree(s)
         IN  /\ id \in LogIds /\ C!LastInTree(s) = id
             /\ DOMAIN s.tree = {} => id = NoLogId
             /\ DOMAIN s.tree # {} =>
                  /\ id.index \in DOMAIN s.tree /\ \A j \in DOMAIN s.tree : j <= id.index
                  /\ id = [term |-> s.tree[id.index].term, node |-> s.tree[id.index].node,
                           index |-> id.index]
<1>1. LastInTree(s) = C!LastInTree(s)
  BY DEF LastInTree, C!LastInTree, D!LastInTree, C!NoLogId, D!NoLogId
<1>2. CASE DOMAIN s.tree = {}
  BY <1>1, <1>2, RaftAssumption DEF C!LastInTree, C!NoLogId, NoLogId, LogIds
<1>3. CASE DOMAIN s.tree # {}
  <2> DEFINE i == CHOOSE i \in DOMAIN s.tree : \A j \in DOMAIN s.tree : j <= i
  <2>1. DOMAIN s.tree \subseteq 0..MaxLog
    BY RaftAssumption DEF IsStore, IsTree, Index
  <2>2. i \in DOMAIN s.tree /\ \A j \in DOMAIN s.tree : j <= i
    BY <1>3, <2>1, Greatest
  <2>3. LastInTree(s) = [term |-> s.tree[i].term, node |-> s.tree[i].node, index |-> i]
    BY <1>1, <1>3 DEF C!LastInTree
  <2>4. s.tree[i] \in Leader /\ i \in 0..MaxLog
    BY <2>1, <2>2 DEF IsStore, IsTree
  <2> HIDE DEF i
  <2> QED BY <1>1, <1>3, <2>2, <2>3, <2>4, NodesFinite DEF LogIds, Leader
<1> QED BY <1>2, <1>3

-----------------------------------------------------------------------------
(* What openraft does with what arrives.                                   *)

LEMMA WireEffect ==
  /\ \A v, id : LET r == VoteOverWire([vote |-> v, last_log_id |-> id])
                IN  r.vote = v /\ r.last_log_id = LogIdFrom(LogIdParts(id), v.node)
  /\ \A v, id, es, lc :
       LET r == AppendOverWire([vote |-> v, prev_log_id |-> id, entries |-> es, leader_commit |-> lc])
       IN  /\ r.entries = es
           /\ r.prev_log_id = LogIdFrom(LogIdParts(id), v.node)
           /\ r.leader_commit = LogIdFrom(LogIdParts(lc), v.node)
  /\ \A o, v : o \in {"Success", "Conflict"} => AnswerOverWire([outcome |-> o], v).outcome = o
  /\ \A v, w : AnswerOverWire([outcome |-> "HigherVote", vote |-> w], v).vote = w
<1>1. \A v, id : LET r == VoteOverWire([vote |-> v, last_log_id |-> id])
                 IN  r.vote = v /\ r.last_log_id = LogIdFrom(LogIdParts(id), v.node)
  BY DEF VoteOverWire, C!SendVote, C!ReceiveVote, C!VoteRequest, C!LogIdFrom, C!LogIdParts,
         C!NoLogId, D!SendVote, D!ReceiveVote, D!VoteRequest, D!LogIdFrom, D!LogIdParts,
         D!NoLogId, LogIdFrom, LogIdParts, NoLogId
<1>2. \A v, id, es, lc :
        LET r == AppendOverWire([vote |-> v, prev_log_id |-> id, entries |-> es, leader_commit |-> lc])
        IN  /\ r.entries = es
            /\ r.prev_log_id = LogIdFrom(LogIdParts(id), v.node)
            /\ r.leader_commit = LogIdFrom(LogIdParts(lc), v.node)
  BY DEF AppendOverWire, C!SendAppend, C!ReceiveAppend, C!AppendRequest, C!LogIdFrom,
         C!LogIdParts, C!NoLogId, D!SendAppend, D!ReceiveAppend, D!AppendRequest, D!LogIdFrom,
         D!LogIdParts, D!NoLogId, LogIdFrom, LogIdParts, NoLogId
<1>3. \A o, v : o \in {"Success", "Conflict"} => AnswerOverWire([outcome |-> o], v).outcome = o
  BY DEF AnswerOverWire, C!AnswerAppend, C!AppendResponseFromWire, C!ClassifyAppendResponse,
         D!AnswerAppend, D!AppendResponseFromWire, D!ClassifyAppendResponse
<1>4. \A v, w : AnswerOverWire([outcome |-> "HigherVote", vote |-> w], v).vote = w
  BY DEF AnswerOverWire, C!AnswerAppend, C!AppendResponseFromWire, C!ClassifyAppendResponse,
         D!AnswerAppend, D!AppendResponseFromWire, D!ClassifyAppendResponse
<1> QED BY <1>1, <1>2, <1>3, <1>4

LEMMA Bounds ==
  /\ MaxTerm \in Nat /\ MaxLog \in Nat /\ Index \subseteq 0..MaxLog /\ Index \subseteq Nat \ {0}
  /\ \A e \in Leader : Ranked(e) /\ e.term > 0 /\ e \in Entry
  /\ \A e \in Leader, i \in 0..MaxLog : [term |-> e.term, node |-> e.node, index |-> i] \in LogIds
<1>1. MaxTerm \in Nat /\ MaxLog \in Nat
  BY RaftAssumption
<1>2. \A e \in Leader : Ranked(e) /\ e.term > 0 /\ e \in Entry
  <2> SUFFICES ASSUME NEW e \in Leader PROVE Ranked(e) /\ e.term > 0 /\ e \in Entry
    OBVIOUS
  <2>1. e.term \in 1..MaxTerm /\ e.node \in Nodes /\ e = [term |-> e.term, node |-> e.node]
    BY DEF Leader
  <2>2. e.term \in Nat /\ e.term > 0 /\ e.node \in Nat
    BY <1>1, <2>1, NodesFinite
  <2>3. [term |-> e.term, node |-> e.node] \in Entry
    BY <2>2 DEF Entry
  <2> QED BY <2>1, <2>2, <2>3 DEF Ranked
<1> QED BY <1>1, <1>2 DEF Index, LogIds, Ranked

LEMMA LogIdsOverWire ==
  ASSUME NEW id \in LogIds, NEW n \in Nat
  PROVE  LogIdFrom(LogIdParts(id), n) \in LogIds /\ NoLogId \in LogIds
BY RaftAssumption DEF LogIds, LogIdFrom, LogIdParts, NoLogId

LEMMA IdAtType ==
  ASSUME NEW s, IsStore(s), NEW b \in LogIds, NEW i
  PROVE  IdAt(s, b, i) \in LogIds /\ LastId(s, b) \in LogIds
<1>1. i \in DOMAIN s.tree => s.tree[i] \in Leader /\ i \in 0..MaxLog
  BY RaftAssumption DEF IsStore, IsTree, Index
<1>2. IdAt(s, b, i) \in LogIds
  <2>1. NoLogId \in LogIds
    BY Bounds DEF LogIds, NoLogId
  <2> QED BY <1>1, <2>1, Bounds DEF IdAt
<1> QED BY <1>2, LastEffect DEF LastId

\* The new entries of a request, of which the log is replaced from the first on.
NewIn(s, b, es) ==
  {i \in DOMAIN es : i > b.index /\ (i \notin DOMAIN s.tree \/ s.tree[i] # es[i])}

\* The log id that a request is accepted up to.
AcceptedOf(req, acc) ==
  IF DOMAIN req.entries = {} THEN acc = req.prev_log_id
  ELSE /\ acc.index \in DOMAIN req.entries
       /\ \A j \in DOMAIN req.entries : j <= acc.index
       /\ acc = [term |-> req.entries[acc.index].term, node |-> req.entries[acc.index].node,
                 index |-> acc.index]

LEMMA HandleEffect ==
  ASSUME NEW s, IsStore(s), Durable(s), NEW b, NEW c \in 0..MaxLog, NEW req,
         IsTree(req.entries), req.prev_log_id \in LogIds, req.leader_commit \in LogIds
  PROVE  LET r == HandleAppend(s, b, c, req)
             t == r.store
         IN  /\ IsStore(t) /\ Durable(t)
             /\ t.vote = s.vote /\ t.last_purged = s.last_purged
             /\ r.outcome = IF HasLogId(s, b, c, req.prev_log_id) THEN "Success" ELSE "Conflict"
             /\ r.committed \in 0..MaxLog
             /\ r.outcome = "Conflict" =>
                  /\ r.committed = c
                  /\ DOMAIN t.tree = {i \in DOMAIN s.tree :
                       req.prev_log_id.index \in DOMAIN s.tree => i < req.prev_log_id.index}
                  /\ \A i \in DOMAIN t.tree : t.tree[i] = s.tree[i]
             /\ r.outcome = "Success" =>
                  /\ \E acc \in LogIds :
                       /\ AcceptedOf(req, acc)
                       /\ LET lc == IF LogIdLeq(req.leader_commit, acc) THEN req.leader_commit ELSE acc
                          IN  r.committed = IF c < lc.index THEN lc.index ELSE c
                  /\ NewIn(s, b, req.entries) = {} => t = s
                  /\ NewIn(s, b, req.entries) # {} =>
                       \E first \in NewIn(s, b, req.entries) :
                         /\ \A i \in NewIn(s, b, req.entries) : first <= i
                         /\ DOMAIN t.tree = {i \in DOMAIN s.tree : i < first}
                                              \cup {i \in DOMAIN req.entries : first <= i}
                         /\ \A i \in DOMAIN t.tree :
                              t.tree[i] = IF i < first THEN s.tree[i] ELSE req.entries[i]
<1> DEFINE r == HandleAppend(s, b, c, req)
           es == req.entries
           prev == req.prev_log_id
           new == NewIn(s, b, es)
           first == CHOOSE j \in new : \A i \in new : j <= i
           tail == [i \in {j \in DOMAIN es : first <= j} |-> es[i]]
           u == AppendToLog(DeleteSince(s, first), tail)
           mx == CHOOSE i \in DOMAIN es : \A j \in DOMAIN es : j <= i
           acc == IF DOMAIN es = {} THEN prev
                  ELSE [term |-> es[mx].term, node |-> es[mx].node, index |-> mx]
           lc == IF LogIdLeq(req.leader_commit, acc) THEN req.leader_commit ELSE acc
<1>0. DOMAIN es \subseteq 0..MaxLog /\ DOMAIN es \subseteq Nat /\ \A i \in DOMAIN es : es[i] \in Leader
  BY RaftAssumption DEF IsTree, Index
<1>1. CASE ~ HasLogId(s, b, c, prev)
  <2>1. r = [outcome |-> "Conflict", committed |-> c,
             store |-> IF prev.index \in DOMAIN s.tree THEN DeleteSince(s, prev.index) ELSE s]
    BY <1>1 DEF HandleAppend
  <2>r. r = HandleAppend(s, b, c, req)
    OBVIOUS
  <2> HIDE DEF r
  <2>2. CASE prev.index \in DOMAIN s.tree
    <3> DEFINE w == DeleteSince(s, prev.index)
    <3>1. /\ IsStore(w) /\ Durable(w) /\ w.vote = s.vote /\ w.last_purged = s.last_purged
          /\ DOMAIN w.tree = {i \in DOMAIN s.tree : i < prev.index}
          /\ \A i \in DOMAIN w.tree : w.tree[i] = s.tree[i]
      BY DeleteEffect
    <3>2. r.outcome = "Conflict" /\ r.committed = c /\ r.store = w
      BY <2>1, <2>2
    <3> HIDE DEF w
    <3> QED BY <1>1, <2>2, <2>r, <3>1, <3>2
  <2>3. CASE prev.index \notin DOMAIN s.tree
    <3>1. r.outcome = "Conflict" /\ r.committed = c /\ r.store = s
      BY <2>1, <2>3
    <3> QED BY <1>1, <2>3, <2>r, <3>1
  <2> QED BY <2>2, <2>3
<1>2. CASE HasLogId(s, b, c, prev)
  <2>1. r = [outcome |-> "Success", store |-> IF new = {} THEN s ELSE u,
             committed |-> IF c < lc.index THEN lc.index ELSE c]
    BY <1>2 DEF HandleAppend, NewIn
  <2>2. acc \in LogIds /\ AcceptedOf(req, acc)
    <3>1. CASE DOMAIN es = {}
      BY <3>1 DEF AcceptedOf
    <3>2. CASE DOMAIN es # {}
      <4>1. mx \in DOMAIN es /\ \A j \in DOMAIN es : j <= mx
        BY <1>0, <3>2, Greatest
      <4>2. es[mx] \in Leader /\ mx \in 0..MaxLog
        BY <1>0, <4>1
      <4>3. acc = [term |-> es[mx].term, node |-> es[mx].node, index |-> mx]
        BY <3>2
      <4> HIDE DEF mx, acc
      <4>4. acc \in LogIds
        BY <4>2, <4>3, Bounds
      <4> QED BY <3>2, <4>1, <4>3, <4>4 DEF AcceptedOf
    <3> QED BY <3>1, <3>2
  <2> HIDE DEF acc
  <2>3. lc \in LogIds
    BY <2>2
  <2>4. (IF c < lc.index THEN lc.index ELSE c) \in 0..MaxLog
    BY <2>3 DEF LogIds
  <2>5. CASE new = {}
    <3> HIDE DEF new, lc
    <3>1. r.store = s /\ r.outcome = "Success" /\ r.committed = IF c < lc.index THEN lc.index ELSE c
      BY <2>1, <2>5
    <3>r. r = HandleAppend(s, b, c, req)
      OBVIOUS
    <3> HIDE DEF r
    <3> QED BY <1>2, <2>2, <2>4, <2>5, <3>1, <3>r DEF new, lc
  <2>6. CASE new # {}
    <3>1. new \subseteq Nat
      BY <1>0 DEF NewIn
    <3>2. first \in new /\ \A i \in new : first <= i
      BY <2>6, <3>1, Least
    <3> HIDE DEF new, first
    <3>3. IsTree(tail) /\ DOMAIN tail = {j \in DOMAIN es : first <= j}
          /\ \A i \in DOMAIN tail : tail[i] = es[i]
      BY DEF IsTree
    <3> HIDE DEF tail
    <3>4. /\ IsStore(u) /\ Durable(u)
          /\ u.vote = s.vote /\ u.last_purged = s.last_purged
          /\ DOMAIN u.tree = {i \in DOMAIN s.tree : i < first} \cup DOMAIN tail
          /\ \A i \in DOMAIN u.tree : u.tree[i] = IF i \in DOMAIN tail THEN es[i] ELSE s.tree[i]
      <4> DEFINE w == DeleteSince(s, first)
      <4>1. /\ IsStore(w) /\ w.vote = s.vote /\ w.last_purged = s.last_purged
            /\ DOMAIN w.tree = {i \in DOMAIN s.tree : i < first}
            /\ \A i \in DOMAIN w.tree : w.tree[i] = s.tree[i]
        BY DeleteEffect
      <4> HIDE DEF w
      <4>2. u = AppendToLog(w, tail)
        BY DEF w
      <4> HIDE DEF u
      <4> QED BY <3>3, <4>1, <4>2, AppendEffect
    <3>5. \A i \in DOMAIN u.tree : u.tree[i] = IF i < first THEN s.tree[i] ELSE es[i]
      <4>1. DOMAIN s.tree \subseteq Nat /\ first \in Nat
        BY <3>1, <3>2, RaftAssumption DEF IsStore, IsTree, Index
      <4> HIDE DEF u
      <4> QED BY <3>3, <3>4, <4>1, <1>0
    <3> HIDE DEF u, lc
    <3>6. r.store = u /\ r.outcome = "Success" /\ r.committed = IF c < lc.index THEN lc.index ELSE c
      BY <2>1, <2>6
    <3>r. r = HandleAppend(s, b, c, req)
      OBVIOUS
    <3> HIDE DEF r
    <3>7. DOMAIN u.tree = {i \in DOMAIN s.tree : i < first} \cup {i \in DOMAIN es : first <= i}
      BY <3>3, <3>4
    <3> QED BY <1>2, <2>2, <2>4, <2>6, <3>2, <3>4, <3>5, <3>6, <3>7, <3>r DEF new, lc
  <2> QED BY <2>5, <2>6
<1> QED BY <1>1, <1>2

-----------------------------------------------------------------------------
(* Types.                                                                  *)

TypeInv ==
  /\ TypeOK
  /\ DOMAIN store = Nodes
  /\ \A n \in Nodes : IsStore(store[n]) /\ Durable(store[n])
  /\ base \in [Nodes -> LogIds]

\* What TypeOK says of a store.
StoreTyped(s) ==
  /\ s.vote \in Vote
  /\ s.votes \subseteq Vote
  /\ DOMAIN s.tree \subseteq Index
  /\ \A i \in DOMAIN s.tree : s.tree[i] \in Leader
  /\ s.last_purged \in LogId
  /\ s.purges \subseteq LogId

LEMMA VotesTyped ==
  /\ Votes \subseteq Vote /\ LogIds \subseteq LogId
  /\ NoVote \in Votes /\ NoLogId \in LogIds /\ NoLogId \in LogId
  /\ \A v \in Votes : /\ Ranked(v) /\ v.committed \in BOOLEAN
                      /\ v.node # 0 => v.term \in 1..MaxTerm /\ v.node \in Nodes
                      /\ v = [term |-> v.term, node |-> v.node, committed |-> v.committed]
  /\ \A t \in 1..MaxTerm, n \in Nodes, b \in BOOLEAN :
       [term |-> t, node |-> n, committed |-> b] \in Votes
<1>1. NoVote \in Vote /\ NoLogId \in LogId /\ NoLogId \in LogIds /\ LogIds \subseteq LogId
  BY Bounds DEF NoVote, Vote, NoLogId, LogId, LogIds
<1>2. [term : 1..MaxTerm, node : Nodes, committed : BOOLEAN] \subseteq Vote
  <2>1. ASSUME NEW t \in 1..MaxTerm, NEW n \in Nodes, NEW b \in BOOLEAN
        PROVE  [term |-> t, node |-> n, committed |-> b] \in Vote
    <3>1. t \in Nat /\ n \in Nat
      BY Bounds, NodesFinite
    <3> QED BY <3>1 DEF Vote
  <2> QED BY <2>1
<1>3. Votes \subseteq Vote
  BY <1>1, <1>2 DEF Votes
<1>4. ASSUME NEW v \in Votes
      PROVE  /\ Ranked(v) /\ v.committed \in BOOLEAN
             /\ v.node # 0 => v.term \in 1..MaxTerm /\ v.node \in Nodes
             /\ v = [term |-> v.term, node |-> v.node, committed |-> v.committed]
  <2>1. v \in Vote
    BY <1>3
  <2> QED BY <2>1 DEF Vote, Votes, NoVote, Ranked
<1> QED BY <1>1, <1>3, <1>4 DEF Votes

LEMMA StoresTyped == \A s : IsStore(s) => StoreTyped(s)
BY VotesTyped DEF IsStore, IsTree, StoreTyped

LEMMA NewStoreIsStore ==
  /\ IsStore(C!NewStore) /\ Durable(C!NewStore)
  /\ C!NewStore.vote = NoVote /\ C!NewStore.last_purged = NoLogId
  /\ DOMAIN C!NewStore.tree = {}
<1>1. DOMAIN << >> = {}
  OBVIOUS
<1> QED BY <1>1, VotesTyped DEF IsStore, Durable, IsTree, C!NewStore, C!NoVote, C!NoLogId, NoVote, NoLogId

\* The first peer, the cluster's initial candidate.
First == {n \in Nodes : IF service = "db" THEN D!ShouldInitializeCluster(n, Peers)
                        ELSE C!ShouldInitializeCluster(n, Peers)}

LEMMA InitEffect ==
  ASSUME Init
  PROVE  /\ service \in Services /\ up = Nodes /\ DOMAIN store = Nodes
         /\ \A n \in Nodes :
              /\ IsStore(store[n]) /\ Durable(store[n])
              /\ store[n].vote = IF n \in First THEN [term |-> 1, node |-> n, committed |-> FALSE]
                                 ELSE NoVote
              /\ store[n].last_purged = NoLogId
              /\ DOMAIN store[n].tree = {}
         /\ granted = [n \in Nodes |-> First \cap {n}]
         /\ knows = First /\ First \subseteq Nodes
         /\ base = [n \in Nodes |-> NoLogId]
         /\ committed = [n \in Nodes |-> 0]
         /\ matched = [n \in Nodes |-> NoneMatched]
         /\ campaigns = 0 /\ crashes = 0 /\ purges = 0 /\ decided = {} /\ causes = {}
<1>1. First \subseteq Nodes
  BY DEF First
<1>2. \A n \in Nodes :
        store[n] = IF n \notin First THEN C!NewStore
                   ELSE SaveVote(C!NewStore, [term |-> 1, node |-> n, committed |-> FALSE])
  BY DEF Init, First
<1>3. ASSUME NEW n \in Nodes
      PROVE  /\ IsStore(store[n]) /\ Durable(store[n])
             /\ store[n].vote = IF n \in First THEN [term |-> 1, node |-> n, committed |-> FALSE]
                                ELSE NoVote
             /\ store[n].last_purged = NoLogId
             /\ DOMAIN store[n].tree = {}
  <2> DEFINE v == [term |-> 1, node |-> n, committed |-> FALSE]
  <2>1. 1 \in 1..MaxTerm
    BY RaftAssumption
  <2>2. v \in Votes
    BY <2>1, VotesTyped
  <2>3. n \in First => store[n] = SaveVote(C!NewStore, v)
    BY <1>2
  <2> HIDE DEF v
  <2>4. CASE n \in First
    BY <2>2, <2>3, <2>4, NewStoreIsStore, SaveVoteEffect DEF v
  <2>5. CASE n \notin First
    BY <1>2, <2>5, NewStoreIsStore
  <2> QED BY <2>4, <2>5
<1>4. /\ granted = [n \in Nodes |-> First \cap {n}]
      /\ knows = First
      /\ DOMAIN store = Nodes
  BY DEF Init, First
<1> QED BY <1>1, <1>3, <1>4 DEF Init

LEMMA TypeInit == Init => TypeInv
<1> SUFFICES ASSUME Init PROVE TypeInv
  OBVIOUS
<1>1. \A n \in Nodes : StoreTyped(store[n]) /\ IsStore(store[n]) /\ Durable(store[n])
  BY InitEffect, StoresTyped
<1>2. 0 \in 0..MaxLog /\ 0 \in 0..MaxCampaigns /\ 0 \in 0..MaxCrashes /\ 0 \in 0..MaxPurges
  BY RaftAssumption
<1>3. TypeOK
  BY <1>1, <1>2, InitEffect, VotesTyped DEF TypeOK, StoreTyped, NoneMatched
<1> QED BY <1>1, <1>3, InitEffect, VotesTyped DEF TypeInv

-----------------------------------------------------------------------------
(* What each action does, in terms of the stores.                          *)

\* Only n's store changes, and becomes t.
StoreOf(n, t) ==
  /\ IsStore(t) /\ Durable(t)
  /\ DOMAIN store' = Nodes
  /\ \A m \in Nodes : store'[m] = IF m = n THEN t ELSE store[m]

LEMMA StoreSet ==
  ASSUME TypeInv, NEW n \in Nodes, NEW t, IsStore(t), Durable(t), store' = [store EXCEPT ![n] = t]
  PROVE  StoreOf(n, t)
BY DEF StoreOf, TypeInv

Ballot(n) == [term |-> VoteOf(n).term + 1, node |-> n, committed |-> FALSE]

LEMMA CampaignEffect ==
  ASSUME TypeInv, NEW n \in Nodes, Campaign(n)
  PROVE  /\ Ballot(n) \in Votes /\ StoreOf(n, store'[n])
         /\ store'[n].vote = Ballot(n)
         /\ store'[n].tree = store[n].tree /\ store'[n].last_purged = store[n].last_purged
         /\ granted' = [granted EXCEPT ![n] = {n}]
         /\ campaigns' \in 0..MaxCampaigns
         /\ UNCHANGED <<service, up, base, committed, matched, knows, crashes, purges, decided,
                        causes>>
<1>1. Ballot(n) \in Votes
  <2>1. VoteOf(n).term \in Nat /\ VoteOf(n).term < MaxTerm /\ MaxTerm \in Nat
    BY VotesTyped, RaftAssumption DEF Campaign, TypeInv, IsStore, VoteOf, Ranked
  <2>2. VoteOf(n).term + 1 \in 1..MaxTerm
    BY <2>1
  <2> QED BY <2>2, VotesTyped DEF Ballot
<1>2. IsStore(store[n])
  BY DEF TypeInv
<1> DEFINE t == SaveVote(store[n], Ballot(n))
<1>3. IsStore(t) /\ Durable(t) /\ t.vote = Ballot(n) /\ t.tree = store[n].tree
      /\ t.last_purged = store[n].last_purged
  BY <1>1, <1>2, SaveVoteEffect
<1>4. store' = [store EXCEPT ![n] = t]
  BY DEF Campaign, Ballot
<1> HIDE DEF t
<1>5. StoreOf(n, t)
  BY <1>3, <1>4, StoreSet
<1>6. store'[n] = t
  BY <1>5 DEF StoreOf
<1>7. campaigns' \in 0..MaxCampaigns
  BY RaftAssumption DEF Campaign, TypeInv, TypeOK
<1> QED BY <1>1, <1>3, <1>5, <1>6, <1>7 DEF Campaign

LEMMA GrantEffect ==
  ASSUME TypeInv, NEW c \in Nodes, NEW n \in Nodes, GrantVote(c, n)
  PROVE  /\ Stands(c) /\ c \in up /\ n \in up /\ n \notin granted[c]
         /\ VoteLeq(VoteOf(n), VoteOf(c))
         /\ StoreOf(n, store'[n])
         /\ store'[n].vote = VoteOf(c)
         /\ store'[n].tree = store[n].tree /\ store'[n].last_purged = store[n].last_purged
         /\ granted' = [granted EXCEPT ![c] = @ \cup {n}, ![n] = {}]
         /\ matched' = [matched EXCEPT ![n] = NoneMatched]
         /\ causes' = IF LogIdLeq(Last(n), Last(c)) THEN causes ELSE causes \cup {"misjudged"}
         /\ UNCHANGED <<service, up, base, committed, knows, counters, decided>>
<1> DEFINE req == VoteOverWire([vote |-> VoteOf(c), last_log_id |-> Last(c)])
           t == SaveVote(store[n], VoteOf(c))
<1>1. req.vote = VoteOf(c)
  BY WireEffect
<1>2. IsStore(store[n]) /\ VoteOf(c) \in Votes
  BY DEF TypeInv, IsStore, VoteOf
<1>3. IsStore(t) /\ Durable(t) /\ t.vote = VoteOf(c) /\ t.tree = store[n].tree
      /\ t.last_purged = store[n].last_purged
  BY <1>2, SaveVoteEffect
<1>4. store' = [store EXCEPT ![n] = SaveVote(@, req.vote)] /\ VoteLeq(VoteOf(n), req.vote)
  BY DEF GrantVote
<1>5. store' = [store EXCEPT ![n] = t]
  BY <1>1, <1>4
<1> HIDE DEF t, req
<1>6. StoreOf(n, t)
  BY <1>3, <1>5, StoreSet
<1>7. store'[n] = t
  BY <1>6 DEF StoreOf
<1> QED BY <1>1, <1>3, <1>4, <1>6, <1>7 DEF GrantVote

\* n's log grows by one entry of the leader with the vote v.
Grows(n, s, v) ==
  LET t == store'[n]
      i == Last(n).index + 1
  IN  /\ i \in Index
      /\ StoreOf(n, t)
      /\ t.last_purged = s.last_purged /\ t.vote = v
      /\ DOMAIN t.tree = DOMAIN s.tree \cup {i}
      /\ \A j \in DOMAIN t.tree : t.tree[j] = IF j = i THEN [term |-> v.term, node |-> n] ELSE s.tree[j]

LEMMA GrowEffect ==
  ASSUME TypeInv, NEW n \in Nodes, NEW s, IsStore(s), s.vote.node = n, Last(n).index < MaxLog,
         store' = [store EXCEPT ![n] =
           AppendToLog(s, [i \in {Last(n).index + 1} |-> [term |-> s.vote.term, node |-> n]])]
  PROVE  Grows(n, s, s.vote)
<1> DEFINE j == Last(n).index + 1
           es == [i \in {j} |-> [term |-> s.vote.term, node |-> n]]
           t == AppendToLog(s, es)
<1>1. j \in Index
  <2>1. Last(n) \in LogIds
    BY IdAtType DEF TypeInv, Last
  <2> QED BY <2>1, RaftAssumption DEF LogIds, Index
<1>2. s.vote.term \in 1..MaxTerm
  BY VotesTyped, NodesFinite DEF IsStore
<1>3. IsTree(es) /\ DOMAIN es = {j} /\ es[j] = [term |-> s.vote.term, node |-> n]
  <2>1. [term |-> s.vote.term, node |-> n] \in Leader
    BY <1>2 DEF Leader
  <2> QED BY <1>1, <2>1 DEF IsTree
<1>4. store' = [store EXCEPT ![n] = t]
  OBVIOUS
<1> HIDE DEF es, j
<1>5. /\ IsStore(t) /\ Durable(t)
      /\ t.vote = s.vote /\ t.last_purged = s.last_purged
      /\ DOMAIN t.tree = DOMAIN s.tree \cup DOMAIN es
      /\ \A i \in DOMAIN t.tree : t.tree[i] = IF i \in DOMAIN es THEN es[i] ELSE s.tree[i]
  BY <1>3, AppendEffect
<1> HIDE DEF t
<1>6. StoreOf(n, t)
  BY <1>4, <1>5, StoreSet
<1>7. store'[n] = t
  BY <1>6 DEF StoreOf
<1> QED BY <1>1, <1>3, <1>5, <1>6, <1>7 DEF Grows, j

LEMMA ProposeEffect ==
  ASSUME TypeInv, NEW n \in Nodes, Propose(n)
  PROVE  /\ Leads(n) /\ Grows(n, store[n], VoteOf(n))
         /\ UNCHANGED <<service, up, base, committed, matched, knows, granted, counters,
                        decided, causes>>
<1>1. IsStore(store[n]) /\ store[n].vote = VoteOf(n) /\ VoteOf(n).node = n
  BY DEF TypeInv, VoteOf, Propose, Leads
<1>2. store' = [store EXCEPT ![n] = AppendToLog(store[n],
          [i \in {Last(n).index + 1} |-> [term |-> store[n].vote.term, node |-> n]])]
  BY <1>1 DEF Propose
<1>3. Last(n).index < MaxLog
  BY DEF Propose
<1>4. Grows(n, store[n], store[n].vote)
  BY <1>1, <1>2, <1>3, GrowEffect
<1> QED BY <1>1, <1>4 DEF Propose

LEMMA ElectEffect ==
  ASSUME TypeInv, NEW n \in Nodes, Elect(n)
  PROVE  /\ n \in up /\ Stands(n) /\ granted[n] \in Quorums
         /\ Grows(n, store[n], [VoteOf(n) EXCEPT !.committed = TRUE])
         /\ matched' = [matched EXCEPT ![n] = NoneMatched]
         /\ granted' = [granted EXCEPT ![n] = {}]
         /\ UNCHANGED <<service, up, base, committed, knows, counters, decided, causes>>
<1> DEFINE v == [VoteOf(n) EXCEPT !.committed = TRUE]
           s == SaveVote(store[n], v)
<1>1. IsStore(store[n]) /\ VoteOf(n) \in Votes /\ VoteOf(n).node = n
  BY DEF TypeInv, VoteOf, Elect, Stands, IsStore
<1>2. v \in Votes /\ v.node = n /\ v.term = VoteOf(n).term
  <2>1. VoteOf(n) \in [term : 1..MaxTerm, node : Nodes, committed : BOOLEAN]
    BY <1>1, NodesFinite DEF Votes, NoVote
  <2>2. v \in [term : 1..MaxTerm, node : Nodes, committed : BOOLEAN]
    BY <2>1
  <2> QED BY <1>1, <2>1, <2>2 DEF Votes
<1>3. /\ IsStore(s) /\ s.vote = v /\ s.tree = store[n].tree
      /\ s.last_purged = store[n].last_purged
  BY <1>1, <1>2, SaveVoteEffect
<1>4. store' = [store EXCEPT ![n] =
           AppendToLog(s, [i \in {Last(n).index + 1} |-> [term |-> VoteOf(n).term, node |-> n]])]
  BY DEF Elect
<1> HIDE DEF s
<1>5. store' = [store EXCEPT ![n] =
           AppendToLog(s, [i \in {Last(n).index + 1} |-> [term |-> s.vote.term, node |-> n]])]
  BY <1>2, <1>3, <1>4
<1>6. Grows(n, s, s.vote)
  BY <1>2, <1>3, <1>5, GrowEffect DEF Elect
<1>7. Grows(n, store[n], v)
  BY <1>3, <1>6 DEF Grows
<1> QED BY <1>7 DEF Elect

LEMMA RefuseEffect ==
  ASSUME TypeInv, NEW l \in Nodes, NEW f \in Nodes, Refuse(l, f)
  PROVE  /\ Leads(l) /\ f \in up /\ ~ VoteLeq(VoteOf(f), VoteOf(l))
         /\ StoreOf(l, store'[l])
         /\ store'[l].vote = VoteOf(f)
         /\ store'[l].tree = store[l].tree /\ store'[l].last_purged = store[l].last_purged
         /\ matched' = [matched EXCEPT ![l] = NoneMatched]
         /\ UNCHANGED <<service, up, base, committed, knows, granted, counters, decided, causes>>
<1> DEFINE resp == AnswerOverWire([outcome |-> "HigherVote", vote |-> VoteOf(f)], VoteOf(l))
           t == SaveVote(store[l], VoteOf(f))
<1>1. resp.vote = VoteOf(f)
  BY WireEffect
<1>2. IsStore(store[l]) /\ VoteOf(f) \in Votes
  BY DEF TypeInv, IsStore, VoteOf
<1>3. IsStore(t) /\ Durable(t) /\ t.vote = VoteOf(f) /\ t.tree = store[l].tree
      /\ t.last_purged = store[l].last_purged
  BY <1>2, SaveVoteEffect
<1>4. store' = [store EXCEPT ![l] = SaveVote(@, resp.vote)]
  BY DEF Refuse
<1>5. store' = [store EXCEPT ![l] = t]
  BY <1>1, <1>4
<1> HIDE DEF t, resp
<1>6. StoreOf(l, t)
  BY <1>3, <1>5, StoreSet
<1>7. store'[l] = t
  BY <1>6 DEF StoreOf
<1> QED BY <1>3, <1>6, <1>7 DEF Refuse

\* t is the store s without the entries up to an index.
Without(s, t, i) ==
  /\ DOMAIN t.tree = {j \in DOMAIN s.tree : j > i}
  /\ \A j \in DOMAIN t.tree : t.tree[j] = s.tree[j]

LEMMA SnapshotIdType ==
  ASSUME TypeInv, NEW n \in Nodes, committed[n] \in DOMAIN store[n].tree
  PROVE  /\ SnapshotId(n) \in LogIds /\ SnapshotId(n).index = committed[n]
         /\ SameLeader(SnapshotId(n), store[n].tree[committed[n]])
BY IdAtType DEF TypeInv, SnapshotId, IdAt, SameLeader

LEMMA PurgeStep ==
  ASSUME TypeInv, NEW n \in Nodes, Purge(n)
  PROVE  /\ n \in up /\ base[n].index < committed[n] /\ committed[n] \in DOMAIN store[n].tree
         /\ StoreOf(n, store'[n])
         /\ store'[n].vote = VoteOf(n) /\ store'[n].last_purged = SnapshotId(n)
         /\ Without(store[n], store'[n], committed[n])
         /\ base' = [base EXCEPT ![n] = SnapshotId(n)]
         /\ purges' \in 0..MaxPurges
         /\ UNCHANGED <<service, up, committed, matched, knows, granted, campaigns, crashes,
                        decided, causes>>
<1> DEFINE t == PurgeUpto(store[n], SnapshotId(n))
<1>1. committed[n] \in DOMAIN store[n].tree /\ IsStore(store[n])
  BY DEF Purge, TypeInv
<1>2. SnapshotId(n) \in LogIds /\ SnapshotId(n).index = committed[n]
  BY <1>1, SnapshotIdType
<1>3. /\ IsStore(t) /\ Durable(t)
      /\ t.vote = store[n].vote /\ t.last_purged = SnapshotId(n)
      /\ DOMAIN t.tree = {i \in DOMAIN store[n].tree : i > SnapshotId(n).index}
      /\ \A i \in DOMAIN t.tree : t.tree[i] = store[n].tree[i]
  BY <1>1, <1>2, PurgeEffect
<1>4. store' = [store EXCEPT ![n] = t] /\ base' = [base EXCEPT ![n] = SnapshotId(n)]
  BY DEF Purge, SnapshotId
<1> HIDE DEF t
<1>5. StoreOf(n, t)
  BY <1>3, <1>4, StoreSet
<1>6. store'[n] = t
  BY <1>5 DEF StoreOf
<1>7. purges' \in 0..MaxPurges
  BY RaftAssumption DEF Purge, TypeInv, TypeOK
<1> QED BY <1>2, <1>3, <1>4, <1>5, <1>6, <1>7 DEF Purge, Without, VoteOf

\* n's process is gone.
Volatile(n) ==
  /\ up' = up \ {n}
  /\ crashes' \in 0..MaxCrashes
  /\ base' = [base EXCEPT ![n] = NoLogId]
  /\ committed' = [committed EXCEPT ![n] = 0]
  /\ matched' = [matched EXCEPT ![n] = NoneMatched]
  /\ granted' = [granted EXCEPT ![n] = {}]
  /\ knows' \subseteq Nodes
  /\ UNCHANGED <<service, campaigns, decided>>

\* n stops, or its Raft ends.
Stopping(n) == Crash(n) \/ MissingEntries(n) \/ (\E f \in Nodes : MissingSnapshot(n, f))

LEMMA Stops ==
  ASSUME TypeInv, NEW n \in Nodes, Stopping(n)
  PROVE  n \in up /\ Stop(n) /\ crashes' \in 0..MaxCrashes
<1>1. crashes \in 0..MaxCrashes /\ MaxCrashes \in Nat
  BY RaftAssumption DEF TypeInv, TypeOK
<1>2. CASE Crash(n)
  BY <1>1, <1>2 DEF Crash
<1>3. CASE MissingEntries(n)
  BY <1>1, <1>3 DEF MissingEntries
<1>4. ASSUME NEW f \in Nodes, MissingSnapshot(n, f)
      PROVE  n \in up /\ Stop(n) /\ crashes' \in 0..MaxCrashes
  BY <1>1, <1>4 DEF MissingSnapshot, Leads
<1> QED BY <1>2, <1>3, <1>4 DEF Stopping

LEMMA StopEffect ==
  ASSUME TypeInv, NEW n \in Nodes, Stopping(n)
  PROVE  /\ n \in up /\ Volatile(n) /\ StoreOf(n, store'[n])
         /\ store'[n].tree = store[n].tree
         /\ service = "db" => store'[n].vote = VoteOf(n)
         /\ causes \subseteq causes' /\ causes' \subseteq Cause
         /\ causes' = {} => store'[n].vote = VoteOf(n) /\ store'[n].last_purged = store[n].last_purged
         /\ purges' = purges
<1>1. PICK v \in store[n].votes, id \in store[n].purges :
        /\ store' = [store EXCEPT ![n] = Reopen(@, v, id)]
        /\ causes' = causes \cup (IF v = VoteOf(n) THEN {} ELSE {"vote_lost"})
                            \cup (IF id = store[n].last_purged THEN {} ELSE {"purge_lost"})
  BY Stops DEF Stop
<1>2. IsStore(store[n]) /\ Durable(store[n]) /\ v \in Votes /\ id \in LogIds
  BY DEF TypeInv, IsStore
<1> DEFINE t == Reopen(store[n], v, id)
<1>3. IsStore(t) /\ Durable(t) /\ t.vote = v /\ t.last_purged = id /\ t.tree = store[n].tree
  BY <1>2, ReopenEffect
<1>4. store' = [store EXCEPT ![n] = t]
  BY <1>1
<1> HIDE DEF t
<1>5. StoreOf(n, t)
  BY <1>3, <1>4, StoreSet
<1>6. store'[n] = t
  BY <1>5 DEF StoreOf
<1>7. service = "db" => v = VoteOf(n)
  BY <1>1, <1>2 DEF Durable, VoteOf
<1>8. Volatile(n)
  BY Stops DEF Stop, ForgetVolatile, Volatile, TypeInv, TypeOK
<1>9. /\ causes \subseteq causes' /\ causes' \subseteq Cause
      /\ causes' = {} => v = VoteOf(n) /\ id = store[n].last_purged
  BY <1>1 DEF Cause, TypeInv, TypeOK
<1> QED BY <1>3, <1>5, <1>6, <1>7, <1>8, <1>9, Stops DEF Stop

LEMMA CrashInPurgeEffect ==
  ASSUME TypeInv, NEW n \in Nodes, CrashInPurge(n)
  PROVE  /\ Volatile(n) /\ StoreOf(n, store'[n])
         /\ store'[n].vote = VoteOf(n)
         /\ causes' = causes \cup {"purge_lost"} /\ purges' \in 0..MaxPurges
<1> DEFINE s == RemoveUpto(store[n], SnapshotId(n))
           t == Reopen(s, s.vote, s.last_purged)
<1>1. IsStore(s) /\ s.vote = VoteOf(n)
  BY RemoveEffect DEF TypeInv, VoteOf
<1>2. store' = [store EXCEPT ![n] = t]
  BY DEF CrashInPurge
<1> HIDE DEF s
<1>3. IsStore(t) /\ Durable(t) /\ t.vote = VoteOf(n)
  BY <1>1, ReopenEffect DEF IsStore
<1> HIDE DEF t
<1>4. StoreOf(n, t)
  BY <1>2, <1>3, StoreSet
<1>5. store'[n] = t
  BY <1>4 DEF StoreOf
<1>6. Volatile(n)
  BY RaftAssumption DEF CrashInPurge, ForgetVolatile, Volatile, TypeInv, TypeOK
<1>7. purges' \in 0..MaxPurges
  BY RaftAssumption DEF CrashInPurge, TypeInv, TypeOK
<1> QED BY <1>3, <1>4, <1>5, <1>6, <1>7 DEF CrashInPurge

LEMMA RestartEffect ==
  ASSUME TypeInv, NEW n \in Nodes, Restart(n)
  PROVE  /\ n \in Nodes \ up /\ up' = up \cup {n}
         /\ base' = [base EXCEPT ![n] = IF DOMAIN store[n].tree = {} THEN NoLogId
                                       ELSE store[n].last_purged]
         /\ causes' = IF DOMAIN store[n].tree = {} /\ store[n].last_purged # NoLogId
                      THEN causes \cup {"emptied"} ELSE causes
         /\ UNCHANGED <<service, store, committed, matched, knows, granted, counters, decided>>
<1>1. LastInTree(store[n]) = NoLogId <=> DOMAIN store[n].tree = {}
  <2>1. IsStore(store[n]) /\ 0 \notin DOMAIN store[n].tree
    BY Bounds DEF TypeInv, IsStore, IsTree
  <2>2. NoLogId.index = 0
    BY DEF NoLogId
  <2> QED BY <2>1, <2>2, LastEffect
<1> QED BY <1>1 DEF Restart

\* What f makes of l's request.
Handled(l, f, p) ==
  HandleAppend(SaveVote(store[f], VoteOf(l)), base[f], committed[f], Request(l, p))

\* What l knows of the other logs after the answer.
MatchedAfter(l, f, p, answered) ==
  IF answered /\ Handled(l, f, p).outcome = "Success"
  THEN [matched[l] EXCEPT ![f] = Last(l).index] ELSE matched[l]

SamePrev(l, f, p) == IdAt(store[f], base[f], p) = IdAt(store[l], base[l], p)

DecidedAfter(l, ci) ==
  decided \cup {[index |-> i, entry |-> store[l].tree[i], vote |-> VoteOf(l)] :
                  i \in {j \in DOMAIN store[l].tree : committed[l] < j /\ j <= ci}}

LEMMA RequestEffect ==
  ASSUME TypeInv, NEW l \in Nodes, NEW p
  PROVE  LET req == Request(l, p)
             es  == req.entries
         IN  /\ IsTree(es) /\ DOMAIN es = DOMAIN store[l].tree \cap ((p + 1)..Last(l).index)
             /\ \A i \in DOMAIN es : es[i] = store[l].tree[i]
             /\ req.prev_log_id = LogIdFrom(LogIdParts(IdAt(store[l], base[l], p)), VoteOf(l).node)
             /\ req.leader_commit =
                  LogIdFrom(LogIdParts(IdAt(store[l], base[l], committed[l])), VoteOf(l).node)
             /\ req.prev_log_id \in LogIds /\ req.leader_commit \in LogIds
<1> DEFINE sent == Entries(store[l], (p + 1)..Last(l).index)
           prev == IdAt(store[l], base[l], p)
           lc == IdAt(store[l], base[l], committed[l])
<1>1. IsStore(store[l]) /\ base[l] \in LogIds /\ VoteOf(l).node \in Nat
  BY VotesTyped DEF TypeInv, IsStore, VoteOf, Ranked
<1>2. IsTree(sent) /\ DOMAIN sent = DOMAIN store[l].tree \cap ((p + 1)..Last(l).index)
      /\ \A i \in DOMAIN sent : sent[i] = store[l].tree[i]
  BY <1>1, EntriesEffect
<1>3. /\ LogIdFrom(LogIdParts(prev), VoteOf(l).node) \in LogIds
      /\ LogIdFrom(LogIdParts(lc), VoteOf(l).node) \in LogIds
  BY <1>1, IdAtType, LogIdsOverWire
<1> HIDE DEF sent, prev, lc
<1>4. /\ Request(l, p).entries = sent
      /\ Request(l, p).prev_log_id = LogIdFrom(LogIdParts(prev), VoteOf(l).node)
      /\ Request(l, p).leader_commit = LogIdFrom(LogIdParts(lc), VoteOf(l).node)
  BY WireEffect DEF Request, sent, prev, lc
<1> QED BY <1>2, <1>3, <1>4 DEF prev, lc

\* HandleEffect, of what Replicate hands over.
LEMMA HandledEffect ==
  ASSUME TypeInv, NEW l \in Nodes, NEW f \in Nodes, NEW p
  PROVE  LET r == Handled(l, f, p)
             t == r.store
             s == store[f]
             req == Request(l, p)
             new == NewIn(s, base[f], req.entries)
         IN  /\ IsStore(t) /\ Durable(t)
             /\ t.vote = VoteOf(l) /\ t.last_purged = s.last_purged
             /\ r.outcome = IF HasLogId(s, base[f], committed[f], req.prev_log_id) THEN "Success"
                            ELSE "Conflict"
             /\ r.committed \in 0..MaxLog
             /\ r.outcome = "Conflict" =>
                  /\ r.committed = committed[f]
                  /\ DOMAIN t.tree = {i \in DOMAIN s.tree :
                       req.prev_log_id.index \in DOMAIN s.tree => i < req.prev_log_id.index}
                  /\ \A i \in DOMAIN t.tree : t.tree[i] = s.tree[i]
             /\ r.outcome = "Success" =>
                  /\ \E acc \in LogIds :
                       /\ AcceptedOf(req, acc)
                       /\ LET lc == IF LogIdLeq(req.leader_commit, acc) THEN req.leader_commit ELSE acc
                          IN  r.committed = IF committed[f] < lc.index THEN lc.index ELSE committed[f]
                  /\ new = {} => t.tree = s.tree
                  /\ new # {} =>
                       \E first \in new :
                         /\ \A i \in new : first <= i
                         /\ DOMAIN t.tree = {i \in DOMAIN s.tree : i < first}
                                              \cup {i \in DOMAIN req.entries : first <= i}
                         /\ \A i \in DOMAIN t.tree :
                              t.tree[i] = IF i < first THEN s.tree[i] ELSE req.entries[i]
<1> DEFINE s == SaveVote(store[f], VoteOf(l))
           b == base[f]
           c == committed[f]
           req == Request(l, p)
<1>1. IsStore(store[f]) /\ VoteOf(l) \in Votes /\ c \in 0..MaxLog
  BY DEF TypeInv, TypeOK, VoteOf, IsStore
<1>2. /\ IsStore(s) /\ Durable(s) /\ s.vote = VoteOf(l) /\ s.tree = store[f].tree
      /\ s.last_purged = store[f].last_purged
  BY <1>1, SaveVoteEffect
<1>3. IsTree(req.entries) /\ req.prev_log_id \in LogIds /\ req.leader_commit \in LogIds
  BY RequestEffect
<1> HIDE DEF s, c, req
<1>4. /\ NewIn(s, b, req.entries) = NewIn(store[f], b, req.entries)
      /\ HasLogId(s, b, c, req.prev_log_id) <=> HasLogId(store[f], b, c, req.prev_log_id)
  BY <1>2 DEF NewIn, HasLogId, IdAt
<1> DEFINE r == HandleAppend(s, b, c, req)
           t == r.store
           new == NewIn(s, b, req.entries)
<1>5. /\ IsStore(t) /\ Durable(t)
      /\ t.vote = s.vote /\ t.last_purged = s.last_purged
      /\ r.outcome = IF HasLogId(s, b, c, req.prev_log_id) THEN "Success" ELSE "Conflict"
      /\ r.committed \in 0..MaxLog
      /\ r.outcome = "Conflict" =>
           /\ r.committed = c
           /\ DOMAIN t.tree = {i \in DOMAIN s.tree :
                req.prev_log_id.index \in DOMAIN s.tree => i < req.prev_log_id.index}
           /\ \A i \in DOMAIN t.tree : t.tree[i] = s.tree[i]
      /\ r.outcome = "Success" =>
           /\ \E acc \in LogIds :
                /\ AcceptedOf(req, acc)
                /\ LET lc == IF LogIdLeq(req.leader_commit, acc) THEN req.leader_commit ELSE acc
                   IN  r.committed = IF c < lc.index THEN lc.index ELSE c
           /\ new = {} => t = s
           /\ new # {} =>
                \E first \in new :
                  /\ \A i \in new : first <= i
                  /\ DOMAIN t.tree = {i \in DOMAIN s.tree : i < first}
                                       \cup {i \in DOMAIN req.entries : first <= i}
                  /\ \A i \in DOMAIN t.tree :
                       t.tree[i] = IF i < first THEN s.tree[i] ELSE req.entries[i]
  <2> HIDE DEF b
  <2> QED BY <1>1, <1>2, <1>3, HandleEffect DEF c
<1>6. Handled(l, f, p) = r
  BY DEF Handled, s, c, req
<1> HIDE DEF r, new
<1>7. new = NewIn(store[f], base[f], Request(l, p).entries)
  BY <1>4 DEF new, req
<1> QED BY <1>2, <1>4, <1>5, <1>6, <1>7 DEF c, req

LEMMA CommitEffect ==
  ASSUME TypeInv, NEW l \in Nodes, NEW m
  PROVE  LET ci == CommitIndex(l, m)
         IN  /\ ci \in 0..MaxLog /\ committed[l] <= ci
             /\ ci # committed[l] =>
                  /\ ci \in DOMAIN store[l].tree
                  /\ SameLeader(store[l].tree[ci], VoteOf(l))
                  /\ \E q \in Quorums : \A n \in q : n = l \/ m[n] >= ci
<1> DEFINE ok == {i \in DOMAIN store[l].tree :
                    /\ SameLeader(store[l].tree[i], VoteOf(l))
                    /\ \E q \in Quorums : \A n \in q : n = l \/ m[n] >= i}
           S == ok \cup {committed[l]}
           ci == CHOOSE i \in S : \A j \in S : j <= i
<1>1. S \subseteq 0..MaxLog
  BY Bounds DEF TypeInv, TypeOK
<1>2. ci \in S /\ \A j \in S : j <= ci
  <2> HIDE DEF S
  <2>1. S # {}
    BY DEF S
  <2> QED BY <1>1, <2>1, Greatest
<1>3. CommitIndex(l, m) = ci
  BY DEF CommitIndex
<1> HIDE DEF ci
<1> QED BY <1>1, <1>2, <1>3

LEMMA ReplicateEffect ==
  ASSUME TypeInv, NEW l \in Nodes, NEW f \in Nodes, NEW p \in 0..MaxLog, NEW answered \in BOOLEAN,
         Replicate(l, f, p, answered)
  PROVE  LET r  == Handled(l, f, p)
             m  == MatchedAfter(l, f, p, answered)
             ci == CommitIndex(l, m)
         IN  /\ Leads(l) /\ f \in up /\ f # l /\ VoteLeq(VoteOf(f), VoteOf(l))
             /\ matched[l][f] <= p /\ base[l].index <= p
             /\ StoreOf(f, r.store)
             /\ matched' = [matched EXCEPT ![l] = m, ![f] = NoneMatched]
             /\ granted' = [granted EXCEPT ![f] = {}]
             /\ knows' \subseteq Nodes
             /\ committed' = [committed EXCEPT ![f] = r.committed, ![l] = ci]
             /\ decided' = DecidedAfter(l, ci)
             /\ causes \subseteq causes' /\ causes' \subseteq Cause
             /\ causes' = {} => /\ ~ (r.outcome = "Conflict" /\ p \in DOMAIN store[f].tree
                                        /\ SamePrev(l, f, p))
                                /\ ~ (r.outcome = "Success" /\ committed[f] < p /\ ~ SamePrev(l, f, p))
             /\ UNCHANGED <<service, up, base, counters>>
<1> DEFINE r == Handled(l, f, p)
           m == MatchedAfter(l, f, p, answered)
           ci == CommitIndex(l, m)
<1>0. r.outcome \in {"Success", "Conflict"} /\ IsStore(r.store) /\ Durable(r.store)
  BY HandledEffect
<1>1. AnswerOverWire([outcome |-> r.outcome], VoteOf(l)).outcome = r.outcome
  BY <1>0, WireEffect
<1>2. /\ store' = [store EXCEPT ![f] = r.store]
      /\ LET resp == AnswerOverWire([outcome |-> r.outcome], VoteOf(l))
             mm   == IF answered /\ resp.outcome = "Success"
                     THEN [matched[l] EXCEPT ![f] = Last(l).index] ELSE matched[l]
             cc   == CommitIndex(l, mm)
         IN  /\ matched' = [matched EXCEPT ![l] = mm, ![f] = NoneMatched]
             /\ committed' = [committed EXCEPT ![f] = r.committed, ![l] = cc]
             /\ decided' = DecidedAfter(l, cc)
      /\ granted' = [granted EXCEPT ![f] = {}]
      /\ knows' = IF r.outcome = "Success" /\ p = 0 THEN knows \cup {f} ELSE knows
      /\ causes' = causes \cup
           (IF r.outcome = "Conflict" /\ p \in DOMAIN store[f].tree /\ SamePrev(l, f, p)
            THEN {"dropped"} ELSE {}) \cup
           (IF r.outcome = "Success" /\ committed[f] < p /\ ~ SamePrev(l, f, p)
            THEN {"mistaken"} ELSE {})
  BY DEF Replicate, Handled, Request, DecidedAfter, SamePrev
<1> HIDE DEF r
<1>3. /\ matched' = [matched EXCEPT ![l] = m, ![f] = NoneMatched]
      /\ committed' = [committed EXCEPT ![f] = r.committed, ![l] = ci]
      /\ decided' = DecidedAfter(l, ci)
  BY <1>1, <1>2 DEF MatchedAfter, r
<1> HIDE DEF m, ci
<1>4. StoreOf(f, r.store)
  BY <1>0, <1>2, StoreSet
<1>5. knows' \subseteq Nodes
  BY <1>2 DEF TypeInv, TypeOK
<1>6. /\ causes \subseteq causes' /\ causes' \subseteq Cause
      /\ causes' = {} => /\ ~ (r.outcome = "Conflict" /\ p \in DOMAIN store[f].tree
                                 /\ SamePrev(l, f, p))
                         /\ ~ (r.outcome = "Success" /\ committed[f] < p /\ ~ SamePrev(l, f, p))
  BY <1>2 DEF TypeInv, TypeOK, Cause
<1>7. /\ Leads(l) /\ f \in up /\ f # l /\ VoteLeq(VoteOf(f), VoteOf(l))
      /\ matched[l][f] <= p /\ base[l].index <= p
      /\ UNCHANGED <<service, up, base, counters>>
  BY DEF Replicate
<1> QED BY <1>2, <1>3, <1>4, <1>5, <1>6, <1>7 DEF r, m, ci

-----------------------------------------------------------------------------
(* The types and the DB's votes.                                           *)

LEMMA StoreOfTyped ==
  ASSUME TypeInv, NEW n \in Nodes, NEW t, StoreOf(n, t), service' = service
  PROVE  /\ DOMAIN store' = Nodes
         /\ \A m \in Nodes : IsStore(store'[m]) /\ Durable(store[m])' /\ StoreTyped(store'[m])
<1>1. ASSUME NEW m \in Nodes
      PROVE  IsStore(store'[m]) /\ Durable(store[m])'
  BY DEF StoreOf, TypeInv, Durable
<1> QED BY <1>1, StoresTyped DEF StoreOf

LEMMA TypeByParts ==
  ASSUME DOMAIN store' = Nodes,
         \A m \in Nodes : IsStore(store'[m]) /\ Durable(store[m])' /\ StoreTyped(store'[m]),
         service' \in Services,
         up' \subseteq Nodes,
         base' \in [Nodes -> LogIds],
         committed' \in [Nodes -> 0..MaxLog],
         matched' \in [Nodes -> [Nodes -> 0..MaxLog]],
         knows' \subseteq Nodes,
         granted' \in [Nodes -> SUBSET Nodes],
         campaigns' \in 0..MaxCampaigns,
         crashes' \in 0..MaxCrashes,
         purges' \in 0..MaxPurges,
         decided' \subseteq [index : Index, entry : Leader, vote : Vote],
         causes' \subseteq Cause
  PROVE  TypeInv'
<1>1. base' \in [Nodes -> LogId]
  BY VotesTyped
<1> QED BY <1>1 DEF TypeInv, TypeOK, StoreTyped

LEMMA DecidedTyped ==
  ASSUME TypeInv, NEW l \in Nodes, NEW ci
  PROVE  DecidedAfter(l, ci) \subseteq [index : Index, entry : Leader, vote : Vote]
<1>1. /\ VoteOf(l) \in Vote /\ DOMAIN store[l].tree \subseteq Index
      /\ \A i \in DOMAIN store[l].tree : store[l].tree[i] \in Leader
      /\ decided \subseteq [index : Index, entry : Leader, vote : Vote]
  BY DEF TypeInv, TypeOK, VoteOf
<1> QED BY <1>1 DEF DecidedAfter

LEMMA TypeNext == TypeInv /\ [Next]_vars => TypeInv'
<1> SUFFICES ASSUME TypeInv, [Next]_vars PROVE TypeInv'
  OBVIOUS
<1>1. /\ service \in Services
      /\ up \subseteq Nodes
      /\ base \in [Nodes -> LogIds]
      /\ committed \in [Nodes -> 0..MaxLog]
      /\ matched \in [Nodes -> [Nodes -> 0..MaxLog]]
      /\ knows \subseteq Nodes
      /\ granted \in [Nodes -> SUBSET Nodes]
      /\ campaigns \in 0..MaxCampaigns
      /\ crashes \in 0..MaxCrashes
      /\ purges \in 0..MaxPurges
      /\ decided \subseteq [index : Index, entry : Leader, vote : Vote]
      /\ causes \subseteq Cause
  BY DEF TypeInv, TypeOK
<1>2. /\ 0 \in 0..MaxLog /\ NoneMatched \in [Nodes -> 0..MaxLog] /\ NoLogId \in LogIds
  BY Bounds, VotesTyped DEF NoneMatched
<1> USE DEF counters
<1>3. ASSUME NEW n \in Nodes, Campaign(n) PROVE TypeInv'
  <2>1. \A m \in Nodes : IsStore(store'[m]) /\ Durable(store[m])' /\ StoreTyped(store'[m])
    BY <1>3, CampaignEffect, StoreOfTyped
  <2>2. DOMAIN store' = Nodes /\ granted' \in [Nodes -> SUBSET Nodes]
    BY <1>1, <1>3, CampaignEffect DEF StoreOf
  <2> QED BY <1>1, <1>3, <2>1, <2>2, CampaignEffect, TypeByParts
<1>4. ASSUME NEW n \in Nodes, Elect(n) PROVE TypeInv'
  <2>1. StoreOf(n, store'[n])
    BY <1>4, ElectEffect DEF Grows
  <2>2. \A m \in Nodes : IsStore(store'[m]) /\ Durable(store[m])' /\ StoreTyped(store'[m])
    BY <1>4, <2>1, ElectEffect, StoreOfTyped
  <2>3. /\ DOMAIN store' = Nodes /\ granted' \in [Nodes -> SUBSET Nodes]
        /\ matched' \in [Nodes -> [Nodes -> 0..MaxLog]]
    <3>1. granted' = [granted EXCEPT ![n] = {}] /\ matched' = [matched EXCEPT ![n] = NoneMatched]
      BY <1>4, ElectEffect
    <3>2. granted' \in [Nodes -> SUBSET Nodes]
      BY <1>1, <3>1
    <3>3. matched' \in [Nodes -> [Nodes -> 0..MaxLog]]
      BY <1>1, <1>2, <3>1
    <3> QED BY <2>1, <3>2, <3>3 DEF StoreOf
  <2> QED BY <1>1, <1>4, <2>2, <2>3, ElectEffect, TypeByParts
<1>5. ASSUME NEW n \in Nodes, Propose(n) PROVE TypeInv'
  <2>1. StoreOf(n, store'[n])
    BY <1>5, ProposeEffect DEF Grows
  <2>2. \A m \in Nodes : IsStore(store'[m]) /\ Durable(store[m])' /\ StoreTyped(store'[m])
    BY <1>5, <2>1, ProposeEffect, StoreOfTyped
  <2>3. DOMAIN store' = Nodes
    BY <2>1 DEF StoreOf
  <2> QED BY <1>1, <1>5, <2>2, <2>3, ProposeEffect, TypeByParts
<1>6. ASSUME NEW c \in Nodes, NEW n \in Nodes, GrantVote(c, n) PROVE TypeInv'
  <2>1. \A m \in Nodes : IsStore(store'[m]) /\ Durable(store[m])' /\ StoreTyped(store'[m])
    BY <1>6, GrantEffect, StoreOfTyped
  <2>2. /\ DOMAIN store' = Nodes /\ granted' \in [Nodes -> SUBSET Nodes]
        /\ matched' \in [Nodes -> [Nodes -> 0..MaxLog]]
    <3>1. /\ granted' = [granted EXCEPT ![c] = @ \cup {n}, ![n] = {}]
          /\ matched' = [matched EXCEPT ![n] = NoneMatched]
          /\ DOMAIN store' = Nodes
      BY <1>6, GrantEffect DEF StoreOf
    <3>2. granted' \in [Nodes -> SUBSET Nodes]
      BY <1>1, <3>1
    <3>3. matched' \in [Nodes -> [Nodes -> 0..MaxLog]]
      BY <1>1, <1>2, <3>1
    <3> QED BY <3>1, <3>2, <3>3
  <2>3. causes' \subseteq Cause
    <3>1. causes' \subseteq causes \cup {"misjudged"}
      BY <1>6, GrantEffect
    <3> QED BY <1>1, <3>1 DEF Cause
  <2> QED BY <1>1, <1>6, <2>1, <2>2, <2>3, GrantEffect, TypeByParts
<1>7. ASSUME NEW l \in Nodes, NEW f \in Nodes, NEW p \in 0..MaxLog, NEW answered \in BOOLEAN,
             Replicate(l, f, p, answered)
      PROVE  TypeInv'
  <2> DEFINE r == Handled(l, f, p)
             m == MatchedAfter(l, f, p, answered)
             ci == CommitIndex(l, m)
  <2>1. /\ StoreOf(f, r.store)
        /\ matched' = [matched EXCEPT ![l] = m, ![f] = NoneMatched]
        /\ granted' = [granted EXCEPT ![f] = {}]
        /\ knows' \subseteq Nodes
        /\ committed' = [committed EXCEPT ![f] = r.committed, ![l] = ci]
        /\ decided' = DecidedAfter(l, ci)
        /\ causes' \subseteq Cause
        /\ UNCHANGED <<service, up, base, counters>>
    BY <1>7, ReplicateEffect
  <2>2. r.committed \in 0..MaxLog
    BY HandledEffect
  <2>3. ci \in 0..MaxLog
    BY CommitEffect
  <2>4. m \in [Nodes -> 0..MaxLog]
    <3>1. Last(l).index \in 0..MaxLog
      BY IdAtType DEF TypeInv, Last, LogIds
    <3> QED BY <1>1, <3>1 DEF MatchedAfter
  <2> HIDE DEF r, m, ci
  <2>5. \A n \in Nodes : IsStore(store'[n]) /\ Durable(store[n])' /\ StoreTyped(store'[n])
    BY <2>1, StoreOfTyped
  <2>6. /\ DOMAIN store' = Nodes /\ granted' \in [Nodes -> SUBSET Nodes]
        /\ matched' \in [Nodes -> [Nodes -> 0..MaxLog]]
        /\ committed' \in [Nodes -> 0..MaxLog]
    BY <1>1, <1>2, <2>1, <2>2, <2>3, <2>4 DEF StoreOf
  <2> QED BY <1>1, <2>1, <2>5, <2>6, DecidedTyped, TypeByParts
<1>8. ASSUME NEW l \in Nodes, NEW f \in Nodes, Refuse(l, f) PROVE TypeInv'
  <2>1. \A m \in Nodes : IsStore(store'[m]) /\ Durable(store[m])' /\ StoreTyped(store'[m])
    BY <1>8, RefuseEffect, StoreOfTyped
  <2>2. DOMAIN store' = Nodes /\ matched' \in [Nodes -> [Nodes -> 0..MaxLog]]
    BY <1>1, <1>2, <1>8, RefuseEffect DEF StoreOf
  <2> QED BY <1>1, <1>8, <2>1, <2>2, RefuseEffect, TypeByParts
<1>9. ASSUME NEW n \in Nodes, Purge(n) PROVE TypeInv'
  <2>1. \A m \in Nodes : IsStore(store'[m]) /\ Durable(store[m])' /\ StoreTyped(store'[m])
    BY <1>9, PurgeStep, StoreOfTyped
  <2>2. DOMAIN store' = Nodes /\ base' \in [Nodes -> LogIds]
    BY <1>1, <1>9, PurgeStep, SnapshotIdType DEF StoreOf
  <2> QED BY <1>1, <1>9, <2>1, <2>2, PurgeStep, TypeByParts
<1>10. ASSUME NEW n \in Nodes, Volatile(n), StoreOf(n, store'[n]), purges' \in 0..MaxPurges,
              causes' \subseteq Cause
       PROVE  TypeInv'
  <2>1. \A m \in Nodes : IsStore(store'[m]) /\ Durable(store[m])' /\ StoreTyped(store'[m])
    BY <1>10, StoreOfTyped DEF Volatile
  <2>2. /\ DOMAIN store' = Nodes /\ matched' \in [Nodes -> [Nodes -> 0..MaxLog]]
        /\ granted' \in [Nodes -> SUBSET Nodes]
        /\ committed' \in [Nodes -> 0..MaxLog]
        /\ base' \in [Nodes -> LogIds]
    BY <1>1, <1>2, <1>10 DEF StoreOf, Volatile
  <2> QED BY <1>1, <1>10, <2>1, <2>2, TypeByParts DEF Volatile
<1>11. ASSUME NEW n \in Nodes, Stopping(n) PROVE TypeInv'
  BY <1>1, <1>10, <1>11, StopEffect
<1>12. ASSUME NEW n \in Nodes, CrashInPurge(n) PROVE TypeInv'
  BY <1>1, <1>10, <1>12, CrashInPurgeEffect DEF Cause
<1>13. ASSUME NEW n \in Nodes, Restart(n) PROVE TypeInv'
  <2>1. \A m \in Nodes : IsStore(store[m]) /\ Durable(store[m]) /\ StoreTyped(store[m])
    BY StoresTyped DEF TypeInv
  <2>2. DOMAIN store' = Nodes /\ store' = store /\ service' = service
    BY <1>13, RestartEffect DEF TypeInv
  <2>3. \A m \in Nodes : IsStore(store'[m]) /\ Durable(store[m])' /\ StoreTyped(store'[m])
    BY <2>1, <2>2 DEF Durable
  <2>4. base' \in [Nodes -> LogIds]
    <3>1. base' = [base EXCEPT ![n] = IF DOMAIN store[n].tree = {} THEN NoLogId
                                      ELSE store[n].last_purged]
      BY <1>13, RestartEffect
    <3>2. store[n].last_purged \in LogIds
      BY <2>1 DEF IsStore
    <3> QED BY <1>1, <1>2, <3>1, <3>2
  <2>5. causes' \subseteq Cause
    <3>1. causes' \subseteq causes \cup {"emptied"}
      BY <1>13, RestartEffect
    <3> QED BY <1>1, <3>1 DEF Cause
  <2> QED BY <1>1, <1>13, <2>2, <2>3, <2>4, <2>5, RestartEffect, TypeByParts
<1>14. CASE UNCHANGED vars
  BY <1>14 DEF vars, TypeInv, TypeOK, Durable
<1> QED
  BY <1>3, <1>4, <1>5, <1>6, <1>7, <1>8, <1>9, <1>11, <1>12, <1>13, <1>14
  DEF Next, Stopping

\* A node stores and sends what Raft's messages can hold: votes of nodes, entries that a
\* leader wrote and log ids of a node (the log stores of both services and log_id in
\* raft-rpc, which makes up the node of an id from the sender's vote).
THEOREM TypeCorrect == Spec => []TypeOK
<1>1. Spec => []TypeInv
  BY TypeInit, TypeNext, PTL DEF Spec
<1>2. TypeInv => TypeOK
  BY DEF TypeInv
<1> QED BY <1>1, <1>2, PTL

LEMMA VoteOfTyped ==
  ASSUME TypeInv, NEW n \in Nodes
  PROVE  VoteOf(n) \in Votes /\ Ranked(VoteOf(n)) /\ VoteLeq(VoteOf(n), VoteOf(n))
<1>1. VoteOf(n) \in Votes
  BY DEF TypeInv, IsStore, VoteOf
<1> QED BY <1>1, VotesTyped DEF VoteLeq, SameLeader

LEMMA VoteRises ==
  ASSUME TypeInv, NEW n \in Nodes, NEW t, StoreOf(n, t), VoteLeq(VoteOf(n), t.vote)
  PROVE  \A m \in Nodes : VoteLeq(VoteOf(m), VoteOf(m)')
<1> SUFFICES ASSUME NEW m \in Nodes PROVE VoteLeq(VoteOf(m), VoteOf(m)')
  OBVIOUS
<1>1. VoteOf(m)' = IF m = n THEN t.vote ELSE VoteOf(m)
  BY DEF StoreOf, VoteOf
<1> QED BY <1>1, VoteOfTyped

LEMMA DbVotesRise ==
  ASSUME TypeInv, Next, service = "db"
  PROVE  \A n \in Nodes : VoteLeq(VoteOf(n), VoteOf(n)')
<1> DEFINE Rise == \A n \in Nodes : VoteLeq(VoteOf(n), VoteOf(n)')
<1>1. ASSUME NEW n \in Nodes, Campaign(n) PROVE Rise
  <2>1. /\ StoreOf(n, store'[n])
        /\ store'[n].vote = [term |-> VoteOf(n).term + 1, node |-> n, committed |-> FALSE]
    BY <1>1, CampaignEffect DEF Ballot
  <2>2. VoteOf(n).term \in Nat
    BY VoteOfTyped DEF Ranked
  <2>3. VoteLeq(VoteOf(n), store'[n].vote)
    BY <2>1, <2>2 DEF VoteLeq, LeaderBelow
  <2> QED BY <2>1, <2>3, VoteRises
<1>2. ASSUME NEW n \in Nodes, Elect(n) PROVE Rise
  <2>1. /\ StoreOf(n, store'[n])
        /\ store'[n].vote = [VoteOf(n) EXCEPT !.committed = TRUE]
    BY <1>2, ElectEffect DEF Grows
  <2>2. VoteOf(n) = [term |-> VoteOf(n).term, node |-> VoteOf(n).node, committed |-> VoteOf(n).committed]
    BY VoteOfTyped, VotesTyped
  <2>3. VoteLeq(VoteOf(n), store'[n].vote)
    BY <2>1, <2>2 DEF VoteLeq, SameLeader
  <2> QED BY <2>1, <2>3, VoteRises
<1>3. ASSUME NEW n \in Nodes, Propose(n) PROVE Rise
  <2>1. StoreOf(n, store'[n]) /\ store'[n].vote = VoteOf(n)
    BY <1>3, ProposeEffect DEF Grows
  <2> QED BY <2>1, VoteRises, VoteOfTyped
<1>4. ASSUME NEW c \in Nodes, NEW n \in Nodes, GrantVote(c, n) PROVE Rise
  BY <1>4, GrantEffect, VoteRises
<1>5. ASSUME NEW l \in Nodes, NEW f \in Nodes, NEW p \in 0..MaxLog, NEW answered \in BOOLEAN,
             Replicate(l, f, p, answered)
      PROVE  Rise
  <2>1. /\ VoteLeq(VoteOf(f), VoteOf(l))
        /\ StoreOf(f, Handled(l, f, p).store)
    BY <1>5, ReplicateEffect
  <2>2. Handled(l, f, p).store.vote = VoteOf(l)
    BY HandledEffect
  <2> QED BY <2>1, <2>2, VoteRises
<1>6. ASSUME NEW l \in Nodes, NEW f \in Nodes, Refuse(l, f) PROVE Rise
  <2>1. /\ ~ VoteLeq(VoteOf(f), VoteOf(l)) /\ VoteOf(l).committed
        /\ StoreOf(l, store'[l]) /\ store'[l].vote = VoteOf(f)
    BY <1>6, RefuseEffect DEF Leads
  <2>2. VoteLeq(VoteOf(l), VoteOf(f))
    BY <2>1, VoteOfTyped DEF Ranked, VoteLeq, LeaderBelow, SameLeader
  <2> QED BY <2>1, <2>2, VoteRises
<1>7. ASSUME NEW n \in Nodes, Purge(n) PROVE Rise
  BY <1>7, PurgeStep, VoteRises, VoteOfTyped
<1>8. ASSUME NEW n \in Nodes, Stopping(n) PROVE Rise
  <2>1. StoreOf(n, store'[n]) /\ store'[n].vote = VoteOf(n)
    BY <1>8, StopEffect
  <2> QED BY <2>1, VoteRises, VoteOfTyped
<1>9. ASSUME NEW n \in Nodes, CrashInPurge(n) PROVE Rise
  <2>1. StoreOf(n, store'[n]) /\ store'[n].vote = VoteOf(n)
    BY <1>9, CrashInPurgeEffect
  <2> QED BY <2>1, VoteRises, VoteOfTyped
<1>10. ASSUME NEW n \in Nodes, Restart(n) PROVE Rise
  <2>1. store' = store
    BY <1>10, RestartEffect
  <2> QED BY <2>1, VoteOfTyped DEF VoteOf
<1> HIDE DEF Rise
<1>11. Rise
  BY <1>1, <1>2, <1>3, <1>4, <1>5, <1>6, <1>7, <1>8, <1>9, <1>10 DEF Next, Stopping
<1> QED BY <1>11 DEF Rise

\* The DB flushes a vote before it answers (persist_vote), so whatever crashes, a node's
\* vote only rises: it never grants a vote or takes entries below what it answered to.
THEOREM DbVotesDurable == Spec => DbVotesNeverRecede
<1>1. TypeInv /\ [Next]_vars =>
        [service = "db" => \A n \in Nodes : VoteLeq(VoteOf(n), VoteOf(n)')]_vars
  BY DbVotesRise
<1> QED BY <1>1, TypeInit, TypeNext, PTL DEF Spec, DbVotesNeverRecede

-----------------------------------------------------------------------------
(* The logs of whole stores.                                               *)

Decisions == [index : Index, entry : Leader, vote : Vote]

Agreed(dec) == \A d, e \in dec : d.index = e.index => d.entry = e.entry

LEMMA TopType ==
  ASSUME NEW s, IsStore(s)
  PROVE  /\ Top(s) \in 0..MaxLog /\ s.last_purged.index \in 0..MaxLog
         /\ DOMAIN s.tree = {} => Top(s) = s.last_purged.index
         /\ DOMAIN s.tree # {} => Top(s) \in DOMAIN s.tree /\ \A j \in DOMAIN s.tree : j <= Top(s)
<1>1. s.last_purged.index \in 0..MaxLog /\ C!LastInTree(s).index \in 0..MaxLog
  BY LastEffect DEF IsStore, LogIds
<1> QED BY <1>1, LastEffect DEF Top

\* The greatest index of a tree that goes from the last purged one on.
LEMMA TopIs ==
  ASSUME NEW s, IsStore(s), NEW k \in 0..MaxLog, s.last_purged.index <= k,
         DOMAIN s.tree = (s.last_purged.index + 1)..k
  PROVE  Top(s) = k
<1>1. s.last_purged.index \in 0..MaxLog /\ Top(s) \in 0..MaxLog /\ MaxLog \in Nat
  BY TopType, Bounds
<1>2. CASE DOMAIN s.tree = {}
  <2>1. ~ (s.last_purged.index + 1 <= k)
    <3>1. s.last_purged.index + 1 <= k => k \in DOMAIN s.tree
      BY <1>1
    <3> QED BY <1>2, <3>1
  <2> QED BY <1>1, <1>2, <2>1, TopType
<1>3. CASE DOMAIN s.tree # {}
  <2>1. Top(s) \in DOMAIN s.tree /\ \A j \in DOMAIN s.tree : j <= Top(s)
    BY <1>3, TopType
  <2>2. k \in DOMAIN s.tree
    BY <1>1, <2>1
  <2> QED BY <1>1, <2>1, <2>2
<1> QED BY <1>2, <1>3

LEMMA FullLogIs ==
  ASSUME NEW s, IsStore(s), NEW dec, dec \subseteq Decisions, Whole(s, dec)
  PROVE  LET L == FullLog(s, dec)
         IN  /\ Top(s) \in 0..MaxLog /\ s.last_purged.index \in 0..Top(s)
             /\ DOMAIN L = 1..Top(s) /\ Len(L) = Top(s)
             /\ \A i \in 1..Top(s) :
                  /\ i \in DOMAIN s.tree <=> i > s.last_purged.index
                  /\ i \in DOMAIN s.tree => L[i] = s.tree[i]
                  /\ i \notin DOMAIN s.tree => \E d \in dec : d.index = i /\ L[i] = d.entry
                  /\ L[i] \in Leader
<1>1. Top(s) \in 0..MaxLog /\ MaxLog \in Nat /\ s.last_purged.index \in 0..MaxLog
  BY TopType, Bounds
<1>2. DOMAIN s.tree = (s.last_purged.index + 1)..Top(s)
  BY DEF Whole
<1>3. s.last_purged.index <= Top(s)
  <2>1. CASE DOMAIN s.tree = {}
    BY <1>1, <2>1, TopType
  <2>2. CASE DOMAIN s.tree # {}
    <3>1. Top(s) \in DOMAIN s.tree
      BY <2>2, TopType
    <3> QED BY <1>1, <1>2, <3>1
  <2> QED BY <2>1, <2>2
<1>4. DOMAIN FullLog(s, dec) = 1..Top(s) /\ Len(FullLog(s, dec)) = Top(s)
  BY <1>1 DEF FullLog
<1>5. ASSUME NEW i \in 1..Top(s)
      PROVE  /\ i \in DOMAIN s.tree <=> i > s.last_purged.index
             /\ i \in DOMAIN s.tree => FullLog(s, dec)[i] = s.tree[i]
             /\ i \notin DOMAIN s.tree => \E d \in dec : d.index = i /\ FullLog(s, dec)[i] = d.entry
             /\ FullLog(s, dec)[i] \in Leader
  <2>1. i \in DOMAIN s.tree <=> i > s.last_purged.index
    BY <1>1, <1>2
  <2>2. i \in DOMAIN s.tree => FullLog(s, dec)[i] = s.tree[i] /\ s.tree[i] \in Leader
    BY DEF FullLog, IsStore, IsTree
  <2>3. ASSUME i \notin DOMAIN s.tree
        PROVE  \E d \in dec : d.index = i /\ FullLog(s, dec)[i] = d.entry
    <3>1. i \in 1..s.last_purged.index
      BY <1>1, <2>1, <2>3
    <3>2. \E d \in dec : d.index = i
      BY <3>1 DEF Whole
    <3>3. LET d == CHOOSE d \in dec : d.index = i IN d \in dec /\ d.index = i
      BY <3>2
    <3> QED BY <2>3, <3>3 DEF FullLog
  <2>4. i \notin DOMAIN s.tree => FullLog(s, dec)[i] \in Leader
    BY <2>3 DEF Decisions
  <2> QED BY <2>1, <2>2, <2>3, <2>4
<1> QED BY <1>1, <1>3, <1>4, <1>5

\* A decided entry that was purged is in the full log.
LEMMA PurgedIs ==
  ASSUME NEW s, IsStore(s), NEW dec, dec \subseteq Decisions, Whole(s, dec), Agreed(dec),
         NEW d \in dec, d.index \in 1..s.last_purged.index
  PROVE  d.index \in 1..Top(s) /\ FullLog(s, dec)[d.index] = d.entry
<1>1. Top(s) \in 0..MaxLog /\ MaxLog \in Nat /\ s.last_purged.index \in 0..Top(s)
  BY FullLogIs, Bounds
<1>2. d.index \in 1..Top(s) /\ ~ (d.index > s.last_purged.index)
  BY <1>1
<1>3. \E e \in dec : e.index = d.index /\ FullLog(s, dec)[d.index] = e.entry
  BY <1>2, FullLogIs
<1> QED BY <1>2, <1>3 DEF Agreed

\* The log id at an index is that of the full log's entry there.
LEMMA IdIs ==
  ASSUME NEW s, IsStore(s), NEW dec, dec \subseteq Decisions, Whole(s, dec), Agreed(dec), NEW i
  PROVE  LET id == IdAt(s, s.last_purged, i)
         IN  /\ i \in s.last_purged.index..Top(s) => id.index = i
             /\ id.index # 0 => id.index = i /\ i \in s.last_purged.index..Top(s)
             /\ id.index = 0 => id = NoLogId
             /\ id.index # 0 => SameLeader(id, FullLog(s, dec)[i])
<1>1. /\ Top(s) \in 0..MaxLog /\ MaxLog \in Nat /\ s.last_purged.index \in 0..Top(s)
      /\ DOMAIN s.tree = (s.last_purged.index + 1)..Top(s)
      /\ s.last_purged.index = 0 => s.last_purged = NoLogId
  BY FullLogIs, Bounds DEF Whole
<1>2. CASE i \in DOMAIN s.tree
  <2>1. IdAt(s, s.last_purged, i) = [term |-> s.tree[i].term, node |-> s.tree[i].node, index |-> i]
    BY <1>2 DEF IdAt
  <2>2. i \in 1..Top(s) /\ i \in s.last_purged.index..Top(s) /\ i # 0
    BY <1>1, <1>2
  <2>3. FullLog(s, dec)[i] = s.tree[i]
    BY <1>2, <2>2, FullLogIs
  <2> QED BY <2>1, <2>2, <2>3 DEF SameLeader
<1>3. CASE i \notin DOMAIN s.tree /\ i = s.last_purged.index
  <2>1. IdAt(s, s.last_purged, i) = s.last_purged
    BY <1>3 DEF IdAt
  <2>2. i # 0 => SameLeader(s.last_purged, FullLog(s, dec)[i])
    <3> SUFFICES ASSUME i # 0 PROVE SameLeader(s.last_purged, FullLog(s, dec)[i])
      OBVIOUS
    <3>1. i \in 1..s.last_purged.index
      BY <1>1, <1>3
    <3>2. PICK d \in dec : d.index = i /\ SameLeader(s.last_purged, d.entry)
      BY <1>3, <3>1 DEF Whole
    <3> QED BY <3>1, <3>2, PurgedIs
  <2>3. i \in s.last_purged.index..Top(s)
    BY <1>1, <1>3
  <2> QED BY <1>1, <1>3, <2>1, <2>2, <2>3
<1>4. CASE i \notin DOMAIN s.tree /\ i # s.last_purged.index
  <2>1. IdAt(s, s.last_purged, i) = NoLogId
    BY <1>4 DEF IdAt
  <2>2. i \notin s.last_purged.index..Top(s)
    BY <1>1, <1>4
  <2> QED BY <2>1, <2>2 DEF NoLogId
<1> QED BY <1>2, <1>3, <1>4

LEMMA LastIs ==
  ASSUME NEW s, IsStore(s), NEW dec, dec \subseteq Decisions, Whole(s, dec), Agreed(dec)
  PROVE  LET id == LastId(s, s.last_purged)
         IN  /\ id.index = Top(s)
             /\ Top(s) # 0 => SameLeader(id, FullLog(s, dec)[Top(s)])
             /\ Top(s) = 0 => id = NoLogId
<1>1. /\ Top(s) \in 0..MaxLog /\ MaxLog \in Nat /\ s.last_purged.index \in 0..Top(s)
      /\ s.last_purged.index = 0 => s.last_purged = NoLogId
  BY FullLogIs, Bounds DEF Whole
<1>2. CASE DOMAIN s.tree = {}
  <2>1. Top(s) = s.last_purged.index /\ LastId(s, s.last_purged) = s.last_purged
    BY <1>2, TopType DEF LastId
  <2>2. IdAt(s, s.last_purged, Top(s)) = s.last_purged
    BY <1>2, <2>1 DEF IdAt
  <2> QED BY <1>1, <2>1, <2>2, IdIs
<1>3. CASE DOMAIN s.tree # {}
  <2> DEFINE id == LastInTree(s)
  <2>1. /\ LastId(s, s.last_purged) = id
        /\ Top(s) = id.index
        /\ id.index \in DOMAIN s.tree
        /\ id = [term |-> s.tree[id.index].term, node |-> s.tree[id.index].node, index |-> id.index]
    BY <1>3, LastEffect DEF LastId, Top
  <2>2. Top(s) \in 1..Top(s) /\ Top(s) # 0
    BY <1>1, <2>1, Bounds DEF IsStore, IsTree
  <2>3. FullLog(s, dec)[Top(s)] = s.tree[Top(s)]
    BY <2>1, <2>2, FullLogIs
  <2> HIDE DEF id
  <2> QED BY <2>1, <2>2, <2>3 DEF SameLeader
<1> QED BY <1>2, <1>3

LEMMA AbstractIs ==
  ASSUME NEW sto, NEW gr, NEW ma, NEW co, NEW dec
  PROVE  LET s == Abstract(sto, gr, ma, co, dec)
         IN  /\ \A n \in Nodes : s.vote[n] = sto[n].vote /\ s.log[n] = FullLog(sto[n], dec)
             /\ s.granted = gr /\ s.matched = ma /\ s.committed = co /\ s.decided = dec
BY DEF Abstract

LEMMA AbstractTyped ==
  ASSUME NEW s, NEW sto, NEW old, old \subseteq Decisions,
         \A n \in Nodes : IsStore(sto[n]) /\ Whole(sto[n], old),
         \A n \in Nodes : s.vote[n] = sto[n].vote /\ s.log[n] = FullLog(sto[n], old),
         s.granted \in [Nodes -> SUBSET Nodes],
         s.matched \in [Nodes -> [Nodes -> 0..MaxLog]],
         s.committed \in [Nodes -> 0..MaxLog],
         s.decided \subseteq Decisions
  PROVE  Typed(s)
<1>1. MaxLog \in Nat /\ 0..MaxLog \subseteq Nat
  BY Bounds
<1>2. ASSUME NEW n \in Nodes
      PROVE  /\ s.vote[n] \in Vote /\ Ranked(s.vote[n]) /\ s.vote[n].committed \in BOOLEAN
             /\ Len(s.log[n]) \in Nat
             /\ \A i \in 1..Len(s.log[n]) : s.log[n][i] \in Entry /\ Ranked(s.log[n][i])
             /\ \A m \in s.granted[n] : m \in Nodes
             /\ \A m \in Nodes : s.matched[n][m] \in Nat
             /\ s.committed[n] \in Nat
  <2>1. sto[n].vote \in Votes
    BY DEF IsStore
  <2>2. /\ Len(s.log[n]) = Top(sto[n]) /\ Top(sto[n]) \in 0..MaxLog
        /\ \A i \in 1..Top(sto[n]) : s.log[n][i] \in Leader
    BY FullLogIs
  <2>3. \A i \in 1..Len(s.log[n]) : s.log[n][i] \in Entry /\ Ranked(s.log[n][i])
    BY <2>2, Bounds
  <2>4. \A m \in s.granted[n] : m \in Nodes
    OBVIOUS
  <2>5. (\A m \in Nodes : s.matched[n][m] \in Nat) /\ s.committed[n] \in Nat
    BY <1>1
  <2>6. s.vote[n] \in Vote /\ Ranked(s.vote[n]) /\ s.vote[n].committed \in BOOLEAN
    BY <2>1, VotesTyped
  <2> QED BY <1>1, <2>2, <2>3, <2>4, <2>5, <2>6
<1>3. ASSUME NEW d \in s.decided
      PROVE  /\ d.index \in Nat /\ d.index > 0
             /\ d.entry \in Entry /\ Ranked(d.entry)
             /\ d.vote \in Vote /\ Ranked(d.vote)
  <2>1. d.index \in Index /\ d.entry \in Leader /\ d.vote \in Vote
    BY DEF Decisions
  <2>2. Ranked(d.vote)
    BY <2>1 DEF Vote, Ranked
  <2>3. d.index \in Nat /\ d.index > 0
    <3>1. \A i \in Index : i \in Nat /\ i > 0
      BY Bounds
    <3> QED BY <2>1, <3>1, Zenon
  <2> QED BY <2>1, <2>2, <2>3, Bounds
<1> QED BY <1>2, <1>3 DEF Typed

\* What the inductive invariant says of the logs, in the words of the abstract state.
LEMMA IntactIs ==
  ASSUME TypeInv, Intact
  PROVE  /\ decided \subseteq Decisions /\ Agreed(decided)
         /\ Abs.granted = granted /\ Abs.matched = matched /\ Abs.committed = committed
         /\ Abs.decided = decided
         /\ \A n \in Nodes :
              /\ IsStore(store[n]) /\ Whole(store[n], decided)
              /\ Abs.vote[n] = VoteOf(n) /\ Abs.log[n] = FullLog(store[n], decided)
              /\ Len(Abs.log[n]) = Top(store[n])
              /\ n \in up => base[n] = store[n].last_purged
              /\ n \in up => Last(n).index = Top(store[n])
         /\ \A n \in Nodes : \A i \in 1..committed[n] : \E d \in decided :
              d.index = i /\ Holds(Abs, n, i, d.entry) /\ VoteLeq(d.vote, VoteOf(n))
<1>1. decided \subseteq Decisions
  BY DEF TypeInv, TypeOK, Decisions
<1>2. /\ Abs.granted = granted /\ Abs.matched = matched /\ Abs.committed = committed
      /\ Abs.decided = decided
      /\ \A n \in Nodes : Abs.vote[n] = store[n].vote /\ Abs.log[n] = FullLog(store[n], decided)
  BY AbstractIs DEF Abs
<1>3. Agreed(decided)
  BY <1>2, DecidedAgree DEF Intact, Agreed
<1>4. ASSUME NEW n \in Nodes
      PROVE  /\ IsStore(store[n]) /\ Whole(store[n], decided)
             /\ Len(Abs.log[n]) = Top(store[n])
             /\ n \in up => base[n] = store[n].last_purged
             /\ n \in up => Last(n).index = Top(store[n])
  <2>1. IsStore(store[n]) /\ Whole(store[n], decided)
    BY DEF TypeInv, Intact
  <2>2. Len(Abs.log[n]) = Top(store[n])
    BY <1>1, <1>2, <2>1, FullLogIs
  <2>3. n \in up => base[n] = store[n].last_purged
    BY DEF Intact
  <2>4. LastId(store[n], store[n].last_purged).index = Top(store[n])
    BY <1>1, <1>3, <2>1, LastIs
  <2> QED BY <2>1, <2>2, <2>3, <2>4 DEF Last
<1>5. \A n \in Nodes : \A i \in 1..committed[n] : \E d \in decided :
        d.index = i /\ Holds(Abs, n, i, d.entry) /\ VoteLeq(d.vote, VoteOf(n))
  BY <1>2 DEF Intact, LogInv, CommittedDecided, VoteOf
<1> QED BY <1>1, <1>2, <1>3, <1>4, <1>5 DEF VoteOf

\* A store that keeps its log keeps its full log.
LEMMA SameFullLog ==
  ASSUME NEW s, NEW t, t.tree = s.tree, t.last_purged = s.last_purged, NEW dec
  PROVE  Top(t) = Top(s) /\ FullLog(t, dec) = FullLog(s, dec)
<1>1. Top(t) = Top(s)
  BY DEF Top, C!LastInTree
<1> QED BY <1>1 DEF FullLog

LEMMA StaysWhole ==
  ASSUME NEW s, IsStore(s), NEW t, IsStore(t), t.last_purged = s.last_purged,
         DOMAIN t.tree = (t.last_purged.index + 1)..Top(t),
         VoteLeq(s.vote, t.vote), NEW dec, dec \subseteq Decisions, Whole(s, dec)
  PROVE  Whole(t, dec)
<1>1. Ranked(s.vote) /\ Ranked(t.vote) /\ \A d \in dec : Ranked(d.vote)
  BY VotesTyped DEF IsStore, Decisions, Vote, Ranked
<1>2. ASSUME NEW i \in 1..s.last_purged.index
      PROVE  \E d \in dec : /\ d.index = i /\ VoteLeq(d.vote, t.vote)
                            /\ i = s.last_purged.index => SameLeader(s.last_purged, d.entry)
  <2>1. PICK d \in dec : /\ d.index = i /\ VoteLeq(d.vote, s.vote)
                         /\ i = s.last_purged.index => SameLeader(s.last_purged, d.entry)
    BY DEF Whole
  <2> QED BY <1>1, <2>1, VotesTransitive
<1> QED BY <1>2 DEF Whole

\* A step that changes at most a vote and volatile state.
LEMMA KeepsLogs ==
  ASSUME TypeInv, TypeInv', Intact, decided' = decided,
         \A n \in Nodes : /\ store'[n].tree = store[n].tree
                          /\ store'[n].last_purged = store[n].last_purged
                          /\ VoteLeq(VoteOf(n), VoteOf(n)')
  PROVE  /\ SameLogs(Abs, Abs') /\ Typed(Abs')
         /\ \A n \in Nodes : Whole(store'[n], decided') /\ Abs'.vote[n] = VoteOf(n)'
         /\ Abs'.granted = granted' /\ Abs'.matched = matched' /\ Abs'.committed = committed'
<1>1. Abs' = Abstract(store', granted', matched', committed', decided')
  BY DEF Abs
<1>2. /\ Abs'.granted = granted' /\ Abs'.matched = matched' /\ Abs'.committed = committed'
      /\ Abs'.decided = decided'
      /\ \A n \in Nodes : /\ Abs'.vote[n] = store'[n].vote
                          /\ Abs'.log[n] = FullLog(store'[n], decided')
  BY <1>1, AbstractIs
<1>3. decided \subseteq Decisions
  BY IntactIs
<1>4. ASSUME NEW n \in Nodes PROVE Whole(store'[n], decided') /\ IsStore(store'[n])
  <2>1. /\ IsStore(store[n]) /\ IsStore(store'[n]) /\ Whole(store[n], decided)
        /\ VoteLeq(store[n].vote, store'[n].vote)
    BY IntactIs DEF TypeInv, VoteOf
  <2>2. DOMAIN store'[n].tree = (store'[n].last_purged.index + 1)..Top(store'[n])
    BY <2>1, SameFullLog DEF Whole
  <2> QED BY <1>3, <2>1, <2>2, StaysWhole
<1>5. Abs'.log = Abs.log
  BY SameFullLog DEF Abs, Abstract
<1>6. Typed(Abs')
  <2>1. /\ granted' \in [Nodes -> SUBSET Nodes]
        /\ matched' \in [Nodes -> [Nodes -> 0..MaxLog]]
        /\ committed' \in [Nodes -> 0..MaxLog]
    BY DEF TypeInv, TypeOK
  <2> DEFINE t == Abs'
  <2>2. /\ t.granted = granted' /\ t.matched = matched' /\ t.committed = committed'
        /\ t.decided = decided'
        /\ \A n \in Nodes : t.vote[n] = store'[n].vote /\ t.log[n] = FullLog(store'[n], decided')
    BY <1>2
  <2>3. decided' \subseteq Decisions
    BY <1>3
  <2> HIDE DEF t
  <2>4. Typed(t)
    BY <1>4, <2>1, <2>2, <2>3, AbstractTyped
  <2> QED BY <2>4 DEF t
<1> QED BY <1>2, <1>4, <1>5, <1>6, IntactIs DEF SameLogs, VoteOf

-----------------------------------------------------------------------------
(* Each action is a step of the abstract state.                            *)

LEMMA IntactByParts ==
  ASSUME LogInv(Abs'),
         \A n \in Nodes : Whole(store'[n], decided'),
         \A n \in up' : base'[n] = store'[n].last_purged,
         \A n \in Nodes \ up' : committed'[n] = 0
  PROVE  Intact'
BY DEF Intact

LEMMA OnlyVote ==
  ASSUME TypeInv, NEW n \in Nodes, NEW t, StoreOf(n, t),
         t.tree = store[n].tree, t.last_purged = store[n].last_purged,
         VoteLeq(VoteOf(n), t.vote)
  PROVE  \A m \in Nodes : /\ store'[m].tree = store[m].tree
                          /\ store'[m].last_purged = store[m].last_purged
                          /\ VoteLeq(VoteOf(m), VoteOf(m)')
BY VoteRises DEF StoreOf

LEMMA CampaignIntact ==
  ASSUME TypeInv, TypeInv', Intact, NEW n \in Nodes, Campaign(n)
  PROVE  Intact'
<1>1. /\ Ballot(n) \in Votes /\ StoreOf(n, store'[n])
      /\ store'[n].vote = Ballot(n)
      /\ store'[n].tree = store[n].tree /\ store'[n].last_purged = store[n].last_purged
      /\ granted' = [granted EXCEPT ![n] = {n}]
      /\ UNCHANGED <<up, base, committed, matched, decided>>
  BY CampaignEffect
<1>2. LeaderBelow(VoteOf(n), Ballot(n)) /\ Ballot(n).node = n /\ ~ Ballot(n).committed
  BY VoteOfTyped DEF Ballot, Ranked, LeaderBelow
<1>3. VoteLeq(VoteOf(n), Ballot(n))
  BY <1>2 DEF VoteLeq
<1>4. \A m \in Nodes : /\ store'[m].tree = store[m].tree
                       /\ store'[m].last_purged = store[m].last_purged
                       /\ VoteLeq(VoteOf(m), VoteOf(m)')
  BY <1>1, <1>3, OnlyVote
<1>5. /\ SameLogs(Abs, Abs') /\ Typed(Abs')
      /\ \A m \in Nodes : Whole(store'[m], decided') /\ Abs'.vote[m] = VoteOf(m)'
      /\ Abs'.granted = granted' /\ Abs'.matched = matched' /\ Abs'.committed = committed'
  BY <1>1, <1>4, KeepsLogs
<1>6. \A m \in Nodes : VoteOf(m)' = IF m = n THEN Ballot(n) ELSE VoteOf(m)
  BY <1>1 DEF StoreOf, VoteOf
<1>7. granted \in [Nodes -> SUBSET Nodes]
  BY DEF TypeInv, TypeOK
<1>8. StepCampaign(Abs, Abs', n, Ballot(n))
  BY <1>1, <1>2, <1>5, <1>6, <1>7, IntactIs, VotesTyped DEF StepCampaign
<1>9. LogInv(Abs')
  BY <1>5, <1>8, CampaignKeepsLogInv DEF Intact
<1> QED BY <1>1, <1>4, <1>5, <1>9, IntactByParts DEF Intact, TypeInv, TypeOK

LEMMA GrantIntact ==
  ASSUME TypeInv, TypeInv', Intact, NEW c \in Nodes, NEW n \in Nodes, GrantVote(c, n), causes' = {}
  PROVE  Intact'
<1>1. /\ granted[c] # {} /\ c \in up /\ n \in up /\ n \notin granted[c]
      /\ VoteLeq(VoteOf(n), VoteOf(c))
      /\ StoreOf(n, store'[n])
      /\ store'[n].vote = VoteOf(c)
      /\ store'[n].tree = store[n].tree /\ store'[n].last_purged = store[n].last_purged
      /\ granted' = [granted EXCEPT ![c] = @ \cup {n}, ![n] = {}]
      /\ matched' = [matched EXCEPT ![n] = NoneMatched]
      /\ UNCHANGED <<up, base, committed, decided>>
  BY GrantEffect DEF Stands
<1>2. LogIdLeq(Last(n), Last(c))
  BY GrantEffect
<1>3. \A m \in Nodes : /\ store'[m].tree = store[m].tree
                       /\ store'[m].last_purged = store[m].last_purged
                       /\ VoteLeq(VoteOf(m), VoteOf(m)')
  BY <1>1, OnlyVote
<1>4. /\ SameLogs(Abs, Abs') /\ Typed(Abs')
      /\ \A m \in Nodes : Whole(store'[m], decided') /\ Abs'.vote[m] = VoteOf(m)'
      /\ Abs'.granted = granted' /\ Abs'.matched = matched' /\ Abs'.committed = committed'
  BY <1>1, <1>3, KeepsLogs
<1>5. \A m \in Nodes : VoteOf(m)' = IF m = n THEN VoteOf(c) ELSE VoteOf(m)
  BY <1>1 DEF StoreOf, VoteOf
<1>6. NotAhead(Abs, n, c)
  <2>1. ASSUME NEW m \in Nodes, m \in up
        PROVE  /\ Len(Abs.log[m]) \in Nat /\ Last(m).index = Len(Abs.log[m])
               /\ Len(Abs.log[m]) # 0 => SameLeader(Last(m), Abs.log[m][Len(Abs.log[m])])
               /\ Len(Abs.log[m]) = 0 => Last(m) = NoLogId
    <3>1. /\ IsStore(store[m]) /\ Whole(store[m], decided)
          /\ decided \subseteq Decisions /\ Agreed(decided)
          /\ Abs.log[m] = FullLog(store[m], decided)
          /\ Len(Abs.log[m]) = Top(store[m])
          /\ Last(m) = LastId(store[m], store[m].last_purged)
      BY <2>1, IntactIs DEF Last
    <3>2. Top(store[m]) \in Nat
      BY <3>1, TopType, Bounds
    <3> QED BY <3>1, <3>2, LastIs
  <2>2. \A m \in Nodes : \A i \in 1..Len(Abs.log[m]) : Ranked(Abs.log[m][i]) /\ Abs.log[m][i].term > 0
    <3> SUFFICES ASSUME NEW m \in Nodes, NEW i \in 1..Len(Abs.log[m])
                 PROVE  Ranked(Abs.log[m][i]) /\ Abs.log[m][i].term > 0
      OBVIOUS
    <3>1. Abs.log[m][i] \in Leader
      BY IntactIs, FullLogIs
    <3> QED BY <3>1, Bounds
  <2> DEFINE i == Len(Abs.log[n])
             j == Len(Abs.log[c])
  <2> SUFFICES ASSUME i > 0
               PROVE  /\ j > 0
                      /\ \/ LeaderBelow(Abs.log[n][i], Abs.log[c][j])
                         \/ SameLeader(Abs.log[n][i], Abs.log[c][j]) /\ i <= j
    BY DEF NotAhead
  <2>3. /\ i \in Nat /\ Last(n).index = i /\ SameLeader(Last(n), Abs.log[n][i])
        /\ Ranked(Abs.log[n][i]) /\ Abs.log[n][i].term > 0
    BY <1>1, <2>1, <2>2
  <2>4. j \in Nat /\ Last(c).index = j
    BY <1>1, <2>1
  <2>5. j # 0
    <3> SUFFICES ASSUME j = 0 PROVE FALSE
      OBVIOUS
    <3>1. Last(c) = NoLogId
      BY <1>1, <2>1
    <3> QED BY <1>2, <2>3, <3>1 DEF NoLogId, LogIdLeq, LeaderBelow, SameLeader, Ranked
  <2>6. SameLeader(Last(c), Abs.log[c][j]) /\ Ranked(Abs.log[c][j])
    BY <1>1, <2>1, <2>2, <2>4, <2>5
  <2> HIDE DEF i, j
  <2> QED BY <1>2, <2>3, <2>4, <2>5, <2>6 DEF LogIdLeq, LeaderBelow, SameLeader
<1>7. granted \in [Nodes -> SUBSET Nodes] /\ matched \in [Nodes -> [Nodes -> 0..MaxLog]]
  BY DEF TypeInv, TypeOK
<1>8. StepGrant(Abs, Abs', c, n)
  <2>1. n # c
    BY <1>1, IntactIs DEF Intact, LogInv, BallotsCast
  <2>2. \A m \in Nodes : granted'[m] = IF m = n THEN {} ELSE IF m = c THEN granted[c] \cup {n}
                                       ELSE granted[m]
    BY <1>1, <1>7, <2>1
  <2>3. \A m \in Nodes : m # n => matched'[m] = matched[m]
    BY <1>1, <1>7
  <2>4. /\ Abs.granted = granted /\ Abs.matched = matched /\ Abs.committed = committed
        /\ \A m \in Nodes : Abs.vote[m] = VoteOf(m)
    BY IntactIs
  <2>5. /\ Abs.granted[c] # {} /\ n \notin Abs.granted[c]
        /\ VoteLeq(Abs.vote[n], Abs.vote[c])
        /\ Abs'.committed = Abs.committed
    BY <1>1, <1>4, <2>4
  <2>6. \A m \in Nodes : Abs'.vote[m] = IF m = n THEN Abs.vote[c] ELSE Abs.vote[m]
    BY <1>4, <1>5, <2>4
  <2>7. \A m \in Nodes : /\ Abs'.granted[m] = IF m = n THEN {}
                                               ELSE IF m = c THEN Abs.granted[c] \cup {n}
                                               ELSE Abs.granted[m]
                         /\ m # n => Abs'.matched[m] = Abs.matched[m]
    BY <1>4, <2>2, <2>3, <2>4
  <2> QED BY <1>4, <1>6, <2>5, <2>6, <2>7 DEF StepGrant
<1>9. LogInv(Abs')
  BY <1>4, <1>8, GrantKeepsLogInv DEF Intact
<1> QED BY <1>1, <1>3, <1>4, <1>9, IntactByParts DEF Intact, TypeInv, TypeOK

LEMMA RefuseIntact ==
  ASSUME TypeInv, TypeInv', Intact, NEW l \in Nodes, NEW f \in Nodes, Refuse(l, f)
  PROVE  Intact'
<1>1. /\ VoteOf(l).node = l /\ VoteOf(l).committed /\ ~ VoteLeq(VoteOf(f), VoteOf(l))
      /\ StoreOf(l, store'[l])
      /\ store'[l].vote = VoteOf(f)
      /\ store'[l].tree = store[l].tree /\ store'[l].last_purged = store[l].last_purged
      /\ matched' = [matched EXCEPT ![l] = NoneMatched]
      /\ UNCHANGED <<up, base, committed, granted, decided>>
  BY RefuseEffect DEF Leads
<1>2. VoteLeq(VoteOf(l), VoteOf(f))
  BY <1>1, VoteOfTyped DEF Ranked, VoteLeq, LeaderBelow, SameLeader
<1>3. \A m \in Nodes : /\ store'[m].tree = store[m].tree
                       /\ store'[m].last_purged = store[m].last_purged
                       /\ VoteLeq(VoteOf(m), VoteOf(m)')
  BY <1>1, <1>2, OnlyVote
<1>4. /\ SameLogs(Abs, Abs') /\ Typed(Abs')
      /\ \A m \in Nodes : Whole(store'[m], decided') /\ Abs'.vote[m] = VoteOf(m)'
      /\ Abs'.granted = granted' /\ Abs'.matched = matched' /\ Abs'.committed = committed'
  BY <1>1, <1>3, KeepsLogs
<1>5. /\ Abs.granted = granted /\ Abs.matched = matched /\ Abs.committed = committed
      /\ \A m \in Nodes : Abs.vote[m] = VoteOf(m)
  BY IntactIs
<1>6. StepRefuse(Abs, Abs', l, f)
  <2>1. \A m \in Nodes : Abs'.vote[m] = IF m = l THEN Abs.vote[f] ELSE Abs.vote[m]
    <3>1. \A m \in Nodes : VoteOf(m)' = IF m = l THEN VoteOf(f) ELSE VoteOf(m)
      BY <1>1 DEF StoreOf, VoteOf
    <3> QED BY <1>4, <1>5, <3>1
  <2>2. \A m \in Nodes : m # l => Abs'.matched[m] = Abs.matched[m]
    BY <1>1, <1>4, <1>5 DEF TypeInv, TypeOK
  <2>3. Writing(Abs, l) /\ ~ VoteLeq(Abs.vote[f], Abs.vote[l])
    BY <1>1, <1>5 DEF Writing
  <2>4. Abs'.granted = Abs.granted /\ Abs'.committed = Abs.committed
    BY <1>1, <1>4, <1>5
  <2> QED BY <1>4, <2>1, <2>2, <2>3, <2>4 DEF StepRefuse
<1>7. LogInv(Abs')
  BY <1>4, <1>6, RefuseKeepsLogInv DEF Intact
<1> QED BY <1>1, <1>3, <1>4, <1>7, IntactByParts DEF Intact, TypeInv, TypeOK

LEMMA StopIntact ==
  ASSUME TypeInv, TypeInv', Intact, NEW n \in Nodes, Stopping(n), causes' = {}
  PROVE  Intact'
<1>1. /\ StoreOf(n, store'[n])
      /\ store'[n].vote = VoteOf(n)
      /\ store'[n].tree = store[n].tree /\ store'[n].last_purged = store[n].last_purged
  BY StopEffect
<1>2. /\ up' = up \ {n}
      /\ base' = [base EXCEPT ![n] = NoLogId]
      /\ committed' = [committed EXCEPT ![n] = 0]
      /\ matched' = [matched EXCEPT ![n] = NoneMatched]
      /\ granted' = [granted EXCEPT ![n] = {}]
      /\ decided' = decided
  BY StopEffect DEF Volatile
<1>3. \A m \in Nodes : /\ store'[m].tree = store[m].tree
                       /\ store'[m].last_purged = store[m].last_purged
                       /\ VoteLeq(VoteOf(m), VoteOf(m)')
  BY <1>1, OnlyVote, VoteOfTyped
<1>4. /\ SameLogs(Abs, Abs') /\ Typed(Abs')
      /\ \A m \in Nodes : Whole(store'[m], decided')
      /\ Abs'.granted = granted' /\ Abs'.matched = matched' /\ Abs'.committed = committed'
  BY <1>2, <1>3, KeepsLogs
<1>5. Abs'.vote = Abs.vote
  <2>1. \A m \in Nodes : store'[m].vote = store[m].vote
    BY <1>1 DEF StoreOf, VoteOf
  <2> QED BY <2>1 DEF Abs, Abstract
<1>6. /\ Abs.granted = granted /\ Abs.matched = matched /\ Abs.committed = committed
  BY IntactIs
<1>7. StepForget(Abs, Abs', n)
  <2>1. /\ granted \in [Nodes -> SUBSET Nodes] /\ matched \in [Nodes -> [Nodes -> 0..MaxLog]]
        /\ committed \in [Nodes -> 0..MaxLog]
    BY DEF TypeInv, TypeOK
  <2>2. \A m \in Nodes : /\ granted'[m] = IF m = n THEN {} ELSE granted[m]
                         /\ committed'[m] = IF m = n THEN 0 ELSE committed[m]
    BY <1>2, <2>1
  <2>3. \A m \in Nodes : \A k \in Nodes : matched'[m][k] = IF m = n THEN 0 ELSE matched[m][k]
    BY <1>2, <2>1 DEF NoneMatched
  <2> QED BY <1>4, <1>5, <1>6, <2>2, <2>3 DEF StepForget
<1>8. LogInv(Abs')
  BY <1>4, <1>7, ForgetKeepsLogInv DEF Intact
<1>9. \A m \in up' : base'[m] = store'[m].last_purged
  BY <1>2, <1>3 DEF Intact, TypeInv, TypeOK
<1>10. \A m \in Nodes \ up' : committed'[m] = 0
  BY <1>2 DEF Intact, TypeInv, TypeOK
<1> QED BY <1>4, <1>8, <1>9, <1>10, IntactByParts

LEMMA RestartIntact ==
  ASSUME TypeInv, TypeInv', Intact, NEW n \in Nodes, Restart(n), causes' = {}
  PROVE  Intact'
<1>1. /\ n \in Nodes \ up /\ up' = up \cup {n}
      /\ base' = [base EXCEPT ![n] = IF DOMAIN store[n].tree = {} THEN NoLogId
                                     ELSE store[n].last_purged]
      /\ UNCHANGED <<store, committed, matched, granted, decided>>
  BY RestartEffect
<1>2. ~ (DOMAIN store[n].tree = {} /\ store[n].last_purged # NoLogId)
  BY RestartEffect
<1>3. Abs' = Abs
  BY <1>1 DEF Abs
<1>4. \A m \in up' : base'[m] = store'[m].last_purged
  BY <1>1, <1>2 DEF Intact, TypeInv, TypeOK
<1> QED BY <1>1, <1>3, <1>4, IntactByParts DEF Intact

\* A step that changes one node's store, and what was decided not at all.
LEMMA OneStore ==
  ASSUME TypeInv, TypeInv', Intact, decided' = decided, NEW n \in Nodes,
         StoreOf(n, store'[n]), Whole(store'[n], decided)
  PROVE  /\ Typed(Abs') /\ Abs'.decided = Abs.decided
         /\ \A m \in Nodes :
              /\ Whole(store'[m], decided')
              /\ Abs'.vote[m] = IF m = n THEN store'[n].vote ELSE Abs.vote[m]
              /\ m # n => Abs'.log[m] = Abs.log[m]
         /\ Abs'.log[n] = FullLog(store'[n], decided)
         /\ Abs'.granted = granted' /\ Abs'.matched = matched' /\ Abs'.committed = committed'
<1>1. Abs' = Abstract(store', granted', matched', committed', decided')
  BY DEF Abs
<1>2. /\ Abs'.granted = granted' /\ Abs'.matched = matched' /\ Abs'.committed = committed'
      /\ Abs'.decided = decided'
      /\ \A m \in Nodes : /\ Abs'.vote[m] = store'[m].vote
                          /\ Abs'.log[m] = FullLog(store'[m], decided')
  BY <1>1, AbstractIs
<1>3. decided \subseteq Decisions
  BY IntactIs
<1>4. \A m \in Nodes : m # n => store'[m] = store[m]
  BY DEF StoreOf
<1>5. ASSUME NEW m \in Nodes PROVE Whole(store'[m], decided') /\ IsStore(store'[m])
  BY <1>4, IntactIs DEF TypeInv
<1>6. Typed(Abs')
  <2>1. /\ granted' \in [Nodes -> SUBSET Nodes]
        /\ matched' \in [Nodes -> [Nodes -> 0..MaxLog]]
        /\ committed' \in [Nodes -> 0..MaxLog]
    BY DEF TypeInv, TypeOK
  <2> DEFINE t == Abs'
  <2>2. /\ t.granted = granted' /\ t.matched = matched' /\ t.committed = committed'
        /\ t.decided = decided'
        /\ \A m \in Nodes : t.vote[m] = store'[m].vote /\ t.log[m] = FullLog(store'[m], decided')
    BY <1>2
  <2>3. decided' \subseteq Decisions
    BY <1>3
  <2> HIDE DEF t
  <2>4. Typed(t)
    BY <1>5, <2>1, <2>2, <2>3, AbstractTyped
  <2> QED BY <2>4 DEF t
<1>7. \A m \in Nodes : /\ Abs'.vote[m] = IF m = n THEN store'[n].vote ELSE Abs.vote[m]
                       /\ m # n => Abs'.log[m] = Abs.log[m]
  BY <1>2, <1>4, IntactIs DEF VoteOf
<1> QED BY <1>2, <1>5, <1>6, <1>7, IntactIs

\* A log that grows.
LEMMA GrowsAppends ==
  ASSUME TypeInv, TypeInv', Intact, decided' = decided, NEW n \in Nodes, n \in up, NEW v,
         Grows(n, store[n], v), VoteLeq(VoteOf(n), v), v.node = n
  PROVE  Whole(store'[n], decided) /\ Appends(Abs, Abs', n)
<1> DEFINE s == store[n]
           t == store'[n]
           N == Top(s)
           L == FullLog(s, decided)
           K == FullLog(t, decided)
<1>1. /\ Last(n).index = N /\ IsStore(s) /\ Whole(s, decided) /\ decided \subseteq Decisions
      /\ Agreed(decided) /\ Abs.log[n] = L
  BY IntactIs
<1>2. /\ N \in 0..MaxLog /\ s.last_purged.index \in 0..N
      /\ Len(L) = N
      /\ \A i \in 1..N :
           /\ i \in DOMAIN s.tree <=> i > s.last_purged.index
           /\ i \in DOMAIN s.tree => L[i] = s.tree[i]
  BY <1>1, FullLogIs
<1>3. /\ N + 1 \in Index /\ StoreOf(n, t) /\ IsStore(t)
      /\ t.last_purged = s.last_purged /\ t.vote = v
      /\ DOMAIN t.tree = DOMAIN s.tree \cup {N + 1}
      /\ \A j \in DOMAIN t.tree :
           t.tree[j] = IF j = N + 1 THEN [term |-> v.term, node |-> n] ELSE s.tree[j]
  BY <1>1 DEF Grows, StoreOf
<1>4. MaxLog \in Nat /\ N + 1 \in 1..MaxLog /\ DOMAIN s.tree = (s.last_purged.index + 1)..N
  BY <1>1, <1>3, Bounds DEF Index, Whole
<1>5. DOMAIN t.tree = (t.last_purged.index + 1)..(N + 1)
  BY <1>2, <1>3, <1>4
<1>6. Top(t) = N + 1
  <2>1. N + 1 \in 0..MaxLog /\ t.last_purged.index <= N + 1
    BY <1>2, <1>3, <1>4
  <2> QED BY <1>3, <1>5, <2>1, TopIs
<1>7. Whole(t, decided)
  <2>1. VoteLeq(s.vote, t.vote) /\ DOMAIN t.tree = (t.last_purged.index + 1)..Top(t)
    BY <1>3, <1>5, <1>6 DEF VoteOf
  <2> HIDE DEF s, t
  <2> QED BY <1>1, <1>3, <2>1, StaysWhole
<1>8. /\ Len(K) = N + 1
      /\ \A i \in 1..(N + 1) : i \in DOMAIN t.tree => K[i] = t.tree[i]
  BY <1>1, <1>3, <1>6, <1>7, FullLogIs
<1>9. \A i \in 1..N : K[i] = L[i]
  <2> SUFFICES ASSUME NEW i \in 1..N PROVE K[i] = L[i]
    OBVIOUS
  <2>1. i \in 1..(N + 1) /\ i # N + 1
    BY <1>2
  <2>2. i \in DOMAIN t.tree <=> i \in DOMAIN s.tree
    BY <1>3, <2>1
  <2>3. CASE i \in DOMAIN s.tree
    BY <1>2, <1>3, <1>8, <2>1, <2>2, <2>3
  <2>4. CASE i \notin DOMAIN s.tree
    BY <1>6, <2>1, <2>2, <2>4 DEF FullLog
  <2> QED BY <2>3, <2>4
<1>10. K[N + 1] = [term |-> v.term, node |-> n]
  <2>1. N + 1 \in DOMAIN t.tree /\ N + 1 \in 1..(N + 1)
    BY <1>2, <1>3
  <2> QED BY <1>3, <1>8, <2>1
<1>11. /\ Abs'.log[n] = K /\ Abs'.vote[n] = v
       /\ \A m \in Nodes : m # n => Abs'.log[m] = Abs.log[m]
  BY <1>3, <1>7, OneStore
<1> HIDE DEF s, t, N, L, K
<1>12. Appends(Abs, Abs', n)
  BY <1>1, <1>2, <1>8, <1>9, <1>10, <1>11 DEF Appends, SameLeader
<1> QED BY <1>7, <1>12 DEF t

LEMMA ProposeIntact ==
  ASSUME TypeInv, TypeInv', Intact, NEW n \in Nodes, Propose(n)
  PROVE  Intact'
<1>1. /\ n \in up /\ VoteOf(n).node = n /\ VoteOf(n).committed
      /\ Grows(n, store[n], VoteOf(n))
      /\ UNCHANGED <<up, base, committed, matched, granted, decided>>
  BY ProposeEffect DEF Leads
<1>2. Whole(store'[n], decided) /\ Appends(Abs, Abs', n)
  BY <1>1, GrowsAppends, VoteOfTyped
<1>3. StoreOf(n, store'[n]) /\ store'[n].vote = VoteOf(n) /\ store'[n].last_purged = store[n].last_purged
  BY <1>1 DEF Grows
<1>4. /\ Typed(Abs') /\ Abs'.decided = Abs.decided
      /\ \A m \in Nodes : Whole(store'[m], decided')
      /\ Abs'.granted = granted' /\ Abs'.matched = matched' /\ Abs'.committed = committed'
  BY <1>1, <1>2, <1>3, OneStore
<1>5. Abs'.vote = Abs.vote
  <2>1. \A m \in Nodes : store'[m].vote = store[m].vote
    BY <1>3 DEF StoreOf, VoteOf
  <2> QED BY <2>1 DEF Abs, Abstract
<1>6. StepPropose(Abs, Abs', n)
  BY <1>1, <1>2, <1>4, <1>5, IntactIs DEF StepPropose, Writing
<1>7. LogInv(Abs')
  BY <1>4, <1>6, ProposeKeepsLogInv DEF Intact
<1>8. \A m \in up' : base'[m] = store'[m].last_purged
  BY <1>1, <1>3 DEF Intact, StoreOf, TypeInv, TypeOK
<1> QED BY <1>1, <1>4, <1>7, <1>8, IntactByParts DEF Intact

LEMMA ElectIntact ==
  ASSUME TypeInv, TypeInv', Intact, NEW n \in Nodes, Elect(n)
  PROVE  Intact'
<1> DEFINE v == [VoteOf(n) EXCEPT !.committed = TRUE]
<1>1. /\ n \in up /\ VoteOf(n).node = n /\ granted[n] \in Quorums
      /\ Grows(n, store[n], v)
      /\ matched' = [matched EXCEPT ![n] = NoneMatched]
      /\ granted' = [granted EXCEPT ![n] = {}]
      /\ UNCHANGED <<up, base, committed, decided>>
  BY ElectEffect DEF Stands
<1>2. SameLeader(v, VoteOf(n)) /\ v.committed /\ v.node = n
  <2>1. VoteOf(n) = [term |-> VoteOf(n).term, node |-> VoteOf(n).node, committed |-> VoteOf(n).committed]
    BY VoteOfTyped, VotesTyped
  <2> QED BY <1>1, <2>1 DEF SameLeader
<1> HIDE DEF v
<1>3. VoteLeq(VoteOf(n), v)
  BY <1>2 DEF VoteLeq, SameLeader
<1>4. Whole(store'[n], decided) /\ Appends(Abs, Abs', n)
  BY <1>1, <1>2, <1>3, GrowsAppends
<1>5. StoreOf(n, store'[n]) /\ store'[n].vote = v /\ store'[n].last_purged = store[n].last_purged
  BY <1>1 DEF Grows
<1>6. /\ Typed(Abs') /\ Abs'.decided = Abs.decided
      /\ \A m \in Nodes : /\ Whole(store'[m], decided')
                          /\ Abs'.vote[m] = IF m = n THEN v ELSE Abs.vote[m]
      /\ Abs'.granted = granted' /\ Abs'.matched = matched' /\ Abs'.committed = committed'
  BY <1>1, <1>4, <1>5, OneStore
<1>7. /\ Abs.granted = granted /\ Abs.matched = matched /\ Abs.committed = committed
      /\ \A m \in Nodes : Abs.vote[m] = VoteOf(m)
  BY IntactIs
<1>8. StepElect(Abs, Abs', n)
  <2>1. /\ granted \in [Nodes -> SUBSET Nodes] /\ matched \in [Nodes -> [Nodes -> 0..MaxLog]]
    BY DEF TypeInv, TypeOK
  <2>2. \A m \in Nodes : /\ granted'[m] = IF m = n THEN {} ELSE granted[m]
                         /\ m # n => matched'[m] = matched[m]
                         /\ matched'[n][m] = 0
    BY <1>1, <2>1 DEF NoneMatched
  <2> QED BY <1>1, <1>2, <1>4, <1>6, <1>7, <2>2 DEF StepElect
<1>9. LogInv(Abs')
  BY <1>6, <1>8, ElectKeepsLogInv DEF Intact
<1>10. \A m \in up' : base'[m] = store'[m].last_purged
  BY <1>1, <1>5 DEF Intact, StoreOf, TypeInv, TypeOK
<1> QED BY <1>1, <1>6, <1>9, <1>10, IntactByParts DEF Intact

LEMMA PurgeIntact ==
  ASSUME TypeInv, TypeInv', Intact, NEW n \in Nodes, Purge(n)
  PROVE  Intact'
<1> DEFINE s == store[n]
           t == store'[n]
           N == Top(s)
           c == committed[n]
           L == FullLog(s, decided)
<1>1. /\ n \in up /\ base[n].index < c /\ c \in DOMAIN s.tree
      /\ StoreOf(n, t) /\ IsStore(t)
      /\ t.vote = s.vote /\ t.last_purged = SnapshotId(n)
      /\ DOMAIN t.tree = {j \in DOMAIN s.tree : j > c}
      /\ \A j \in DOMAIN t.tree : t.tree[j] = s.tree[j]
      /\ base' = [base EXCEPT ![n] = SnapshotId(n)]
      /\ UNCHANGED <<up, committed, matched, granted, decided>>
  BY PurgeStep DEF Without, StoreOf, VoteOf
<1>2. SnapshotId(n).index = c /\ SameLeader(SnapshotId(n), s.tree[c])
  BY <1>1, SnapshotIdType
<1>3. /\ IsStore(s) /\ Whole(s, decided) /\ decided \subseteq Decisions
      /\ Agreed(decided) /\ Abs.log[n] = L /\ Len(Abs.log[n]) = N
  BY IntactIs
<1>4. /\ N \in 0..MaxLog /\ MaxLog \in Nat /\ s.last_purged.index \in 0..N
      /\ DOMAIN L = 1..N
      /\ \A i \in 1..N :
           /\ i \in DOMAIN s.tree <=> i > s.last_purged.index
           /\ i \in DOMAIN s.tree => L[i] = s.tree[i]
  BY <1>3, FullLogIs, Bounds
<1>5. DOMAIN s.tree = (s.last_purged.index + 1)..N
  BY <1>3 DEF Whole
<1>6. c \in 1..N /\ c > s.last_purged.index
  BY <1>1, <1>4, <1>5
\* What is purged is committed, so it was decided.
<1>7. ASSUME NEW i \in 1..c
      PROVE  \E d \in decided : d.index = i /\ L[i] = d.entry /\ VoteLeq(d.vote, s.vote)
  <2>1. PICK d \in decided : d.index = i /\ Holds(Abs, n, i, d.entry) /\ VoteLeq(d.vote, VoteOf(n))
    BY IntactIs
  <2> QED BY <1>3, <2>1 DEF Holds, VoteOf
<1>8. DOMAIN t.tree = (c + 1)..N
  BY <1>1, <1>4, <1>5, <1>6
<1>9. Top(t) = N
  <2>1. t.last_purged.index = c /\ c <= N
    BY <1>1, <1>2, <1>6
  <2> QED BY <1>1, <1>4, <1>8, <2>1, TopIs
<1>10. Whole(t, decided)
  <2>1. t.last_purged.index = c /\ c # 0
    BY <1>1, <1>2, <1>6
  <2>2. ASSUME NEW i \in 1..c
        PROVE  \E d \in decided : /\ d.index = i /\ VoteLeq(d.vote, t.vote)
                                  /\ i = c => SameLeader(t.last_purged, d.entry)
    <3>1. PICK d \in decided : d.index = i /\ L[i] = d.entry /\ VoteLeq(d.vote, s.vote)
      BY <1>7
    <3>2. L[c] = s.tree[c]
      BY <1>1, <1>4, <1>6
    <3>3. i = c => SameLeader(t.last_purged, d.entry)
      BY <1>1, <1>2, <3>1, <3>2
    <3>4. VoteLeq(d.vote, t.vote)
      BY <1>1, <3>1
    <3> QED BY <3>1, <3>3, <3>4
  <2> HIDE DEF t, c
  <2> QED BY <1>8, <1>9, <2>1, <2>2 DEF Whole
<1>11. FullLog(t, decided) = L
  <2>1. ASSUME NEW i \in 1..N
        PROVE  L[i] = IF i \in DOMAIN t.tree THEN t.tree[i]
                      ELSE (CHOOSE d \in decided : d.index = i).entry
    <3>1. CASE i \in DOMAIN t.tree
      BY <1>1, <1>4, <3>1
    <3>2. CASE i \notin DOMAIN t.tree
      <4>1. i \in 1..c
        BY <1>4, <1>6, <1>8, <3>2
      <4>2. PICK d \in decided : d.index = i /\ L[i] = d.entry
        BY <1>7, <4>1
      <4>3. LET e == CHOOSE e \in decided : e.index = i IN e \in decided /\ e.index = i
        BY <4>2
      <4> QED BY <1>3, <3>2, <4>2, <4>3 DEF Agreed
    <3> QED BY <3>1, <3>2
  <2>2. L = [i \in 1..N |-> L[i]]
    BY <1>4 DEF FullLog
  <2> HIDE DEF L, N
  <2> QED BY <1>9, <2>1, <2>2 DEF FullLog
<1>12. /\ Typed(Abs')
       /\ \A m \in Nodes : Whole(store'[m], decided')
  BY <1>1, <1>10, OneStore
<1>13. Abs' = Abs
  <2>1. \A m \in Nodes : /\ store'[m].vote = store[m].vote
                         /\ FullLog(store'[m], decided) = FullLog(store[m], decided)
    BY <1>1, <1>11 DEF StoreOf
  <2> QED BY <1>1, <2>1 DEF Abs, Abstract
<1>14. \A m \in up' : base'[m] = store'[m].last_purged
  BY <1>1 DEF Intact, StoreOf, TypeInv, TypeOK
<1> QED BY <1>1, <1>12, <1>13, <1>14, IntactByParts DEF Intact

\* What a node purged is in its full log, and was decided under a vote that it has seen.
LEMMA PurgedHolds ==
  ASSUME TypeInv, Intact, NEW n \in Nodes, NEW i \in 1..store[n].last_purged.index
  PROVE  \E d \in decided : d.index = i /\ VoteLeq(d.vote, VoteOf(n)) /\ Holds(Abs, n, i, d.entry)
<1>1. /\ IsStore(store[n]) /\ Whole(store[n], decided) /\ decided \subseteq Decisions
      /\ Agreed(decided) /\ Abs.log[n] = FullLog(store[n], decided)
      /\ Len(Abs.log[n]) = Top(store[n])
  BY IntactIs
<1>2. PICK d \in decided : d.index = i /\ VoteLeq(d.vote, store[n].vote)
  BY <1>1 DEF Whole
<1>3. i \in 1..Top(store[n]) /\ FullLog(store[n], decided)[i] = d.entry
  BY <1>1, <1>2, PurgedIs
<1> QED BY <1>1, <1>2, <1>3 DEF Holds, VoteOf

\* A leader has what was decided under a vote that one of its followers has seen.
LEMMA LeaderHasSeen ==
  ASSUME TypeInv, Intact, NEW l \in Nodes, NEW f \in Nodes, Writing(Abs, l),
         VoteLeq(VoteOf(f), VoteOf(l)), NEW d \in decided, VoteLeq(d.vote, VoteOf(f))
  PROVE  Holds(Abs, l, d.index, d.entry) /\ VoteLeq(d.vote, VoteOf(l))
<1>1. decided \subseteq Decisions /\ Abs.vote[l] = VoteOf(l) /\ Abs.decided = decided
  BY IntactIs
<1>2. Ranked(VoteOf(l)) /\ Ranked(VoteOf(f)) /\ Ranked(d.vote)
  BY <1>1, VoteOfTyped DEF Decisions, Vote, Ranked
<1>3. VoteLeq(d.vote, VoteOf(l))
  BY <1>2, VotesTransitive
<1>4. ~ LeaderBelow(Abs.vote[l], d.vote)
  BY <1>1, <1>2, <1>3 DEF VoteLeq, LeaderBelow, SameLeader, Ranked
<1>5. Holds(Abs, l, d.index, d.entry)
  BY <1>1, <1>4, LeaderHasDecided DEF Intact
<1> QED BY <1>3, <1>5

\* An entry and its leader.
LEMMA EntryIs ==
  ASSUME NEW a, NEW d \in Leader, NEW e \in Leader, SameLeader(a, d), SameLeader(a, e)
  PROVE  d = e
<1>1. /\ d = [term |-> d.term, node |-> d.node] /\ e = [term |-> e.term, node |-> e.node]
  BY DEF Leader
<1> HIDE DEF Leader
<1> QED BY <1>1 DEF SameLeader

-----------------------------------------------------------------------------
(* A leader sends f its log from p on.                                     *)

Sending(l, f, p) ==
  /\ l \in up /\ f \in up /\ f # l
  /\ VoteOf(l).node = l /\ VoteOf(l).committed
  /\ VoteLeq(VoteOf(f), VoteOf(l))
  /\ p \in 0..MaxLog /\ p <= Last(l).index /\ base[l].index <= p

\* The request req carries what l, with the log A of length N, has after p.
Carries(l, p, req, N, A) ==
  /\ DOMAIN req.entries = (p + 1)..N
  /\ \A i \in DOMAIN req.entries : req.entries[i] = A[i]
  /\ req.prev_log_id.index = p
  /\ p # 0 => req.prev_log_id = [term |-> A[p].term, node |-> l, index |-> p]
  /\ req.leader_commit.index = 0 => req.leader_commit = NoLogId
  /\ req.leader_commit.index # 0 =>
       /\ committed[l] \in 1..N
       /\ req.leader_commit = [term |-> A[committed[l]].term, node |-> l, index |-> committed[l]]

LEMMA RequestIs ==
  ASSUME TypeInv, Intact, NEW l \in Nodes, NEW f \in Nodes, NEW p \in 0..MaxLog, Sending(l, f, p)
  PROVE  LET N   == Top(store[l])
             A   == FullLog(store[l], decided)
         IN  /\ N \in 1..MaxLog /\ p \in 0..N /\ MaxLog \in Nat /\ A[N] \in Leader
             /\ SameLeader(A[N], VoteOf(l))
             /\ p # 0 => IdAt(store[l], base[l], p) = [term |-> A[p].term, node |-> A[p].node, index |-> p]
             /\ Carries(l, p, Request(l, p), N, A)
<1> DEFINE s == store[l]
           N == Top(s)
           A == FullLog(s, decided)
           c == committed[l]
           P == IdAt(s, base[l], p)
           Q == IdAt(s, base[l], c)
<1>1. /\ IsStore(s) /\ Whole(s, decided) /\ decided \subseteq Decisions /\ Agreed(decided)
      /\ Abs.log[l] = A /\ Len(Abs.log[l]) = N /\ Last(l).index = N
      /\ base[l] = s.last_purged /\ Abs.vote[l] = VoteOf(l)
  BY IntactIs DEF Sending
<1>2. /\ N \in 0..MaxLog /\ s.last_purged.index \in 0..N /\ MaxLog \in Nat
      /\ DOMAIN s.tree = (s.last_purged.index + 1)..N
      /\ \A i \in 1..N : /\ A[i] \in Leader
                         /\ i \in DOMAIN s.tree => A[i] = s.tree[i]
  BY <1>1, FullLogIs, Bounds DEF Whole
<1>3. N > 0 /\ SameLeader(A[N], VoteOf(l))
  <2>1. Writing(Abs, l)
    BY <1>1 DEF Writing, Sending
  <2> QED BY <1>1, <2>1 DEF Intact, LogInv, LeadersAhead
<1>4. p \in 0..N /\ s.last_purged.index <= p
  BY <1>1, <1>2 DEF Sending
<1>5. /\ DOMAIN Request(l, p).entries = DOMAIN s.tree \cap ((p + 1)..N)
      /\ \A i \in DOMAIN Request(l, p).entries : Request(l, p).entries[i] = s.tree[i]
      /\ Request(l, p).prev_log_id = LogIdFrom(LogIdParts(P), l)
      /\ Request(l, p).leader_commit = LogIdFrom(LogIdParts(Q), l)
  BY <1>1, RequestEffect DEF Sending
<1>6. DOMAIN Request(l, p).entries = (p + 1)..N
  BY <1>2, <1>4, <1>5
<1>7. \A i \in DOMAIN Request(l, p).entries : Request(l, p).entries[i] = A[i]
  BY <1>2, <1>4, <1>5, <1>6
<1>8. /\ P.index = p
      /\ p # 0 => SameLeader(P, A[p])
      /\ Q.index = 0 => Q = NoLogId
      /\ Q.index # 0 => Q.index = c /\ c \in s.last_purged.index..N /\ SameLeader(Q, A[c])
  BY <1>1, <1>2, <1>4, IdIs
<1>9. P \in LogIds /\ Q \in LogIds
  BY <1>1, IdAtType DEF IsStore
<1> HIDE DEF s, N, A, c, P, Q
<1>10. /\ Request(l, p).prev_log_id.index = p
       /\ p # 0 => /\ Request(l, p).prev_log_id = [term |-> A[p].term, node |-> l, index |-> p]
                   /\ P = [term |-> A[p].term, node |-> A[p].node, index |-> p]
  <2>1. CASE p = 0
    BY <1>5, <1>8, <2>1 DEF LogIdFrom, LogIdParts, NoLogId
  <2>2. CASE p # 0
    <3>1. P = [term |-> A[p].term, node |-> A[p].node, index |-> p]
      BY <1>8, <1>9, <2>2 DEF LogIds, SameLeader
    <3> QED BY <1>5, <2>2, <3>1 DEF LogIdFrom, LogIdParts
  <2> QED BY <2>1, <2>2
<1>11. /\ Request(l, p).leader_commit.index = 0 => Request(l, p).leader_commit = NoLogId
       /\ Request(l, p).leader_commit.index # 0 =>
            /\ Request(l, p).leader_commit = [term |-> A[c].term, node |-> l, index |-> c]
            /\ c \in 1..N
  <2>1. CASE Q.index = 0
    BY <1>5, <2>1 DEF LogIdFrom, LogIdParts, NoLogId
  <2>2. CASE Q.index # 0
    <3>1. Q.index = c /\ c # 0 /\ c \in 1..N /\ Q.term = A[c].term
      BY <1>2, <1>8, <2>2 DEF SameLeader
    <3> QED BY <1>5, <2>2, <3>1 DEF LogIdFrom, LogIdParts
  <2> QED BY <2>1, <2>2
<1>12. N \in 1..MaxLog /\ A[N] \in Leader
  BY <1>2, <1>3
<1>13. Carries(l, p, Request(l, p), N, A)
  BY <1>6, <1>7, <1>10, <1>11 DEF Carries, c
<1> QED BY <1>2, <1>3, <1>4, <1>10, <1>12, <1>13 DEF N, A, P, s

\* What f commits of it, the leader has committed.
LEMMA FollowerCommits ==
  ASSUME TypeInv, Intact, NEW l \in Nodes, NEW f \in Nodes, NEW p \in 0..MaxLog, Sending(l, f, p),
         NEW i \in 1..Handled(l, f, p).committed
  PROVE  i \in 1..committed[f] \/ i \in 1..committed[l]
<1> DEFINE req == Request(l, p)
           N == Top(store[l])
           A == FullLog(store[l], decided)
           c == committed[l]
           r == Handled(l, f, p)
<1>1. /\ N \in 1..MaxLog /\ p \in 0..N /\ MaxLog \in Nat /\ A[N] \in Leader
      /\ SameLeader(A[N], VoteOf(l)) /\ VoteOf(l).node = l
      /\ DOMAIN req.entries = (p + 1)..N
      /\ \A j \in DOMAIN req.entries : req.entries[j] = A[j]
      /\ p # 0 => req.prev_log_id = [term |-> A[p].term, node |-> l, index |-> p]
      /\ req.leader_commit.index = 0 => req.leader_commit = NoLogId
      /\ req.leader_commit.index # 0 =>
           /\ req.leader_commit = [term |-> A[c].term, node |-> l, index |-> c]
           /\ c \in 1..N
  <2>1. VoteOf(l).node = l
    BY DEF Sending
  <2>2. /\ N \in 1..MaxLog /\ p \in 0..N /\ MaxLog \in Nat /\ A[N] \in Leader
        /\ SameLeader(A[N], VoteOf(l))
    BY RequestIs
  <2>3. Carries(l, p, req, N, A)
    BY RequestIs
  <2> QED BY <2>1, <2>2, <2>3 DEF Carries
<1>2. r.committed \in 0..MaxLog /\ committed[f] \in 0..MaxLog /\ c \in 0..MaxLog
  BY HandledEffect DEF TypeInv, TypeOK
<1>3. CASE r.outcome # "Success"
  <2>1. r.committed = committed[f]
    BY <1>3, HandledEffect
  <2> QED BY <2>1
<1>4. CASE r.outcome = "Success"
  <2>1. PICK acc \in LogIds :
          /\ AcceptedOf(req, acc)
          /\ LET lc == IF LogIdLeq(req.leader_commit, acc) THEN req.leader_commit ELSE acc
             IN  r.committed = IF committed[f] < lc.index THEN lc.index ELSE committed[f]
    BY <1>4, HandledEffect
  <2>2. acc.index = N /\ acc.term = A[N].term /\ acc.node = l
    <3>1. CASE p = N
      <4>1. acc = req.prev_log_id
        BY <1>1, <2>1, <3>1 DEF AcceptedOf
      <4> QED BY <1>1, <3>1, <4>1
    <3>2. CASE p # N
      <4>1. N \in DOMAIN req.entries
        BY <1>1, <3>2
      <4>2. /\ acc.index \in DOMAIN req.entries /\ N <= acc.index
            /\ acc.term = req.entries[acc.index].term /\ acc.node = req.entries[acc.index].node
        BY <2>1, <4>1 DEF AcceptedOf
      <4>3. acc.index = N
        BY <1>1, <4>2
      <4> QED BY <1>1, <4>1, <4>2, <4>3 DEF SameLeader
    <3> QED BY <3>1, <3>2
  <2>3. LogIdLeq(req.leader_commit, acc)
    <3>1. CASE req.leader_commit.index = 0
      <4>1. A[N].term > 0
        BY <1>1, Bounds
      <4> QED BY <1>1, <2>2, <3>1, <4>1 DEF LogIdLeq, LeaderBelow, NoLogId
    <3>2. CASE req.leader_commit.index # 0
      <4>1. ~ LeaderBelow(A[N], A[c])
        <5>1. Abs.log[l] = A /\ Len(Abs.log[l]) = N
          BY IntactIs
        <5>2. c \in 1..N /\ N \in 1..N /\ c <= N
          BY <1>1, <3>2
        <5> QED BY <5>1, <5>2 DEF Intact, LogInv, LogsOrdered
      <4>2. A[c] \in Leader
        <5>1. IsStore(store[l]) /\ Whole(store[l], decided) /\ decided \subseteq Decisions
          BY IntactIs
        <5> QED BY <1>1, <3>2, <5>1, FullLogIs
      <4>3. A[c].term \in Nat /\ A[N].term \in Nat /\ A[c].node \in Nat
        BY <1>1, <4>2, Bounds DEF Ranked
      <4>4. A[c].term <= A[N].term
        BY <4>1, <4>3 DEF LeaderBelow
      <4>5. /\ req.leader_commit.term = A[c].term /\ req.leader_commit.node = l
            /\ req.leader_commit.index = c /\ c <= N
        BY <1>1, <3>2
      <4> HIDE DEF req, N, A, c
      <4> QED BY <2>2, <4>3, <4>4, <4>5 DEF LogIdLeq, LeaderBelow, SameLeader
    <3> QED BY <3>1, <3>2
  <2>4. r.committed = IF committed[f] < req.leader_commit.index THEN req.leader_commit.index
                      ELSE committed[f]
    BY <2>1, <2>3
  <2>5. req.leader_commit.index = 0 \/ req.leader_commit.index = c
    BY <1>1
  <2> HIDE DEF req, c, r
  <2> QED BY <1>2, <2>4, <2>5 DEF r, c
<1> QED BY <1>3, <1>4

\* f's new log t is a part of its own or of l's, and has what both have.
Taken(l, f, t) ==
  LET K == FullLog(t, decided)
  IN  /\ IsStore(t) /\ Whole(t, decided)
      /\ \E k \in {l, f} : \A j \in 1..Top(t) : Holds(Abs, k, j, K[j])
      /\ \A j \in 1..Len(Abs.log[f]) :
           Holds(Abs, l, j, Abs.log[f][j]) => j \in 1..Top(t) /\ K[j] = Abs.log[f][j]

\* The entry before the new ones does not fit, and f drops what it has from there on.
LEMMA ConflictTaken ==
  ASSUME TypeInv, Intact, NEW l \in Nodes, NEW f \in Nodes, NEW p \in 0..MaxLog, Sending(l, f, p),
         Handled(l, f, p).outcome = "Conflict",
         ~ (p \in DOMAIN store[f].tree /\ SamePrev(l, f, p))
  PROVE  Taken(l, f, Handled(l, f, p).store)
<1> DEFINE s == store[f]
           t == Handled(l, f, p).store
           A == FullLog(store[l], decided)
           B == FullLog(s, decided)
           K == FullLog(t, decided)
           N == Top(s)
           P == s.last_purged.index
<1>1. /\ IsStore(s) /\ Whole(s, decided) /\ decided \subseteq Decisions
      /\ Abs.log[f] = B /\ Len(Abs.log[f]) = N /\ base[f] = s.last_purged
      /\ Abs.log[l] = A /\ Len(Abs.log[l]) = Top(store[l])
  BY IntactIs DEF Sending
<1>2. /\ N \in 0..MaxLog /\ P \in 0..N /\ MaxLog \in Nat
      /\ DOMAIN s.tree = (P + 1)..N
      /\ \A j \in 1..N : /\ j \in DOMAIN s.tree <=> j > P
                         /\ j \in DOMAIN s.tree => B[j] = s.tree[j]
                         /\ B[j] \in Leader
  BY <1>1, FullLogIs, Bounds DEF Whole
<1>3. /\ IsStore(t) /\ t.vote = VoteOf(l) /\ t.last_purged = s.last_purged
      /\ DOMAIN t.tree = {i \in DOMAIN s.tree :
           Request(l, p).prev_log_id.index \in DOMAIN s.tree => i < Request(l, p).prev_log_id.index}
      /\ \A i \in DOMAIN t.tree : t.tree[i] = s.tree[i]
  BY HandledEffect
<1>4. /\ p \in 0..Top(store[l]) /\ Top(store[l]) \in 1..MaxLog
      /\ p # 0 => IdAt(store[l], base[l], p) = [term |-> A[p].term, node |-> A[p].node, index |-> p]
      /\ Request(l, p).prev_log_id.index = p
  <2>1. /\ p \in 0..Top(store[l]) /\ Top(store[l]) \in 1..MaxLog
        /\ p # 0 => IdAt(store[l], base[l], p) = [term |-> A[p].term, node |-> A[p].node, index |-> p]
        /\ Carries(l, p, Request(l, p), Top(store[l]), A)
    BY RequestIs
  <2> QED BY <2>1 DEF Carries
<1>5. VoteLeq(s.vote, t.vote)
  BY <1>3 DEF Sending, VoteOf
<1>6. CASE p \notin DOMAIN s.tree
  <2>1. DOMAIN t.tree = DOMAIN s.tree
    BY <1>3, <1>4, <1>6
  <2>2. Top(t) = N
    BY <1>2, <1>3, <2>1, TopIs
  <2>3. ASSUME NEW j \in 1..N PROVE K[j] = B[j]
    <3>1. j \in DOMAIN t.tree => t.tree[j] = s.tree[j]
      BY <1>3
    <3> HIDE DEF t, s
    <3> QED BY <2>1, <2>2, <3>1 DEF FullLog, N
  <2>4. Whole(t, decided)
    BY <1>1, <1>2, <1>3, <1>5, <2>1, <2>2, StaysWhole
  <2>5. \E k \in {l, f} : \A j \in 1..Top(t) : Holds(Abs, k, j, K[j])
    <3>1. \A j \in 1..Top(t) : Holds(Abs, f, j, K[j])
      BY <1>1, <2>2, <2>3 DEF Holds
    <3> QED BY <3>1
  <2> HIDE DEF t
  <2>6. \A j \in 1..Len(Abs.log[f]) : j \in 1..Top(t) /\ K[j] = Abs.log[f][j]
    BY <1>1, <2>2, <2>3
  <2>7. Taken(l, f, t)
    BY <1>3, <2>4, <2>5, <2>6 DEF Taken
  <2> QED BY <2>7 DEF t
<1>7. CASE p \in DOMAIN s.tree
  <2>1. p \in 1..N /\ p > P
    BY <1>2, <1>7
  <2>2. DOMAIN t.tree = (P + 1)..(p - 1)
    BY <1>2, <1>3, <1>4, <1>7, <2>1
  <2>3. Top(t) = p - 1
    <3>1. p - 1 \in 0..MaxLog /\ t.last_purged.index <= p - 1
      BY <1>2, <1>3, <2>1
    <3> QED BY <1>3, <2>2, <3>1, TopIs
  <2>4. Whole(t, decided)
    BY <1>1, <1>3, <1>5, <2>2, <2>3, StaysWhole
  <2>5. ASSUME NEW j \in 1..(p - 1) PROVE K[j] = B[j]
    <3>1. j \in 1..N
      BY <1>2, <2>1
    <3>2. j \in DOMAIN t.tree <=> j \in DOMAIN s.tree
      BY <1>2, <2>1, <2>2
    <3>3. j \in DOMAIN t.tree => t.tree[j] = s.tree[j]
      BY <1>3
    <3> HIDE DEF t, s
    <3> QED BY <2>3, <3>1, <3>2, <3>3 DEF FullLog, N
  <2>6. A[p] # B[p]
    <3> SUFFICES ASSUME A[p] = B[p] PROVE SamePrev(l, f, p)
      BY <1>7
    <3>1. IdAt(s, base[f], p) = [term |-> B[p].term, node |-> B[p].node, index |-> p]
      BY <1>2, <1>7, <2>1 DEF IdAt
    <3>2. p # 0
      BY <2>1
    <3> HIDE DEF A, B, s
    <3> QED BY <1>4, <3>1, <3>2 DEF SamePrev, s
  <2>7. \E k \in {l, f} : \A j \in 1..Top(t) : Holds(Abs, k, j, K[j])
    <3>1. \A j \in 1..Top(t) : Holds(Abs, f, j, K[j])
      BY <1>1, <1>2, <2>1, <2>3, <2>5 DEF Holds
    <3> QED BY <3>1
  <2>8. ASSUME NEW j \in 1..Len(Abs.log[f]), Holds(Abs, l, j, Abs.log[f][j])
        PROVE  j \in 1..Top(t) /\ K[j] = Abs.log[f][j]
    <3>1. j < p
      <4> SUFFICES ASSUME p <= j PROVE FALSE
        BY <1>1, <1>2, <2>1, <2>8
      <4>1. p \in 1..j
        BY <1>2, <2>1, <2>8
      <4>2. Abs.log[f][p] = Abs.log[l][p]
        BY <2>8, <4>1 DEF Intact, LogInv, LogsMatch
      <4> QED BY <1>1, <2>6, <4>2
    <3>2. j \in 1..(p - 1)
      BY <1>1, <1>2, <2>1, <2>8, <3>1
    <3> QED BY <1>1, <2>3, <2>5, <3>2
  <2> HIDE DEF t
  <2>9. Taken(l, f, t)
    BY <1>3, <2>4, <2>7, <2>8 DEF Taken
  <2> QED BY <2>9 DEF t
<1> QED BY <1>6, <1>7

\* The entry before the new ones fits, so the logs are the same up to there.
LEMMA PrevAgrees ==
  ASSUME TypeInv, Intact, NEW l \in Nodes, NEW f \in Nodes, NEW p \in 0..MaxLog, Sending(l, f, p),
         p # 0,
         HasLogId(store[f], base[f], committed[f], Request(l, p).prev_log_id),
         ~ (committed[f] < p /\ ~ SamePrev(l, f, p))
  PROVE  p \in 1..Len(Abs.log[f]) /\ Holds(Abs, l, p, Abs.log[f][p])
<1> DEFINE s == store[f]
           A == FullLog(store[l], decided)
           B == FullLog(s, decided)
<1>1. /\ IsStore(s) /\ Whole(s, decided) /\ decided \subseteq Decisions /\ Agreed(decided)
      /\ Abs.log[f] = B /\ Len(Abs.log[f]) = Top(s) /\ base[f] = s.last_purged
      /\ Abs.log[l] = A /\ Len(Abs.log[l]) = Top(store[l])
      /\ Abs.vote[l] = VoteOf(l)
  BY IntactIs DEF Sending
<1>2. /\ Top(s) \in 0..MaxLog /\ s.last_purged.index \in 0..Top(s) /\ MaxLog \in Nat
      /\ \A j \in 1..Top(s) : B[j] \in Leader
  BY <1>1, FullLogIs, Bounds
<1>3. /\ p \in 0..Top(store[l]) /\ Top(store[l]) \in 1..MaxLog
      /\ IdAt(store[l], base[l], p) = [term |-> A[p].term, node |-> A[p].node, index |-> p]
  BY RequestIs
<1>4. p \in 1..Top(store[l]) /\ A[p] \in Leader
  <2>1. IsStore(store[l]) /\ Whole(store[l], decided)
    BY IntactIs
  <2> QED BY <1>1, <1>3, <2>1, FullLogIs
<1>5. CASE ~ (committed[f] < p)
  <2>1. committed[f] \in 0..MaxLog
    BY DEF TypeInv, TypeOK
  <2>2. p \in 1..committed[f]
    BY <1>2, <1>5, <2>1
  <2>3. PICK d \in decided :
          d.index = p /\ Holds(Abs, f, p, d.entry) /\ VoteLeq(d.vote, VoteOf(f))
    BY <2>2, IntactIs
  <2>4. Holds(Abs, l, p, d.entry)
    BY <1>1, <2>3, LeaderHasSeen DEF Sending, Writing
  <2> QED BY <2>3, <2>4 DEF Holds
<1>6. CASE committed[f] < p
  <2> DEFINE id == IdAt(s, s.last_purged, p)
  <2>1. id = [term |-> A[p].term, node |-> A[p].node, index |-> p]
    BY <1>1, <1>3, <1>6 DEF SamePrev
  <2>2. id.index # 0
    BY <2>1
  <2>3. p \in 1..Top(s) /\ SameLeader(id, B[p])
    BY <1>1, <1>2, <2>2, IdIs
  <2> HIDE DEF id
  <2>4. SameLeader(id, A[p])
    BY <2>1 DEF SameLeader
  <2>5. A[p] = B[p]
    BY <1>2, <1>4, <2>3, <2>4, EntryIs
  <2> QED BY <1>1, <1>4, <2>3, <2>5 DEF Holds
<1> QED BY <1>5, <1>6

\* f takes over what l sent: up to l's last entry it has what l has.
LEMMA SuccessTaken ==
  ASSUME TypeInv, Intact, NEW l \in Nodes, NEW f \in Nodes, NEW p \in 0..MaxLog, Sending(l, f, p),
         Handled(l, f, p).outcome = "Success",
         ~ (committed[f] < p /\ ~ SamePrev(l, f, p))
  PROVE  LET t == Handled(l, f, p).store
         IN  /\ Taken(l, f, t)
             /\ Top(store[l]) <= Top(t)
             /\ \A j \in 1..Top(store[l]) : FullLog(t, decided)[j] = FullLog(store[l], decided)[j]
<1> DEFINE s == store[f]
           t == Handled(l, f, p).store
           A == FullLog(store[l], decided)
           B == FullLog(s, decided)
           K == FullLog(t, decided)
           N == Top(store[l])
           M == Top(s)
           P == s.last_purged.index
           es == Request(l, p).entries
           new == NewIn(s, base[f], es)
<1>1. /\ IsStore(s) /\ Whole(s, decided) /\ decided \subseteq Decisions /\ Agreed(decided)
      /\ Abs.log[f] = B /\ Len(Abs.log[f]) = M /\ base[f] = s.last_purged
      /\ Abs.log[l] = A /\ Len(Abs.log[l]) = N
      /\ Abs.vote[l] = VoteOf(l)
  BY IntactIs DEF Sending
<1>2. /\ M \in 0..MaxLog /\ P \in 0..M /\ MaxLog \in Nat
      /\ DOMAIN s.tree = (P + 1)..M
      /\ \A j \in 1..M : /\ j \in DOMAIN s.tree <=> j > P
                         /\ j \in DOMAIN s.tree => B[j] = s.tree[j]
  BY <1>1, FullLogIs, Bounds DEF Whole
<1>3. /\ p \in 0..N /\ N \in 1..MaxLog
      /\ DOMAIN es = (p + 1)..N
      /\ \A j \in (p + 1)..N : es[j] = A[j]
      /\ Request(l, p).prev_log_id.index = p
  <2>1. p \in 0..N /\ N \in 1..MaxLog /\ Carries(l, p, Request(l, p), N, A)
    BY RequestIs
  <2> QED BY <2>1 DEF Carries
<1>4. /\ IsStore(t) /\ t.vote = VoteOf(l) /\ t.last_purged = s.last_purged
      /\ new = {} => t.tree = s.tree
      /\ new # {} =>
           \E first \in new :
             /\ \A i \in new : first <= i
             /\ DOMAIN t.tree = {i \in DOMAIN s.tree : i < first}
                                  \cup {i \in DOMAIN es : first <= i}
             /\ \A i \in DOMAIN t.tree : t.tree[i] = IF i < first THEN s.tree[i] ELSE es[i]
      /\ HasLogId(s, base[f], committed[f], Request(l, p).prev_log_id)
  BY HandledEffect
<1>5. VoteLeq(s.vote, t.vote)
  BY <1>4 DEF Sending, VoteOf
\* Up to p, and up to what f purged, the logs are the same.
<1>6. ASSUME NEW j \in 1..p PROVE j <= M /\ B[j] = A[j]
  <2>1. p \in 1..Len(Abs.log[f]) /\ Holds(Abs, l, p, Abs.log[f][p])
    BY <1>3, <1>4, PrevAgrees
  <2>2. Abs.log[f][j] = Abs.log[l][j]
    BY <2>1 DEF Intact, LogInv, LogsMatch
  <2> QED BY <1>1, <1>2, <2>1, <2>2
<1>7. ASSUME NEW j \in 1..P PROVE j \in 1..N /\ B[j] = A[j]
  <2>1. PICK d \in decided : d.index = j /\ VoteLeq(d.vote, VoteOf(f)) /\ Holds(Abs, f, j, d.entry)
    BY PurgedHolds
  <2>2. Holds(Abs, l, j, d.entry)
    BY <1>1, <2>1, LeaderHasSeen DEF Sending, Writing
  <2> QED BY <1>1, <2>1, <2>2 DEF Holds
<1>8. P <= N
  BY <1>2, <1>3, <1>7
\* What l sends and f does not need, f has.
<1>9. ASSUME NEW j \in (p + 1)..N, j > P, j \notin new PROVE j \in DOMAIN s.tree /\ s.tree[j] = A[j]
  BY <1>1, <1>3, <1>9 DEF NewIn
<1>10. CASE new = {}
  <2>1. t.tree = s.tree
    BY <1>4, <1>10
  <2>2. Top(t) = M /\ K = B
    BY <1>4, <2>1, SameFullLog
  <2>3. Whole(t, decided)
    <3>1. DOMAIN t.tree = (t.last_purged.index + 1)..Top(t)
      BY <1>2, <1>4, <2>1, <2>2
    <3> HIDE DEF t, s
    <3> QED BY <1>1, <1>4, <1>5, <3>1, StaysWhole
  <2>4. ASSUME NEW j \in 1..N PROVE j <= M /\ B[j] = A[j]
    <3>1. CASE j <= p
      BY <1>3, <1>6, <3>1
    <3>2. CASE j <= P
      BY <1>2, <1>7, <3>2
    <3>3. CASE ~ (j <= p) /\ ~ (j <= P)
      <4>1. j \in DOMAIN s.tree /\ s.tree[j] = A[j]
        BY <1>2, <1>3, <1>9, <1>10, <3>3
      <4>2. j \in 1..M
        BY <1>2, <4>1
      <4> QED BY <1>2, <4>1, <4>2
    <3> QED BY <3>1, <3>2, <3>3
  <2>5. N <= M
    BY <1>3, <2>4
  <2>6. \E k \in {l, f} : \A j \in 1..Top(t) : Holds(Abs, k, j, K[j])
    <3>1. \A j \in 1..Top(t) : Holds(Abs, f, j, K[j])
      BY <1>1, <2>2 DEF Holds
    <3> QED BY <3>1
  <2>7. \A j \in 1..Len(Abs.log[f]) : j \in 1..Top(t) /\ K[j] = Abs.log[f][j]
    BY <1>1, <2>2
  <2> HIDE DEF t
  <2>8. Taken(l, f, t)
    BY <1>4, <2>3, <2>6, <2>7 DEF Taken
  <2> QED BY <2>2, <2>4, <2>5, <2>8 DEF t
<1>11. CASE new # {}
  <2>1. PICK first \in new :
          /\ \A i \in new : first <= i
          /\ DOMAIN t.tree = {i \in DOMAIN s.tree : i < first} \cup {i \in DOMAIN es : first <= i}
          /\ \A i \in DOMAIN t.tree : t.tree[i] = IF i < first THEN s.tree[i] ELSE es[i]
    BY <1>4, <1>11
  <2>2. first \in (p + 1)..N /\ first > P
    BY <1>1, <1>3 DEF NewIn
  <2>3. ASSUME NEW j \in 1..(first - 1) PROVE j <= M /\ B[j] = A[j]
    <3>0. j \in 1..N /\ j < first
      BY <1>3, <2>2
    <3>1. CASE j <= p
      BY <1>3, <1>6, <3>1
    <3>2. CASE j <= P
      BY <1>2, <1>7, <3>2
    <3>3. CASE ~ (j <= p) /\ ~ (j <= P)
      <4>1. j \notin new
        BY <1>3, <2>1, <2>2, <3>0
      <4>2. j \in DOMAIN s.tree /\ s.tree[j] = A[j]
        BY <1>2, <1>3, <1>9, <3>0, <3>3, <4>1
      <4>3. j \in 1..M
        BY <1>2, <4>2
      <4> QED BY <1>2, <4>2, <4>3
    <3> QED BY <3>1, <3>2, <3>3
  <2>4. first - 1 <= M
    <3>1. CASE first = 1
      BY <1>2, <3>1
    <3>2. CASE first # 1
      <4>1. first - 1 \in 1..(first - 1)
        BY <1>2, <1>3, <2>2, <3>2
      <4> QED BY <2>3, <4>1
    <3> QED BY <3>1, <3>2
  <2>5. DOMAIN t.tree = (P + 1)..N
    BY <1>2, <1>3, <2>1, <2>2, <2>4
  <2>6. Top(t) = N
    <3>1. N \in 0..MaxLog /\ t.last_purged.index <= N
      BY <1>2, <1>3, <1>4, <1>8
    <3> QED BY <1>4, <2>5, <3>1, TopIs
  <2>7. Whole(t, decided)
    <3>1. DOMAIN t.tree = (t.last_purged.index + 1)..Top(t)
      BY <1>4, <2>5, <2>6
    <3> HIDE DEF t, s
    <3> QED BY <1>1, <1>4, <1>5, <3>1, StaysWhole
  <2>8. ASSUME NEW j \in 1..N PROVE K[j] = A[j]
    <3>1. CASE j \in DOMAIN t.tree /\ j < first
      <4>1. t.tree[j] = s.tree[j] /\ j \in DOMAIN s.tree
        BY <1>2, <1>3, <2>1, <2>2, <3>1
      <4>2. j \in 1..(first - 1) /\ j \in 1..M
        BY <1>2, <1>3, <2>2, <2>4, <3>1
      <4>3. K[j] = t.tree[j]
        BY <2>6, <3>1 DEF FullLog
      <4> QED BY <1>2, <2>3, <4>1, <4>2, <4>3
    <3>2. CASE j \in DOMAIN t.tree /\ ~ (j < first)
      <4>1. t.tree[j] = es[j]
        BY <2>1, <3>2
      <4>2. K[j] = t.tree[j]
        BY <2>6, <3>2 DEF FullLog
      <4>3. j \in (p + 1)..N
        BY <1>3, <2>2, <3>2
      <4> QED BY <1>3, <4>1, <4>2, <4>3
    <3>3. CASE j \notin DOMAIN t.tree
      <4>1. j \in 1..P /\ j \in 1..M /\ j \notin DOMAIN s.tree
        BY <1>2, <1>3, <2>5, <3>3
      <4>2. K[j] = B[j]
        BY <2>6, <3>3, <4>1 DEF FullLog
      <4> QED BY <1>7, <4>1, <4>2
    <3> QED BY <3>1, <3>2, <3>3
  <2>9. \E k \in {l, f} : \A j \in 1..Top(t) : Holds(Abs, k, j, K[j])
    <3>1. \A j \in 1..Top(t) : Holds(Abs, l, j, K[j])
      BY <1>1, <2>6, <2>8 DEF Holds
    <3> QED BY <3>1
  <2>10. ASSUME NEW j \in 1..Len(Abs.log[f]), Holds(Abs, l, j, Abs.log[f][j])
         PROVE  j \in 1..Top(t) /\ K[j] = Abs.log[f][j]
    <3>1. j \in 1..N /\ A[j] = Abs.log[f][j]
      BY <1>1, <2>10 DEF Holds
    <3> QED BY <2>6, <2>8, <3>1
  <2> HIDE DEF t
  <2>11. Taken(l, f, t)
    BY <1>4, <2>7, <2>9, <2>10 DEF Taken
  <2>12. N <= Top(t)
    BY <1>3, <2>6
  <2> QED BY <2>8, <2>11, <2>12 DEF t
<1> QED BY <1>10, <1>11

\* More decided entries do not change the log that was put back together.
LEMMA MoreDecided ==
  ASSUME NEW s, IsStore(s), NEW dec, dec \subseteq Decisions, Whole(s, dec),
         NEW more, dec \subseteq more, Agreed(more)
  PROVE  FullLog(s, more) = FullLog(s, dec) /\ Whole(s, more)
<1>1. ASSUME NEW i \in 1..Top(s), i \notin DOMAIN s.tree
      PROVE  (CHOOSE d \in more : d.index = i).entry = (CHOOSE d \in dec : d.index = i).entry
  <2>1. \E d \in dec : d.index = i
    BY <1>1, FullLogIs
  <2>2. LET d == CHOOSE d \in dec : d.index = i IN d \in dec /\ d.index = i
    BY <2>1
  <2>3. LET d == CHOOSE d \in more : d.index = i IN d \in more /\ d.index = i
    BY <2>1
  <2> QED BY <2>2, <2>3 DEF Agreed
<1>2. FullLog(s, more) = FullLog(s, dec)
  BY <1>1 DEF FullLog
<1> QED BY <1>2 DEF Whole

\* l sends f its log from p on, and commits what a quorum has.
LEMMA ReplicateIntact ==
  ASSUME TypeInv, TypeInv', Intact, NEW l \in Nodes, NEW f \in Nodes, NEW p \in 0..MaxLog,
         NEW answered \in BOOLEAN, p <= Last(l).index, Replicate(l, f, p, answered), causes' = {}
  PROVE  Intact'
<1> DEFINE r  == Handled(l, f, p)
           t  == r.store
           mt == MatchedAfter(l, f, p, answered)
           ci == CommitIndex(l, mt)
           N  == Top(store[l])
           A  == FullLog(store[l], decided)
           K  == FullLog(t, decided)
           co == [committed' EXCEPT ![l] = committed[l]]
           u  == Abstract(store', granted', matched', co, decided)
           v  == Abstract(store', granted', matched', committed', decided')
           w  == [v EXCEPT !.log = u.log]
<1>1. /\ Leads(l) /\ f \in up /\ f # l /\ VoteLeq(VoteOf(f), VoteOf(l))
      /\ base[l].index <= p
      /\ StoreOf(f, t)
      /\ matched' = [matched EXCEPT ![l] = mt, ![f] = NoneMatched]
      /\ granted' = [granted EXCEPT ![f] = {}]
      /\ committed' = [committed EXCEPT ![f] = r.committed, ![l] = ci]
      /\ decided' = DecidedAfter(l, ci)
      /\ UNCHANGED <<up, base>>
  BY ReplicateEffect
<1>2. /\ ~ (r.outcome = "Conflict" /\ p \in DOMAIN store[f].tree /\ SamePrev(l, f, p))
      /\ ~ (r.outcome = "Success" /\ committed[f] < p /\ ~ SamePrev(l, f, p))
  BY ReplicateEffect
<1>3. Sending(l, f, p)
  BY <1>1 DEF Sending, Leads
<1>4. r.outcome \in {"Success", "Conflict"} /\ t.vote = VoteOf(l) /\ t.last_purged = store[f].last_purged
  BY HandledEffect
<1>5. Taken(l, f, t)
  BY <1>2, <1>3, <1>4, ConflictTaken, SuccessTaken
<1>6. r.outcome = "Success" => N <= Top(t) /\ \A j \in 1..N : K[j] = A[j]
  BY <1>2, <1>3, SuccessTaken
<1>7. /\ decided \subseteq Decisions /\ Agreed(decided)
      /\ Abs.granted = granted /\ Abs.matched = matched /\ Abs.committed = committed
      /\ Abs.decided = decided
      /\ \A m \in Nodes : /\ IsStore(store[m]) /\ Whole(store[m], decided)
                          /\ Abs.vote[m] = VoteOf(m) /\ Abs.log[m] = FullLog(store[m], decided)
                          /\ Len(Abs.log[m]) = Top(store[m])
                          /\ m \in up => Last(m).index = Top(store[m])
  BY IntactIs
<1>8. /\ granted \in [Nodes -> SUBSET Nodes] /\ matched \in [Nodes -> [Nodes -> 0..MaxLog]]
      /\ committed \in [Nodes -> 0..MaxLog]
      /\ granted' \in [Nodes -> SUBSET Nodes] /\ matched' \in [Nodes -> [Nodes -> 0..MaxLog]]
      /\ committed' \in [Nodes -> 0..MaxLog] /\ decided' \subseteq Decisions
      /\ \A m \in Nodes : IsStore(store'[m])
  BY DEF TypeInv, TypeOK, Decisions
<1>9. \A m \in Nodes : store'[m] = IF m = f THEN t ELSE store[m]
  BY <1>1 DEF StoreOf
<1>10. \A m \in Nodes : IsStore(store'[m]) /\ Whole(store'[m], decided)
  BY <1>5, <1>7, <1>8, <1>9 DEF Taken
<1>11. co \in [Nodes -> 0..MaxLog] /\ co[l] = committed[l] /\ \A m \in Nodes : m # l => co[m] = committed'[m]
  BY <1>8
<1>12. /\ \A m \in Nodes : u.vote[m] = store'[m].vote /\ u.log[m] = FullLog(store'[m], decided)
       /\ u.granted = granted' /\ u.matched = matched' /\ u.committed = co /\ u.decided = decided
  BY AbstractIs
<1>13. /\ w.vote = u.vote /\ w.log = u.log /\ w.granted = granted' /\ w.matched = matched'
       /\ w.committed = committed' /\ w.decided = decided'
  BY <1>12 DEF Abstract
<1>14. /\ Typed(u) /\ Typed(w)
       /\ u.vote = w.vote /\ u.log = w.log
  <2>1. \A m \in Nodes : w.vote[m] = store'[m].vote /\ w.log[m] = FullLog(store'[m], decided)
    BY <1>12, <1>13
  <2> DEFINE sto == store'
  <2>2. \A m \in Nodes : IsStore(sto[m]) /\ Whole(sto[m], decided)
    BY <1>10
  <2>3. \A m \in Nodes : /\ u.vote[m] = sto[m].vote /\ u.log[m] = FullLog(sto[m], decided)
                         /\ w.vote[m] = sto[m].vote /\ w.log[m] = FullLog(sto[m], decided)
    BY <1>12, <2>1
  <2>4. /\ u.granted \in [Nodes -> SUBSET Nodes] /\ u.matched \in [Nodes -> [Nodes -> 0..MaxLog]]
        /\ u.committed \in [Nodes -> 0..MaxLog] /\ u.decided \subseteq Decisions
        /\ w.granted \in [Nodes -> SUBSET Nodes] /\ w.matched \in [Nodes -> [Nodes -> 0..MaxLog]]
        /\ w.committed \in [Nodes -> 0..MaxLog] /\ w.decided \subseteq Decisions
        /\ decided \subseteq Decisions
    <3> HIDE DEF u, w, co
    <3> QED BY <1>7, <1>8, <1>11, <1>12, <1>13
  <2> HIDE DEF u, w, sto
  <2>5. Typed(u)
    BY <2>2, <2>3, <2>4, AbstractTyped
  <2>6. Typed(w)
    BY <2>2, <2>3, <2>4, AbstractTyped
  <2> QED BY <1>13, <2>5, <2>6
<1>15. Abs' = v
  BY DEF Abs
<1>16. v.log = u.log => w = v
  BY DEF Abstract
<1>17. ci = committed[l] => co = committed'
  BY <1>1, <1>8
<1>18. ci = committed[l] /\ decided' = decided => v = u
  BY <1>17 DEF Abstract
<1>19. v.log = [m \in Nodes |-> FullLog(store'[m], decided')] /\ u.log = [m \in Nodes |-> FullLog(store'[m], decided)]
  BY DEF Abstract
<1>20. /\ matched'[l] = mt /\ committed'[l] = ci /\ committed'[f] = r.committed
       /\ \A m \in Nodes : /\ granted'[m] = IF m = f THEN {} ELSE granted[m]
                           /\ m \notin {l, f} => matched'[m] = matched[m]
                           /\ m \notin {l, f} => committed'[m] = committed[m]
  <2> HIDE DEF mt, ci, r
  <2> QED BY <1>1, <1>8
<1>21. /\ \A m \in Nodes : m # f => mt[m] = matched[l][m]
       /\ mt[f] = IF answered /\ r.outcome = "Success" THEN N ELSE matched[l][f]
  <2>1. Last(l).index = N
    BY <1>1, <1>7 DEF Leads
  <2>2. matched[l] \in [Nodes -> 0..MaxLog]
    BY <1>8
  <2> HIDE DEF N, r
  <2> QED BY <2>1, <2>2 DEF MatchedAfter, r
<1> HIDE DEF r, mt, ci, co, u, v, w, t
<1>22. /\ u.log[f] = K /\ Len(K) = Top(t) /\ u.log[l] = A
       /\ \A m \in Nodes : /\ u.vote[m] = IF m = f THEN VoteOf(l) ELSE VoteOf(m)
                           /\ m # f => u.log[m] = Abs.log[m]
  <2>1. Len(K) = Top(t)
    BY <1>5, <1>7, FullLogIs DEF Taken
  <2>2. \A m \in Nodes : /\ u.vote[m] = IF m = f THEN VoteOf(l) ELSE VoteOf(m)
                         /\ m # f => u.log[m] = Abs.log[m]
    BY <1>4, <1>7, <1>9, <1>12 DEF VoteOf
  <2> QED BY <1>1, <1>7, <1>9, <1>12, <2>1, <2>2
<1>23. /\ Abs.log[l] = A /\ Len(A) = N /\ N \in 0..MaxLog /\ MaxLog \in Nat /\ Top(t) \in 0..MaxLog
       /\ Abs.vote[l] = VoteOf(l)
       /\ \A m \in Nodes : Abs.vote[m] = VoteOf(m)
  <2>1. N \in 0..MaxLog
    BY <1>7, FullLogIs
  <2>2. Top(t) \in 0..MaxLog
    BY <1>5, TopType DEF Taken
  <2> QED BY <1>7, <2>1, <2>2, Bounds
\* f's commits.
<1>24. ASSUME NEW i \in 1..co[f]
       PROVE  \/ i \in 1..committed[f]
              \/ \E d \in decided :
                   d.index = i /\ Holds(u, f, i, d.entry) /\ VoteLeq(d.vote, VoteOf(l))
  <2>1. i \in 1..r.committed
    BY <1>1, <1>11, <1>20
  <2>2. i \in 1..committed[f] \/ i \in 1..committed[l]
    BY <1>3, <2>1, FollowerCommits DEF r
  <2>3. CASE i \in 1..committed[l] /\ r.outcome = "Success"
    <3>1. PICK d \in decided :
            d.index = i /\ Holds(Abs, l, i, d.entry) /\ VoteLeq(d.vote, VoteOf(l))
      BY <2>3, IntactIs
    <3>2. i \in 1..N /\ A[i] = d.entry
      BY <1>23, <3>1 DEF Holds
    <3>3. i \in 1..Top(t) /\ K[i] = d.entry
      BY <1>6, <1>23, <2>3, <3>2
    <3>4. Holds(u, f, i, d.entry)
      BY <1>22, <3>3 DEF Holds
    <3> QED BY <3>1, <3>4
  <2>4. CASE r.outcome # "Success"
    <3>1. r.committed = committed[f]
      BY <1>4, <2>4, HandledEffect DEF r
    <3> QED BY <2>1, <3>1
  <2> QED BY <2>2, <2>3, <2>4
<1>25. StepTransfer(Abs, u, l, f)
  <2>1. /\ Writing(Abs, l) /\ l # f /\ VoteLeq(Abs.vote[f], Abs.vote[l])
        /\ u.decided = Abs.decided
    BY <1>1, <1>7, <1>12 DEF Writing, Leads
  <2>2. \A m \in Nodes :
          /\ u.vote[m] = IF m = f THEN Abs.vote[l] ELSE Abs.vote[m]
          /\ m # f => u.log[m] = Abs.log[m]
    BY <1>22, <1>23
  <2>3. \A m \in Nodes :
          /\ u.granted[m] = IF m = f THEN {} ELSE Abs.granted[m]
          /\ m \notin {l, f} => u.matched[m] = Abs.matched[m]
    BY <1>7, <1>12, <1>20
  <2>4. \A m \in Nodes : m # f => u.committed[m] = Abs.committed[m]
    BY <1>7, <1>11, <1>12, <1>20
  <2>5. \A m \in Nodes : m # f => u.matched[l][m] = Abs.matched[l][m]
    BY <1>7, <1>12, <1>20, <1>21
  <2>6. \E k \in {l, f} : \A j \in 1..Len(u.log[f]) : Holds(Abs, k, j, u.log[f][j])
    BY <1>5, <1>22 DEF Taken
  <2>7. \A j \in 1..Len(Abs.log[f]) :
          Holds(Abs, l, j, Abs.log[f][j]) => Holds(u, f, j, Abs.log[f][j])
    BY <1>5, <1>22 DEF Taken, Holds
  <2>8. \/ u.matched[l][f] = Abs.matched[l][f]
        \/ /\ u.matched[l][f] <= Len(Abs.log[l])
           /\ \A j \in 1..u.matched[l][f] : Holds(u, f, j, Abs.log[l][j])
    <3>1. CASE ~ (answered /\ r.outcome = "Success")
      BY <1>7, <1>12, <1>20, <1>21, <3>1
    <3>2. CASE answered /\ r.outcome = "Success"
      <4>1. u.matched[l][f] = N
        BY <1>12, <1>20, <1>21, <3>2
      <4>2. ASSUME NEW j \in 1..N PROVE Holds(u, f, j, Abs.log[l][j])
        <5>1. j \in 1..Top(t) /\ K[j] = A[j]
          BY <1>6, <1>23, <3>2, <4>2
        <5> QED BY <1>22, <1>23, <5>1 DEF Holds
      <4>3. N <= Len(Abs.log[l])
        BY <1>23
      <4> QED BY <4>1, <4>2, <4>3
    <3> QED BY <3>1, <3>2
  <2>9. \A i \in 1..u.committed[f] :
          \/ i \in 1..Abs.committed[f]
          \/ \E d \in Abs.decided :
               d.index = i /\ Holds(u, f, i, d.entry) /\ VoteLeq(d.vote, Abs.vote[l])
    BY <1>7, <1>12, <1>23, <1>24
  <2> QED BY <2>1, <2>2, <2>3, <2>4, <2>5, <2>6, <2>7, <2>8, <2>9 DEF StepTransfer
<1>26. LogInv(u)
  BY <1>14, <1>25, TransferKeepsLogInv DEF Intact
\* l's commits.
<1>27. /\ ci \in 0..MaxLog /\ committed[l] <= ci /\ committed[l] \in 0..MaxLog
       /\ ci # committed[l] =>
            /\ ci \in DOMAIN store[l].tree
            /\ SameLeader(store[l].tree[ci], VoteOf(l))
            /\ \E q \in Quorums : \A n \in q : n = l \/ mt[n] >= ci
  BY <1>8, CommitEffect DEF ci
<1>28. /\ DOMAIN store[l].tree = (store[l].last_purged.index + 1)..N
       /\ store[l].last_purged.index \in 0..N
       /\ \A j \in DOMAIN store[l].tree : j \in 1..N /\ A[j] = store[l].tree[j]
  <2>1. DOMAIN store[l].tree = (store[l].last_purged.index + 1)..N
    BY <1>7 DEF Whole
  <2>2. store[l].last_purged.index \in 0..N
    BY <1>7, FullLogIs
  <2>3. ASSUME NEW j \in DOMAIN store[l].tree PROVE j \in 1..N /\ A[j] = store[l].tree[j]
    <3>1. j \in 1..N
      BY <1>23, <2>1, <2>2
    <3> QED BY <1>7, <3>1, FullLogIs
  <2> QED BY <2>1, <2>2, <2>3
<1>29. ASSUME ci = committed[l] PROVE LogInv(w)
  <2>1. DecidedAfter(l, ci) = decided
    <3>1. {j \in DOMAIN store[l].tree : committed[l] < j /\ j <= ci} = {}
      BY <1>23, <1>27, <1>28, <1>29
    <3> QED BY <3>1 DEF DecidedAfter
  <2>2. v = u
    BY <1>1, <1>18, <1>29, <2>1
  <2> QED BY <1>16, <1>26, <2>2
<1>30. ASSUME ci # committed[l] PROVE StepCommit(u, w, l, ci)
  <2>1. /\ ci \in DOMAIN store[l].tree /\ ci \in 1..N /\ committed[l] < ci
        /\ A[ci] = store[l].tree[ci] /\ SameLeader(A[ci], VoteOf(l))
    BY <1>27, <1>28, <1>30
  <2>2. u.vote[l] = VoteOf(l) /\ Writing(u, l)
    <3>1. u.vote[l] = VoteOf(l)
      BY <1>1, <1>22
    <3> QED BY <1>1, <3>1 DEF Writing, Leads
  <2>3. ci \in 1..Len(u.log[l]) /\ SameLeader(u.log[l][ci], u.vote[l])
    BY <1>22, <1>23, <2>1, <2>2
  <2>4. \E q \in Quorums : \A m \in q : m = l \/ ci <= u.matched[l][m]
    BY <1>12, <1>20, <1>27, <1>30
  <2>5. /\ decided' = DecidedAfter(l, ci)
        /\ \A d \in decided' : d \in decided \/
             \E j \in DOMAIN store[l].tree :
               committed[l] < j /\ j <= ci
               /\ d = [index |-> j, entry |-> store[l].tree[j], vote |-> VoteOf(l)]
        /\ \A j \in DOMAIN store[l].tree : committed[l] < j /\ j <= ci =>
             [index |-> j, entry |-> store[l].tree[j], vote |-> VoteOf(l)] \in decided'
        /\ decided \subseteq decided'
    BY <1>1 DEF DecidedAfter
  <2>6. u.decided \subseteq w.decided
    BY <1>12, <1>13, <2>5
  <2>7. ASSUME NEW d \in w.decided \ u.decided
        PROVE  d.index \in 1..ci /\ d.entry = u.log[l][d.index] /\ d.vote = u.vote[l]
    <3>1. PICK j \in DOMAIN store[l].tree :
            committed[l] < j /\ j <= ci
            /\ d = [index |-> j, entry |-> store[l].tree[j], vote |-> VoteOf(l)]
      BY <1>12, <1>13, <2>5, <2>7
    <3>2. j \in 1..N /\ A[j] = store[l].tree[j]
      BY <1>28, <3>1
    <3>3. j \in 1..ci
      BY <1>23, <1>27, <3>1, <3>2
    <3>4. d.index = j /\ d.entry = store[l].tree[j] /\ d.vote = VoteOf(l)
      BY <3>1
    <3> QED BY <1>22, <2>2, <3>2, <3>3, <3>4
  <2>8. \E d \in w.decided : d.index = ci /\ d.entry = u.log[l][ci] /\ d.vote = u.vote[l]
    <3> DEFINE d == [index |-> ci, entry |-> store[l].tree[ci], vote |-> VoteOf(l)]
    <3>1. d \in w.decided
      BY <1>13, <1>23, <1>27, <2>1, <2>5
    <3> QED BY <1>22, <2>1, <2>2, <3>1
  <2>9. ASSUME NEW i \in 1..ci
        PROVE  \E d \in w.decided : d.index = i /\ d.entry = u.log[l][i] /\ VoteLeq(d.vote, u.vote[l])
    <3>1. CASE i \in 1..committed[l]
      <4>1. PICK d \in decided : d.index = i /\ Holds(Abs, l, i, d.entry) /\ VoteLeq(d.vote, VoteOf(l))
        BY <3>1, IntactIs
      <4>2. d \in w.decided /\ d.entry = A[i]
        BY <1>13, <1>23, <2>5, <4>1 DEF Holds
      <4> QED BY <1>22, <2>2, <4>1, <4>2
    <3>2. CASE i \notin 1..committed[l] /\ i \in DOMAIN store[l].tree
      <4> DEFINE d == [index |-> i, entry |-> store[l].tree[i], vote |-> VoteOf(l)]
      <4>1. committed[l] < i /\ i <= ci
        BY <1>23, <1>27, <3>2
      <4>2. d \in w.decided
        BY <1>13, <2>5, <3>2, <4>1
      <4>3. A[i] = store[l].tree[i]
        BY <1>28, <3>2
      <4>4. VoteLeq(VoteOf(l), VoteOf(l))
        BY VoteOfTyped
      <4> QED BY <1>22, <2>2, <4>2, <4>3, <4>4
    <3>3. CASE i \notin DOMAIN store[l].tree
      <4>1. i \in 1..store[l].last_purged.index
        BY <1>23, <1>27, <1>28, <2>1, <3>3
      <4>2. PICK d \in decided : d.index = i /\ VoteLeq(d.vote, VoteOf(l)) /\ Holds(Abs, l, i, d.entry)
        BY <4>1, PurgedHolds
      <4>3. d \in w.decided /\ d.entry = A[i]
        BY <1>13, <1>23, <2>5, <4>2 DEF Holds
      <4> QED BY <1>22, <2>2, <4>2, <4>3
    <3> QED BY <3>1, <3>2, <3>3
  <2>10. \A m \in Nodes : w.committed[m] = IF m = l THEN ci ELSE u.committed[m]
    BY <1>11, <1>12, <1>13, <1>20
  <2>11. w.vote = u.vote /\ w.log = u.log /\ w.granted = u.granted /\ w.matched = u.matched
    BY <1>12, <1>13
  <2> QED BY <2>2, <2>3, <2>4, <2>6, <2>7, <2>8, <2>9, <2>10, <2>11 DEF StepCommit
<1>31. LogInv(w)
  BY <1>14, <1>26, <1>29, <1>30, CommitKeepsLogInv
\* What was decided in addition changes no log.
<1>32. Agreed(decided') /\ decided \subseteq decided'
  <2>1. decided \subseteq decided'
    BY <1>1 DEF DecidedAfter
  <2> QED BY <1>13, <1>31, <2>1, DecidedAgree DEF Agreed
<1>33. ASSUME NEW m \in Nodes
       PROVE  Whole(store'[m], decided') /\ FullLog(store'[m], decided') = FullLog(store'[m], decided)
  BY <1>7, <1>10, <1>32, MoreDecided
<1>34. LogInv(Abs')
  <2>1. v.log = u.log
    BY <1>19, <1>33
  <2> QED BY <1>15, <1>16, <1>31, <2>1
<1>35. \A m \in up' : base'[m] = store'[m].last_purged
  <2>1. \A m \in up : base[m] = store[m].last_purged
    BY DEF Intact
  <2>2. \A m \in Nodes : store'[m].last_purged = store[m].last_purged
    BY <1>4, <1>9
  <2> QED BY <1>1, <2>1, <2>2 DEF TypeInv, TypeOK
<1>36. \A m \in Nodes \ up' : committed'[m] = 0
  <2>1. \A m \in Nodes \ up : committed[m] = 0 /\ m \notin {l, f}
    BY <1>1 DEF Intact, Leads
  <2> QED BY <1>1, <1>20, <2>1
<1> QED BY <1>33, <1>34, <1>35, <1>36, IntactByParts


-----------------------------------------------------------------------------
(* The invariant holds.                                                    *)

LEMMA SafetyInit == Init => SafetyInv
<1> SUFFICES ASSUME Init PROVE Intact
  BY DEF SafetyInv
<1>1. /\ up = Nodes /\ First \subseteq Nodes /\ decided = {}
      /\ granted = [n \in Nodes |-> First \cap {n}]
      /\ base = [n \in Nodes |-> NoLogId]
      /\ committed = [n \in Nodes |-> 0]
      /\ matched = [n \in Nodes |-> NoneMatched]
      /\ \A n \in Nodes :
           /\ IsStore(store[n])
           /\ store[n].vote = IF n \in First THEN [term |-> 1, node |-> n, committed |-> FALSE]
                              ELSE NoVote
           /\ store[n].last_purged = NoLogId
           /\ DOMAIN store[n].tree = {}
  BY InitEffect
<1>2. /\ MaxLog \in Nat /\ NoLogId.index = 0 /\ NoVote.node = 0 /\ ~ NoVote.committed
      /\ 0 \notin Nodes /\ Nodes \subseteq Nat
  BY Bounds, NodesFinite DEF NoLogId, NoVote
<1>3. \A n \in Nodes : Top(store[n]) = 0 /\ Whole(store[n], decided)
  <2> SUFFICES ASSUME NEW n \in Nodes PROVE Top(store[n]) = 0 /\ Whole(store[n], decided)
    OBVIOUS
  <2>1. Top(store[n]) = 0 /\ store[n].last_purged.index = 0
    BY <1>1, <1>2, TopType
  <2>2. DOMAIN store[n].tree = (store[n].last_purged.index + 1)..Top(store[n])
    <3>1. (0 + 1)..0 = {}
      OBVIOUS
    <3> QED BY <1>1, <2>1, <3>1
  <2>3. 1..store[n].last_purged.index = {}
    BY <2>1
  <2> QED BY <1>1, <2>1, <2>2, <2>3 DEF Whole
<1> DEFINE a == Abs
<1>4. /\ a.granted = granted /\ a.matched = matched /\ a.committed = committed /\ a.decided = {}
      /\ \A n \in Nodes : /\ a.vote[n] = store[n].vote
                          /\ a.log[n] = FullLog(store[n], decided)
  BY <1>1, AbstractIs DEF Abs
<1>5. \A n \in Nodes :
        /\ Len(a.log[n]) = 0 /\ 1..Len(a.log[n]) = {}
        /\ a.granted[n] \subseteq {n} /\ (n \in a.granted[n] => n \in First)
        /\ a.committed[n] = 0
        /\ a.vote[n] = IF n \in First THEN [term |-> 1, node |-> n, committed |-> FALSE] ELSE NoVote
  <2>1. decided \subseteq Decisions
    BY <1>1
  <2> HIDE DEF a
  <2> SUFFICES ASSUME NEW n \in Nodes
               PROVE  /\ Len(a.log[n]) = 0 /\ 1..Len(a.log[n]) = {}
                      /\ a.granted[n] \subseteq {n} /\ (n \in a.granted[n] => n \in First)
                      /\ a.committed[n] = 0
                      /\ a.vote[n] = IF n \in First
                                      THEN [term |-> 1, node |-> n, committed |-> FALSE] ELSE NoVote
    BY Zenon
  <2>2. Len(FullLog(store[n], decided)) = 0
    <3>1. IsStore(store[n]) /\ Whole(store[n], decided) /\ Top(store[n]) = 0
      BY <1>1, <1>3
    <3>2. Len(FullLog(store[n], decided)) = Top(store[n])
      BY <2>1, <3>1, FullLogIs
    <3> QED BY <3>1, <3>2
  <2>3. Len(a.log[n]) = 0 /\ 1..Len(a.log[n]) = {}
    BY <1>4, <2>2
  <2>4. a.granted[n] = First \cap {n} /\ a.committed[n] = 0
    BY <1>1, <1>4
  <2>5. a.vote[n] = IF n \in First THEN [term |-> 1, node |-> n, committed |-> FALSE] ELSE NoVote
    BY <1>1, <1>4
  <2> QED BY <2>3, <2>4, <2>5
<1>6. Typed(a)
  <2>1. /\ granted \in [Nodes -> SUBSET Nodes] /\ matched \in [Nodes -> [Nodes -> 0..MaxLog]]
        /\ committed \in [Nodes -> 0..MaxLog]
    BY TypeInit DEF TypeInv, TypeOK
  <2> HIDE DEF a
  <2>2. decided \subseteq Decisions /\ a.decided \subseteq Decisions
    BY <1>1, <1>4
  <2>3. \A n \in Nodes : IsStore(store[n]) /\ Whole(store[n], decided)
    BY <1>1, <1>3
  <2>4. /\ a.granted \in [Nodes -> SUBSET Nodes] /\ a.matched \in [Nodes -> [Nodes -> 0..MaxLog]]
        /\ a.committed \in [Nodes -> 0..MaxLog]
    BY <1>4, <2>1
  <2>5. \A n \in Nodes : a.vote[n] = store[n].vote /\ a.log[n] = FullLog(store[n], decided)
    BY <1>4
  <2> QED BY <2>2, <2>3, <2>4, <2>5, AbstractTyped
<1> HIDE DEF a
<1>7. VotesOwned(a)
  <2> SUFFICES ASSUME NEW n \in Nodes, a.vote[n].node \in Nodes
               PROVE  VoteLeq(a.vote[n], a.vote[a.vote[n].node])
    BY DEF VotesOwned
  <2>1. n \in First
    <3>1. NoVote.node \notin Nodes
      BY <1>2
    <3> QED BY <1>5, <3>1
  <2>2. a.vote[n].node = n
    <3>1. a.vote[n] = [term |-> 1, node |-> n, committed |-> FALSE]
      BY <1>5, <2>1
    <3> QED BY <3>1
  <2> QED BY <2>2 DEF VoteLeq, SameLeader
<1>8. BallotsCast(a)
  <2> SUFFICES ASSUME NEW c \in Nodes, a.granted[c] # {}
               PROVE  /\ c \in a.granted[c]
                      /\ a.vote[c].node = c
                      /\ ~ a.vote[c].committed
                      /\ \A m \in a.granted[c] : VoteLeq(a.vote[c], a.vote[m])
    BY DEF BallotsCast
  <2>1. c \in a.granted[c] /\ c \in First /\ \A m \in a.granted[c] : m = c
    <3>1. a.granted[c] \subseteq {c} /\ (c \in a.granted[c] => c \in First)
      BY <1>5
    <3> QED BY <3>1
  <2>2. a.vote[c] = [term |-> 1, node |-> c, committed |-> FALSE]
    BY <1>5, <2>1
  <2> QED BY <2>1, <2>2 DEF VoteLeq, SameLeader
<1>9. \A l \in Nodes : ~ Writing(a, l)
  <2> SUFFICES ASSUME NEW l \in Nodes PROVE ~ a.vote[l].committed
    BY DEF Writing
  <2>1. a.vote[l] = IF l \in First THEN [term |-> 1, node |-> l, committed |-> FALSE] ELSE NoVote
    BY <1>5
  <2> QED BY <1>2, <2>1
<1>10. Anchors(a) = {}
  BY <1>4 DEF Anchors
<1>11. EntriesSigned(a) /\ WritersElected(a) /\ LogsOrdered(a) /\ LogsMatch(a)
  BY <1>4, <1>5 DEF EntriesSigned, WritersElected, LogsOrdered, LogsMatch
<1>12. LeadersAhead(a) /\ WritersHold(a) /\ EntriesSecure(a)
  BY <1>9 DEF LeadersAhead, WritersHold, EntriesSecure
<1>13. AnchorsHeld(a) /\ AnchorsChosen(a) /\ DecidedAnchored(a)
  BY <1>4, <1>10 DEF AnchorsHeld, AnchorsChosen, DecidedAnchored
<1>14. CommittedDecided(a)
  <2>1. 1..0 = {}
    OBVIOUS
  <2> QED BY <1>5, <2>1 DEF CommittedDecided
<1>15. LogInv(a)
  BY <1>6, <1>7, <1>8, <1>11, <1>12, <1>13, <1>14 DEF LogInv
<1> QED BY <1>1, <1>3, <1>15 DEF Intact, a

LEMMA SafetyNext == TypeInv /\ TypeInv' /\ SafetyInv /\ [Next]_vars => SafetyInv'
<1> SUFFICES ASSUME TypeInv, TypeInv', SafetyInv, [Next]_vars, causes' = {}
             PROVE  Intact'
  BY DEF SafetyInv
<1>1. causes = {} => Intact
  BY DEF SafetyInv
<1>2. ASSUME NEW n \in Nodes, Campaign(n) PROVE Intact'
  BY <1>1, <1>2, CampaignEffect, CampaignIntact
<1>3. ASSUME NEW n \in Nodes, Elect(n) PROVE Intact'
  BY <1>1, <1>3, ElectEffect, ElectIntact
<1>4. ASSUME NEW n \in Nodes, Propose(n) PROVE Intact'
  BY <1>1, <1>4, ProposeEffect, ProposeIntact
<1>5. ASSUME NEW c \in Nodes, NEW n \in Nodes, GrantVote(c, n) PROVE Intact'
  <2>1. causes = {}
    BY <1>5, GrantEffect
  <2> QED BY <1>1, <1>5, <2>1, GrantIntact
<1>6. ASSUME NEW l \in Nodes, NEW f \in Nodes, NEW p \in 0..MaxLog, NEW answered \in BOOLEAN,
             p <= Last(l).index, Replicate(l, f, p, answered)
      PROVE  Intact'
  <2>1. causes = {}
    BY <1>6, ReplicateEffect
  <2> QED BY <1>1, <1>6, <2>1, ReplicateIntact
<1>7. ASSUME NEW l \in Nodes, NEW f \in Nodes, Refuse(l, f) PROVE Intact'
  BY <1>1, <1>7, RefuseEffect, RefuseIntact
<1>8. ASSUME NEW n \in Nodes, Purge(n) PROVE Intact'
  BY <1>1, <1>8, PurgeStep, PurgeIntact
<1>9. ASSUME NEW n \in Nodes, Stopping(n) PROVE Intact'
  <2>1. causes = {}
    BY <1>9, StopEffect
  <2> QED BY <1>1, <1>9, <2>1, StopIntact
<1>10. ASSUME NEW n \in Nodes, CrashInPurge(n) PROVE Intact'
  BY <1>10, CrashInPurgeEffect
<1>11. ASSUME NEW n \in Nodes, Restart(n) PROVE Intact'
  <2>1. causes = {}
    BY <1>11, RestartEffect
  <2> QED BY <1>1, <1>11, <2>1, RestartIntact
<1>12. CASE UNCHANGED vars
  <2>1. causes = {} /\ Abs' = Abs /\ UNCHANGED <<store, decided, up, base, committed>>
    BY <1>12 DEF vars, Abs
  <2> QED BY <1>1, <2>1 DEF Intact
<1> QED
  BY <1>2, <1>3, <1>4, <1>5, <1>6, <1>7, <1>8, <1>9, <1>10, <1>11, <1>12 DEF Next, Stopping

-----------------------------------------------------------------------------
(* What the rest of the system takes from Raft.                            *)

\* A leader has every entry that was committed under an earlier vote.
LEMMA LeadersCompleteWhileIntact == TypeInv /\ Intact => LeadersComplete
<1> SUFFICES ASSUME TypeInv, Intact, NEW n \in Nodes, Leads(n), NEW d \in decided,
                    LeaderBelow(d.vote, VoteOf(n))
             PROVE  Has(n, d)
  BY DEF LeadersComplete
<1>1. /\ decided \subseteq Decisions /\ Abs.decided = decided
      /\ Abs.vote[n] = VoteOf(n) /\ Abs.log[n] = FullLog(store[n], decided)
      /\ Len(Abs.log[n]) = Top(store[n])
      /\ IsStore(store[n]) /\ Whole(store[n], decided)
      /\ base[n] = store[n].last_purged
  BY IntactIs DEF Leads
<1>2. Writing(Abs, n)
  BY <1>1 DEF Writing, Leads
<1>3. ~ LeaderBelow(Abs.vote[n], d.vote)
  <2>1. Ranked(VoteOf(n)) /\ Ranked(d.vote)
    BY <1>1, VoteOfTyped DEF Decisions, Vote, Ranked
  <2> QED BY <1>1, <2>1 DEF LeaderBelow, Ranked
<1>4. Holds(Abs, n, d.index, d.entry)
  BY <1>1, <1>2, <1>3, LeaderHasDecided DEF Intact
<1>5. d.index \in 1..Top(store[n]) /\ FullLog(store[n], decided)[d.index] = d.entry
  BY <1>1, <1>4 DEF Holds
<1>6. /\ Top(store[n]) \in 0..MaxLog /\ MaxLog \in Nat
      /\ store[n].last_purged.index \in 0..Top(store[n])
      /\ d.index \in DOMAIN store[n].tree <=> d.index > store[n].last_purged.index
      /\ d.index \in DOMAIN store[n].tree => d.entry = store[n].tree[d.index]
  BY <1>1, <1>5, FullLogIs, Bounds
<1> QED BY <1>1, <1>5, <1>6 DEF Has

\* What a node knows to be committed is in its log, or purged, as it was decided.
LEMMA CommitsAgreeWhileIntact == TypeInv /\ Intact => CommitsAgree
<1> SUFFICES ASSUME TypeInv, Intact PROVE CommitsAgree
  OBVIOUS
<1>1. ASSUME NEW d \in decided, NEW e \in decided, d.index = e.index
      PROVE  d.entry = e.entry
  BY <1>1, DecidedAgree, IntactIs DEF Intact
<1>2. ASSUME NEW n \in up, NEW i \in 1..committed[n]
      PROVE  \E d \in decided : d.index = i /\ Has(n, d)
  <2>1. n \in Nodes
    BY DEF TypeInv, TypeOK
  <2>2. /\ decided \subseteq Decisions /\ Abs.decided = decided
        /\ Abs.committed = committed
        /\ Abs.log[n] = FullLog(store[n], decided)
        /\ Len(Abs.log[n]) = Top(store[n])
        /\ IsStore(store[n]) /\ Whole(store[n], decided)
        /\ base[n] = store[n].last_purged
    BY <2>1, IntactIs
  <2>3. PICK d \in decided : d.index = i /\ Holds(Abs, n, i, d.entry)
    BY <2>1, <2>2 DEF Intact, LogInv, CommittedDecided
  <2>4. i \in 1..Top(store[n]) /\ FullLog(store[n], decided)[i] = d.entry
    BY <2>2, <2>3 DEF Holds
  <2>5. /\ Top(store[n]) \in 0..MaxLog /\ MaxLog \in Nat
        /\ store[n].last_purged.index \in 0..Top(store[n])
        /\ i \in DOMAIN store[n].tree <=> i > store[n].last_purged.index
        /\ i \in DOMAIN store[n].tree => d.entry = store[n].tree[i]
    BY <2>2, <2>4, FullLogIs, Bounds
  <2> QED BY <2>2, <2>3, <2>4, <2>5 DEF Has
<1> QED BY <1>1, <1>2 DEF CommitsAgree

\* A leader has every entry that was committed under an earlier vote, and the nodes apply
\* one sequence of entries, unless a changed log id, an unflushed put or a log state
\* without last_purged came before.
THEOREM LeadersHaveCommitted == Spec => []LossesExplained
<1>1. TypeInv /\ SafetyInv => LossesExplained
  BY LeadersCompleteWhileIntact, CommitsAgreeWhileIntact DEF SafetyInv, LossesExplained
<1> QED BY <1>1, TypeInit, TypeNext, SafetyInit, SafetyNext, PTL DEF Spec

\* The tree of a running node goes from the entry after last_purged to the last one,
\* whatever was appended, truncated or purged, with the same exceptions.
THEOREM LogsWithoutGaps == Spec => []LogsContiguous
<1>1. TypeInv /\ SafetyInv => LogsContiguous
  <2> SUFFICES ASSUME TypeInv, Intact, NEW n \in up
               PROVE  DOMAIN store[n].tree =
                        (store[n].last_purged.index + 1)
                          ..(store[n].last_purged.index + Cardinality(DOMAIN store[n].tree))
    BY DEF SafetyInv, LogsContiguous
  <2> DEFINE p == store[n].last_purged.index
             k == Top(store[n])
  <2>1. n \in Nodes
    BY DEF TypeInv, TypeOK
  <2>2. IsStore(store[n]) /\ Whole(store[n], decided) /\ decided \subseteq Decisions
    BY <2>1, IntactIs
  <2>3. DOMAIN store[n].tree = (p + 1)..k /\ p \in Int /\ k \in Int /\ p <= k
    <3>1. p \in 0..k /\ k \in 0..MaxLog /\ MaxLog \in Nat
      BY <2>2, FullLogIs, Bounds
    <3> QED BY <2>2, <3>1 DEF Whole
  <2> HIDE DEF p, k
  <2>4. Cardinality((p + 1)..k) = k - p
    <3>1. CASE p + 1 > k
      <4>1. Cardinality((p + 1)..k) = 0 /\ k = p
        BY <2>3, <3>1, FS_Interval
      <4> QED BY <2>3, <4>1
    <3>2. CASE ~ (p + 1 > k)
      <4>1. Cardinality((p + 1)..k) = k - (p + 1) + 1
        BY <2>3, <3>2, FS_Interval
      <4> QED BY <2>3, <4>1
    <3> QED BY <3>1, <3>2
  <2>5. p + Cardinality((p + 1)..k) = k
    BY <2>3, <2>4
  <2> QED BY <2>3, <2>5 DEF p
<1> QED BY <1>1, TypeInit, TypeNext, SafetyInit, SafetyNext, PTL DEF Spec

=============================================================================
