------------------------- MODULE MessageQueueProofs -------------------------
(***************************************************************************)
(* Proofs about MessageQueue for any number of requests, messages and      *)
(* runs: first the order of its lists whatever happens, then, where        *)
(* requests and middleware do not overlap, the place of every follow-up,   *)
(* whatever calls fail, and, where they work, the refinement of FollowUps. *)
(***************************************************************************)
EXTENDS MessageQueue, FiniteSetTheorems, TLAPS

----------------------------------------------------------------------------
(* Sublists.  The rank of a number in K: distinct for distinct numbers, and *)
(* so taking every value there is.                                          *)
LEMMA RankGrows ==
    ASSUME NEW n \in Nat, NEW K \in SUBSET (1..n), NEW a \in K, NEW b \in K, a < b
    PROVE  Cardinality({j \in K : j <= a}) < Cardinality({j \in K : j <= b})
<1> DEFINE A == {j \in K : j <= a}
           B == {j \in K : j <= b}
<1>0. IsFiniteSet(1..n) BY FS_Interval
<1>1. IsFiniteSet(K) BY <1>0, FS_Subset
<1>2. IsFiniteSet(A) /\ IsFiniteSet(B) BY <1>1, FS_Subset
<1>i. a \in Int /\ b \in Int /\ \A j \in K : j \in Int OBVIOUS
<1>3. A \in SUBSET B /\ b \in B /\ b \notin A
  <2>1. \A j \in K : j <= a => j <= b BY <1>i
  <2>2. b <= b /\ ~(b <= a) BY <1>i
  <2> QED BY <2>1, <2>2
<1>3a. A # B BY <1>3
<1>4. Cardinality(A) <= Cardinality(B) /\ Cardinality(A) # Cardinality(B) BY <1>2, <1>3, <1>3a, FS_Subset
<1>5. Cardinality(A) \in Nat /\ Cardinality(B) \in Nat BY <1>2, FS_CardinalityType
<1> QED BY <1>4, <1>5

(* Nth counts through K in its order.                                       *)
LEMMA NthFacts ==
    ASSUME NEW n \in Nat, NEW K \in SUBSET (1..n)
    PROVE  /\ Cardinality(K) \in Nat
           /\ K # {} => Cardinality(K) > 0
           /\ \A k \in 1..Cardinality(K) : Nth(K, k) \in K
           /\ \A k, l \in 1..Cardinality(K) : k < l => Nth(K, k) < Nth(K, l)
           /\ \A i \in K : \E k \in 1..Cardinality(K) : Nth(K, k) = i
<1> DEFINE Rank(i) == Cardinality({j \in K : j <= i})
           N == Cardinality(K)
           rank == [i \in K |-> Rank(i)]
<1>0. IsFiniteSet(1..n) BY FS_Interval
<1>1. IsFiniteSet(K) BY <1>0, FS_Subset
<1>2. N \in Nat BY <1>1, FS_CardinalityType
<1>3. ASSUME NEW i \in K PROVE Rank(i) \in 1..N
  <2>1. {j \in K : j <= i} \in SUBSET K /\ i \in {j \in K : j <= i} OBVIOUS
  <2>2. IsFiniteSet({j \in K : j <= i}) /\ Rank(i) <= N BY <1>1, <2>1, FS_Subset
  <2>3. Rank(i) # 0 BY <2>1, <2>2, FS_EmptySet
  <2>4. Rank(i) \in Nat BY <2>2, FS_CardinalityType
  <2> QED BY <1>2, <2>2, <2>3, <2>4
<1>4. \A a, b \in K : a < b => Rank(a) < Rank(b) BY RankGrows
<1>5. \A a, b \in K : Rank(a) = Rank(b) => a = b
  <2> SUFFICES ASSUME NEW a \in K, NEW b \in K, Rank(a) = Rank(b), a # b PROVE FALSE OBVIOUS
  <2>1. a < b \/ b < a OBVIOUS
  <2>2. Rank(a) < Rank(b) \/ Rank(b) < Rank(a) BY <2>1, <1>4
  <2>3. Rank(a) \in Nat /\ Rank(b) \in Nat BY <1>3
  <2> HIDE DEF Rank
  <2> QED BY <2>2, <2>3
<1>6. rank \in Injection(K, 1..N) BY <1>3, <1>5 DEF Injection, IsInjective
<1>7. IsFiniteSet(1..N) /\ Cardinality(1..N) = N BY <1>2, FS_Interval
<1>8. rank \in Surjection(K, 1..N) BY <1>6, <1>7, FS_Injection
<1>9. \A k \in 1..N : \E i \in K : Rank(i) = k BY <1>8 DEF Surjection
<1>10. \A k \in 1..N : Nth(K, k) \in K /\ Rank(Nth(K, k)) = k BY <1>9 DEF Nth
<1>11. ASSUME NEW k \in 1..N, NEW l \in 1..N, k < l PROVE Nth(K, k) < Nth(K, l)
  <2> DEFINE a == Nth(K, k)
             b == Nth(K, l)
  <2>1. a \in K /\ b \in K /\ Rank(a) = k /\ Rank(b) = l BY <1>10
  <2>2. b < a => Rank(b) < Rank(a) BY <2>1, <1>4
  <2>3. a # b BY <2>1, <1>11
  <2>4. a \in Int /\ b \in Int
    <3> HIDE DEF a, b
    <3> QED BY <2>1
  <2> HIDE DEF Rank, a, b
  <2>5. ~(b < a) BY <2>1, <2>2, <1>11
  <2>6. a < b BY <2>3, <2>4, <2>5
  <2> QED BY <2>6 DEF a, b
<1>12. ASSUME NEW i \in K PROVE \E k \in 1..N : Nth(K, k) = i
  <2>1. Rank(i) \in 1..N BY <1>3
  <2>2. Nth(K, Rank(i)) \in K /\ Rank(Nth(K, Rank(i))) = Rank(i) BY <2>1, <1>10
  <2>3. Nth(K, Rank(i)) = i BY <2>2, <1>5
  <2> QED BY <2>1, <2>3
<1>13. K # {} => N > 0 BY <1>1, <1>2, FS_EmptySet
<1> QED BY <1>2, <1>10, <1>11, <1>12, <1>13

(* A sublist has the elements of its positions, in their order.             *)
LEMMA AtFacts ==
    ASSUME NEW S, NEW list \in Seq(S), NEW K \in SUBSET DOMAIN list
    PROVE  /\ At(list, K) \in Seq(S)
           /\ Len(At(list, K)) = Cardinality(K) /\ DOMAIN At(list, K) = 1..Cardinality(K)
           /\ \A k \in DOMAIN At(list, K) : At(list, K)[k] = list[Nth(K, k)] /\ Nth(K, k) \in K
           /\ \A k, l \in DOMAIN At(list, K) : k < l => Nth(K, k) < Nth(K, l)
           /\ \A i \in K : \E k \in DOMAIN At(list, K) : At(list, K)[k] = list[i]
           /\ K # {} => At(list, K) # <<>>
<1>1. Len(list) \in Nat /\ K \in SUBSET (1..Len(list)) OBVIOUS
<1>2. Cardinality(K) \in Nat BY <1>1, NthFacts
<1>3. \A k \in 1..Cardinality(K) : Nth(K, k) \in K BY <1>1, NthFacts
<1>4. \A k, l \in 1..Cardinality(K) : k < l => Nth(K, k) < Nth(K, l) BY <1>1, NthFacts
<1>5. \A i \in K : \E k \in 1..Cardinality(K) : Nth(K, k) = i BY <1>1, NthFacts
<1>6. K # {} => Cardinality(K) > 0 BY <1>1, NthFacts
<1>7. At(list, K) \in Seq(S) /\ Len(At(list, K)) = Cardinality(K) /\ DOMAIN At(list, K) = 1..Cardinality(K)
  BY <1>2, <1>3 DEF At
<1>8. \A k \in DOMAIN At(list, K) : At(list, K)[k] = list[Nth(K, k)] BY <1>7 DEF At
<1>9. K # {} => At(list, K) # <<>> BY <1>2, <1>6, <1>7
<1> QED BY <1>3, <1>4, <1>5, <1>7, <1>8, <1>9

----------------------------------------------------------------------------
(* What the lists of the requests are made of.                              *)
LEMMA EntryFacts ==
    ASSUME NEW list \in Seq(Entry), NEW i \in DOMAIN list
    PROVE  /\ list[i] \in Entry /\ list[i].id \in Ids /\ list[i].text \in Ids /\ list[i].id \in Nat
           /\ [list[i] EXCEPT !.forced = TRUE] \in Entry /\ [list[i] EXCEPT !.forced = TRUE].id = list[i].id
           /\ [list[i] EXCEPT !.forced = TRUE].text = list[i].text
<1>1. list[i] \in Entry OBVIOUS
<1>2. Ids \subseteq Nat BY BoundsAreNat DEF Ids
<1>3. list[i].id \in Ids BY <1>1 DEF Entry
<1>4. list[i].id \in Nat BY <1>2, <1>3
<1> QED BY <1>1, <1>3, <1>4 DEF Entry

LEMMA FitsLater ==
    ASSUME NEW n \in Nat, NEW m \in Nat, n <= m, NEW list, Fits(list, n)
    PROVE  Fits(list, m)
<1>1. \A i \in DOMAIN list : list[i].id \in Nat BY EntryFacts DEF Fits
<1> QED BY <1>1 DEF Fits

LEMMA FitsEmpty == ASSUME NEW n \in Nat PROVE Fits(<<>>, n)
BY DEF Fits

LEMMA FitsAt ==
    ASSUME NEW n \in Nat, NEW list, Fits(list, n), NEW K \in SUBSET DOMAIN list
    PROVE  Fits(At(list, K), n)
<1> DEFINE part == At(list, K)
<1>1. list \in Seq(Entry) BY DEF Fits
<1>2. part \in Seq(Entry) BY <1>1, AtFacts
<1>3. \A k \in DOMAIN part : part[k] = list[Nth(K, k)] /\ Nth(K, k) \in K BY <1>1, AtFacts
<1>4. \A k, l \in DOMAIN part : k < l => Nth(K, k) < Nth(K, l) BY <1>1, AtFacts
<1> HIDE DEF part
<1>5. \A k, l \in DOMAIN part : k < l => part[k].id < part[l].id BY <1>3, <1>4 DEF Fits
<1>6. \A k \in DOMAIN part : part[k].id < n BY <1>3 DEF Fits
<1>7. Fits(part, n) BY <1>2, <1>5, <1>6 DEF Fits
<1> QED BY <1>7 DEF part

LEMMA FitsForced ==
    ASSUME NEW n \in Nat, NEW list, Fits(list, n)
    PROVE  Fits(ForceAll(list), n) /\ \A id \in Ids : Fits(ForceOne(list, id), n)
<1>1. list \in Seq(Entry) BY DEF Fits
<1>2. \A i \in DOMAIN list : /\ [list[i] EXCEPT !.forced = TRUE] \in Entry /\ list[i] \in Entry
                             /\ [list[i] EXCEPT !.forced = TRUE].id = list[i].id
  BY <1>1, EntryFacts
<1>2a. DOMAIN list = 1..Len(list) /\ Len(list) \in Nat BY <1>1
<1>3. /\ ForceAll(list) \in Seq(Entry) /\ DOMAIN ForceAll(list) = DOMAIN list
      /\ \A i \in DOMAIN list : ForceAll(list)[i].id = list[i].id
  <2> DEFINE g(i) == [list[i] EXCEPT !.forced = TRUE]
  <2>1. ForceAll(list) = [i \in 1..Len(list) |-> g(i)] BY <1>2a DEF ForceAll
  <2>2. \A i \in 1..Len(list) : g(i) \in Entry /\ g(i).id = list[i].id BY <1>2, <1>2a
  <2> HIDE DEF g
  <2> QED BY <1>2a, <2>1, <2>2
<1>4. ASSUME NEW id \in Ids
      PROVE  /\ ForceOne(list, id) \in Seq(Entry) /\ DOMAIN ForceOne(list, id) = DOMAIN list
             /\ \A i \in DOMAIN list : ForceOne(list, id)[i].id = list[i].id
  BY <1>1, <1>2 DEF ForceOne
<1> QED BY <1>3, <1>4 DEF Fits

LEMMA FitsNew ==
    ASSUME nextId \in Ids, NEW list, Fits(list, nextId), NEW text \in Ids
    PROVE  Fits(NewList(list, text), nextId + 1)
<1> DEFINE e == NewEntry(nextId, text)
<1>1. list \in Seq(Entry) /\ e \in Entry /\ e.id = nextId BY DEF Fits, NewEntry, Entry
<1>2. nextId \in Nat BY BoundsAreNat DEF Ids
<1> HIDE DEF e
<1>3. /\ Append(list, e) \in Seq(Entry) /\ DOMAIN Append(list, e) = 1..Len(list) + 1
      /\ Append(list, e)[Len(list) + 1] = e
      /\ \A i \in 1..Len(list) : Append(list, e)[i] = list[i]
  BY <1>1
<1>4. \A i \in 1..Len(list) : list[i].id < nextId /\ list[i].id \in Nat
  <2>1. \A i \in DOMAIN list : list[i].id \in Nat BY <1>1, EntryFacts
  <2> QED BY <1>1, <2>1 DEF Fits
<1>5. \A i, j \in DOMAIN Append(list, e) : i < j => Append(list, e)[i].id < Append(list, e)[j].id
  BY <1>1, <1>2, <1>3, <1>4 DEF Fits
<1>6. \A i \in DOMAIN Append(list, e) : Append(list, e)[i].id < nextId + 1
  BY <1>1, <1>2, <1>3, <1>4
<1>7. Fits(Append(list, e), nextId + 1) BY <1>3, <1>5, <1>6 DEF Fits
<1> QED BY <1>7 DEF NewList, e

LEMMA FitsTail ==
    ASSUME NEW n \in Nat, NEW list, Fits(list, n), list # <<>>
    PROVE  Fits(Tail(list), n)
<1>1. list \in Seq(Entry) BY DEF Fits
<1>2. /\ Tail(list) \in Seq(Entry) /\ DOMAIN Tail(list) = 1..(Len(list) - 1)
      /\ \A i \in DOMAIN Tail(list) : Tail(list)[i] = list[i + 1] /\ i + 1 \in DOMAIN list
  BY <1>1
<1> QED BY <1>1, <1>2 DEF Fits

----------------------------------------------------------------------------
(* The order of the lists.                                                  *)
LEMMA ListInvTells == ListInv => TypeOK
<1> SUFFICES ASSUME ListInv PROVE TypeOK OBVIOUS
<1>1. \A list \in Lists : Fits(list, nextId) BY DEF ListInv, Lists, FrameFits
<1>2. \A list \in Lists : list \in Seq(Entry) BY <1>1 DEF Fits
<1>3. \A list \in Lists : \A i \in DOMAIN list : list[i] \in Entry BY <1>2
<1> QED BY <1>3 DEF TypeOK, ListInv, FrameFits

LEMMA ListInit == Init => ListInv
<1> SUFFICES ASSUME Init PROVE ListInv OBVIOUS
<1>1. nextId = 1 /\ 1 \in 1..(MaxIds + 1) /\ 1 \in Nat BY BoundsAreNat DEF Init
<1>2. Fits(<<>>, nextId) BY <1>1, FitsEmpty
<1>3. Idle \in Frames /\ Idle.buf = <<>> /\ Idle.hand = <<>> /\ Idle.pc = "idle"
  BY BoundsAreNat DEF Idle, Frames, NoArg, PCs
<1>4. FrameFits(Idle, nextId) BY <1>2, <1>3 DEF FrameFits
<1>5. \A h \in Handlers : frame[h] = Idle BY DEF Init
<1>6. frame \in [Handlers -> Frames] BY <1>3 DEF Init
<1>7. \A h \in Handlers : FrameFits(frame[h], nextId) BY <1>4, <1>5
<1>8. active \in 0..MaxActive /\ runs \in 0..MaxRuns /\ 0 + 0 <= MaxLooks BY BoundsAreNat DEF Init
<1>9. drops \in BOOLEAN BY SwitchesAreBoolean DEF Init
<1> QED BY <1>1, <1>2, <1>6, <1>7, <1>8, <1>9 DEF Init, ListInv

(* The counts of the browsers stay in their bound.                          *)
BrowsersFit == checks \in Nat /\ continues \in Nat /\ checks + continues <= MaxLooks /\ drops \in BOOLEAN

(* The request h moves to a frame with these fields.                        *)
MovesTo(h, pc, arg, buf, hand) ==
    /\ frame' \in [Handlers -> Frames]
    /\ \A g \in Handlers \ {h} : frame'[g] = frame[g]
    /\ frame'[h].pc = pc /\ frame'[h].arg = arg /\ frame'[h].buf = buf /\ frame'[h].hand = hand

LEMMA Moves ==
    ASSUME frame \in [Handlers -> Frames], NEW h \in Handlers, NEW pc \in PCs, NEW arg \in 0..MaxIds,
           NEW buf \in Seq(Entry), NEW hand \in Seq(Entry), NEW f \in Frames,
           f.pc = pc, f.arg = arg, f.buf = buf, f.hand = hand, frame' = [frame EXCEPT ![h] = f]
    PROVE  MovesTo(h, pc, arg, buf, hand)
BY DEF MovesTo

(* The ways in which the steps of a request change its frame.               *)
LEMMA StepMoves ==
    ASSUME frame \in [Handlers -> Frames], NEW h \in Handlers, NEW pc \in PCs, NEW arg \in 0..MaxIds,
           NEW buf \in Seq(Entry), NEW hand \in Seq(Entry)
    PROVE  /\ frame' = [frame EXCEPT ![h].pc = pc]
                => MovesTo(h, pc, frame[h].arg, frame[h].buf, frame[h].hand)
           /\ frame' = [frame EXCEPT ![h].pc = pc, ![h].buf = buf]
                => MovesTo(h, pc, frame[h].arg, buf, frame[h].hand)
           /\ frame' = [frame EXCEPT ![h].pc = pc, ![h].hand = hand]
                => MovesTo(h, pc, frame[h].arg, frame[h].buf, hand)
           /\ frame' = [frame EXCEPT ![h].pc = pc, ![h].arg = arg, ![h].buf = buf]
                => MovesTo(h, pc, arg, buf, frame[h].hand)
           /\ frame' = [frame EXCEPT ![h].pc = pc, ![h].buf = buf, ![h].arg = arg]
                => MovesTo(h, pc, arg, buf, frame[h].hand)
           /\ frame' = [frame EXCEPT ![h].pc = pc, ![h].buf = buf, ![h].hand = hand]
                => MovesTo(h, pc, frame[h].arg, buf, hand)
<1> DEFINE r == frame[h]
<1>1. r \in Frames OBVIOUS
<1> HIDE DEF r
<1>t. r.arg \in 0..MaxIds /\ r.buf \in Seq(Entry) /\ r.hand \in Seq(Entry) BY <1>1 DEF Frames
<1>2. ASSUME frame' = [frame EXCEPT ![h].pc = pc] PROVE MovesTo(h, pc, r.arg, r.buf, r.hand)
  <2> DEFINE f == [r EXCEPT !.pc = pc]
  <2>1. frame' = [frame EXCEPT ![h] = f] BY <1>2 DEF r
  <2>2. f \in Frames /\ f.pc = pc /\ f.arg = r.arg /\ f.buf = r.buf /\ f.hand = r.hand BY <1>1 DEF Frames
  <2> HIDE DEF f
  <2> QED BY <1>t, <2>1, <2>2, Moves
<1>3. ASSUME frame' = [frame EXCEPT ![h].pc = pc, ![h].buf = buf] PROVE MovesTo(h, pc, r.arg, buf, r.hand)
  <2> DEFINE f == [r EXCEPT !.pc = pc, !.buf = buf]
  <2>1. frame' = [frame EXCEPT ![h] = f] BY <1>3 DEF r
  <2>2. f \in Frames /\ f.pc = pc /\ f.arg = r.arg /\ f.buf = buf /\ f.hand = r.hand BY <1>1 DEF Frames
  <2> HIDE DEF f
  <2> QED BY <1>t, <2>1, <2>2, Moves
<1>4. ASSUME frame' = [frame EXCEPT ![h].pc = pc, ![h].hand = hand] PROVE MovesTo(h, pc, r.arg, r.buf, hand)
  <2> DEFINE f == [r EXCEPT !.pc = pc, !.hand = hand]
  <2>1. frame' = [frame EXCEPT ![h] = f] BY <1>4 DEF r
  <2>2. f \in Frames /\ f.pc = pc /\ f.arg = r.arg /\ f.buf = r.buf /\ f.hand = hand BY <1>1 DEF Frames
  <2> HIDE DEF f
  <2> QED BY <1>t, <2>1, <2>2, Moves
<1>5. ASSUME frame' = [frame EXCEPT ![h].pc = pc, ![h].arg = arg, ![h].buf = buf]
              \/ frame' = [frame EXCEPT ![h].pc = pc, ![h].buf = buf, ![h].arg = arg]
      PROVE  MovesTo(h, pc, arg, buf, r.hand)
  <2> DEFINE f == [r EXCEPT !.pc = pc, !.arg = arg, !.buf = buf]
             g == [r EXCEPT !.pc = pc, !.buf = buf, !.arg = arg]
  <2>1. frame' = [frame EXCEPT ![h] = f] \/ frame' = [frame EXCEPT ![h] = g] BY <1>5 DEF r
  <2>2. f \in Frames /\ f.pc = pc /\ f.arg = arg /\ f.buf = buf /\ f.hand = r.hand BY <1>1 DEF Frames
  <2>3. g \in Frames /\ g.pc = pc /\ g.arg = arg /\ g.buf = buf /\ g.hand = r.hand BY <1>1 DEF Frames
  <2> HIDE DEF f, g
  <2> QED BY <1>t, <2>1, <2>2, <2>3, Moves
<1>6. ASSUME frame' = [frame EXCEPT ![h].pc = pc, ![h].buf = buf, ![h].hand = hand]
      PROVE  MovesTo(h, pc, r.arg, buf, hand)
  <2> DEFINE f == [r EXCEPT !.pc = pc, !.buf = buf, !.hand = hand]
  <2>1. frame' = [frame EXCEPT ![h] = f] BY <1>6 DEF r
  <2>2. f \in Frames /\ f.pc = pc /\ f.arg = r.arg /\ f.buf = buf /\ f.hand = hand BY <1>1 DEF Frames
  <2> HIDE DEF f
  <2> QED BY <1>t, <2>1, <2>2, Moves
<1> QED BY <1>2, <1>3, <1>4, <1>5, <1>6 DEF r

LEMMA FreshMoves ==
    ASSUME frame \in [Handlers -> Frames], NEW h \in Handlers, NEW pc \in PCs, NEW arg \in 0..MaxIds,
           NEW hand \in Seq(Entry)
    PROVE  /\ Finish(h) => MovesTo(h, "idle", NoArg, <<>>, <<>>)
           /\ frame' = [frame EXCEPT ![h] = [Idle EXCEPT !.pc = pc, !.arg = arg]]
                => MovesTo(h, pc, arg, <<>>, <<>>)
           /\ frame' = [frame EXCEPT ![h] = [Idle EXCEPT !.pc = pc, !.hand = hand]]
                => MovesTo(h, pc, NoArg, <<>>, hand)
<1> DEFINE f == [Idle EXCEPT !.pc = pc, !.arg = arg]
           g == [Idle EXCEPT !.pc = pc, !.hand = hand]
<1>0. <<>> \in Seq(Entry) /\ NoArg \in 0..MaxIds /\ "idle" \in PCs BY BoundsAreNat DEF NoArg, PCs
<1>1. Idle \in Frames /\ Idle.pc = "idle" /\ Idle.arg = NoArg /\ Idle.buf = <<>> /\ Idle.hand = <<>>
  BY <1>0 DEF Idle, Frames
<1>2. f \in Frames /\ f.pc = pc /\ f.arg = arg /\ f.buf = <<>> /\ f.hand = <<>> BY <1>1 DEF Frames
<1>3. g \in Frames /\ g.pc = pc /\ g.arg = NoArg /\ g.buf = <<>> /\ g.hand = hand BY <1>1 DEF Frames
<1> HIDE DEF f, g
<1>4. frame' = [frame EXCEPT ![h] = f] => MovesTo(h, pc, arg, <<>>, <<>>) BY <1>0, <1>2, Moves
<1>5. frame' = [frame EXCEPT ![h] = g] => MovesTo(h, pc, NoArg, <<>>, hand) BY <1>0, <1>3, Moves
<1>6. Finish(h) => MovesTo(h, "idle", NoArg, <<>>, <<>>) BY <1>0, <1>1, Moves DEF Finish
<1> QED BY <1>4, <1>5, <1>6 DEF f, g

(* A request that moves to a frame that fits, and leaves a store that fits. *)
LEMMA OneRequestMoves ==
    ASSUME ListInv, NEW h \in Handlers, NEW pc, NEW arg, NEW buf, NEW hand,
           nextId' \in {nextId, nextId + 1}, nextId' <= MaxIds + 1,
           MovesTo(h, pc, arg, buf, hand), Fits(buf, nextId'), Fits(hand, nextId'),
           pc \in {"popWrite", "drainDelete", "create", "requeueRead", "requeueWrite"} => hand # <<>>,
           Fits(store', nextId'), active' \in 0..MaxActive,
           BrowsersFit', UNCHANGED <<mw, mwBuf, runs>>
    PROVE  ListInv'
<1>1. nextId \in Nat /\ nextId' \in Nat /\ nextId <= nextId' /\ nextId' \in 1..(MaxIds + 1)
  BY BoundsAreNat DEF ListInv
<1>2. Fits(mwBuf', nextId') BY <1>1, FitsLater DEF ListInv
<1>3. frame' \in [Handlers -> Frames] BY DEF MovesTo
<1>4. ASSUME NEW g \in Handlers PROVE FrameFits(frame'[g], nextId')
  <2>1. CASE g = h BY <1>3, <2>1 DEF MovesTo, FrameFits
  <2>2. CASE g # h
    <3>1. frame'[g] = frame[g] /\ FrameFits(frame[g], nextId) BY <2>2 DEF ListInv, MovesTo
    <3>2. Fits(frame[g].buf, nextId') /\ Fits(frame[g].hand, nextId') BY <1>1, <3>1, FitsLater DEF FrameFits
    <3> QED BY <3>1, <3>2 DEF FrameFits
  <2> QED BY <2>1, <2>2
<1> QED BY <1>1, <1>2, <1>3, <1>4 DEF ListInv, BrowsersFit

(* What a request finds.                                                    *)
LEMMA Parts ==
    ASSUME ListInv, NEW h \in Handlers
    PROVE  /\ frame \in [Handlers -> Frames] /\ frame[h].pc \in PCs /\ frame[h].arg \in 0..MaxIds
           /\ frame[h].buf \in Seq(Entry) /\ frame[h].hand \in Seq(Entry)
           /\ Fits(frame[h].buf, nextId) /\ Fits(frame[h].hand, nextId)
           /\ frame[h].pc \in {"popWrite", "drainDelete", "create", "requeueRead", "requeueWrite"}
                => frame[h].hand # <<>>
           /\ Fits(store, nextId) /\ nextId \in Nat /\ nextId \in 1..(MaxIds + 1) /\ Fits(<<>>, nextId)
           /\ \A list \in {store, <<>>} : Fits(list, nextId) /\ list \in Seq(Entry)
           /\ active \in 0..MaxActive /\ BrowsersFit /\ nextId <= MaxIds + 1
<1>1. FrameFits(frame[h], nextId) /\ nextId \in 1..(MaxIds + 1) /\ nextId \in Nat /\ nextId <= MaxIds + 1
  BY BoundsAreNat DEF ListInv
<1>2. frame[h] \in Frames BY DEF ListInv
<1>3. frame[h].pc \in PCs /\ frame[h].arg \in 0..MaxIds /\ frame[h].buf \in Seq(Entry) /\ frame[h].hand \in Seq(Entry)
  BY <1>2 DEF Frames
<1>4. Fits(<<>>, nextId) BY <1>1, FitsEmpty
<1>5. \A list \in {store, <<>>} : Fits(list, nextId) /\ list \in Seq(Entry) BY <1>4 DEF ListInv, Fits
<1> QED BY <1>1, <1>2, <1>3, <1>4, <1>5 DEF ListInv, FrameFits, BrowsersFit

----------------------------------------------------------------------------
(* What each step of a request does to its frame, and that lists made of    *)
(* lists in order are in order.                                             *)
LEMMA QueueReadMoves ==
    ASSUME ListInv, NEW h \in Handlers, QueueRead(h)
    PROVE  /\ nextId \in Ids /\ nextId' = nextId + 1
           /\ \E list \in {store, <<>>} :
                /\ ReadQueue(list) /\ Fits(NewList(list, nextId), nextId')
                /\ MovesTo(h, "queueWrite", nextId, NewList(list, nextId), frame[h].hand)
<1>1. nextId \in Ids /\ nextId \in 0..MaxIds /\ nextId' = nextId + 1 BY Parts DEF QueueRead, Ids
<1>2. PICK list \in {store, <<>>} :
        /\ ReadQueue(list)
        /\ frame' = [frame EXCEPT ![h].pc = "queueWrite", ![h].arg = nextId, ![h].buf = NewList(list, nextId)]
  BY DEF QueueRead
<1>3. Fits(NewList(list, nextId), nextId + 1) BY <1>1, Parts, FitsNew
<1>4. NewList(list, nextId) \in Seq(Entry) BY <1>3 DEF Fits
<1>5. "queueWrite" \in PCs BY DEF PCs
<1>6. MovesTo(h, "queueWrite", nextId, NewList(list, nextId), frame[h].hand)
  <2> DEFINE buf == NewList(list, nextId)
  <2> HIDE DEF buf
  <2>1. buf \in Seq(Entry) BY <1>4 DEF buf
  <2>2. frame' = [frame EXCEPT ![h].pc = "queueWrite", ![h].arg = nextId, ![h].buf = buf] BY <1>2 DEF buf
  <2>3. MovesTo(h, "queueWrite", nextId, buf, frame[h].hand) BY <1>1, <1>5, <2>1, <2>2, Parts, StepMoves
  <2> QED BY <2>3 DEF buf
<1> QED BY <1>1, <1>2, <1>3, <1>6

LEMMA ForceReadMoves ==
    ASSUME ListInv, NEW h \in Handlers, ForceRead(h)
    PROVE  \E list \in {store, <<>>} :
             /\ ReadQueue(list)
             /\ \/ /\ frame[h].arg \in IdsIn(list) /\ frame[h].arg \in Ids
                   /\ Fits(ForceOne(list, frame[h].arg), nextId)
                   /\ MovesTo(h, "forceWrite", frame[h].arg, ForceOne(list, frame[h].arg), frame[h].hand)
                \/ frame[h].arg \notin IdsIn(list) /\ MovesTo(h, "idle", NoArg, <<>>, <<>>)
<1>1. PICK list \in {store, <<>>} :
        /\ ReadQueue(list)
        /\ IF frame[h].arg \in IdsIn(list)
             THEN frame' = [frame EXCEPT ![h].pc = "forceWrite", ![h].buf = ForceOne(list, frame[h].arg)]
             ELSE Finish(h)
  BY DEF ForceRead
<1>2. CASE frame[h].arg \in IdsIn(list)
  <2> DEFINE buf == ForceOne(list, frame[h].arg)
  <2>1. list \in Seq(Entry) /\ Fits(list, nextId) BY Parts
  <2>2. frame[h].arg \in Ids BY <1>2, <2>1, EntryFacts DEF IdsIn
  <2>3. Fits(buf, nextId) BY <2>1, <2>2, FitsForced, Parts
  <2>4. buf \in Seq(Entry) BY <2>3 DEF Fits
  <2>5. frame' = [frame EXCEPT ![h].pc = "forceWrite", ![h].buf = buf] /\ "forceWrite" \in PCs BY <1>1, <1>2 DEF PCs
  <2> HIDE DEF buf
  <2>6. MovesTo(h, "forceWrite", frame[h].arg, buf, frame[h].hand) BY <2>4, <2>5, Parts, StepMoves
  <2> QED BY <1>1, <1>2, <2>2, <2>3, <2>6 DEF buf
<1>3. CASE frame[h].arg \notin IdsIn(list)
  <2>1. MovesTo(h, "idle", NoArg, <<>>, <<>>) BY <1>1, <1>3, Parts, FreshMoves
  <2> QED BY <1>1, <1>3, <2>1
<1> QED BY <1>2, <1>3

LEMMA PopReadMoves ==
    ASSUME ListInv, NEW h \in Handlers, PopRead(h)
    PROVE  \E list \in {store, <<>>} :
             /\ ReadQueue(list)
             /\ \/ /\ frame[h].arg \in IdsIn(list) /\ frame[h].arg \in Ids
                   /\ Fits(Without(list, frame[h].arg), nextId) /\ Fits(Only(list, frame[h].arg), nextId)
                   /\ Only(list, frame[h].arg) # <<>>
                   /\ MovesTo(h, IF frame[h].pc = "popRead" THEN "popWrite" ELSE "deleteWrite", frame[h].arg,
                              Without(list, frame[h].arg), Only(list, frame[h].arg))
                \/ frame[h].arg \notin IdsIn(list) /\ MovesTo(h, "idle", NoArg, <<>>, <<>>)
<1> DEFINE pc == IF frame[h].pc = "popRead" THEN "popWrite" ELSE "deleteWrite"
<1>1. PICK list \in {store, <<>>} :
        /\ ReadQueue(list)
        /\ IF frame[h].arg \in IdsIn(list)
             THEN frame' = [frame EXCEPT ![h].pc = pc, ![h].buf = Without(list, frame[h].arg),
                                         ![h].hand = Only(list, frame[h].arg)]
             ELSE Finish(h)
  BY DEF PopRead
<1>2. CASE frame[h].arg \in IdsIn(list)
  <2> DEFINE buf == Without(list, frame[h].arg)
             hand == Only(list, frame[h].arg)
  <2>1. list \in Seq(Entry) /\ Fits(list, nextId) BY Parts
  <2>2. frame[h].arg \in Ids BY <1>2, <2>1, EntryFacts DEF IdsIn
  <2>3. Fits(buf, nextId) BY <2>1, Parts, FitsAt DEF Without
  <2>4. Fits(hand, nextId) BY <2>1, Parts, FitsAt DEF Only
  <2>5. hand # <<>>
    <3>1. {i \in DOMAIN list : list[i].id = frame[h].arg} # {} BY <1>2 DEF IdsIn
    <3> QED BY <2>1, <3>1, AtFacts DEF Only
  <2>6. buf \in Seq(Entry) /\ hand \in Seq(Entry) BY <2>3, <2>4 DEF Fits
  <2>7. frame' = [frame EXCEPT ![h].pc = pc, ![h].buf = buf, ![h].hand = hand] /\ pc \in PCs BY <1>1, <1>2 DEF PCs
  <2> HIDE DEF buf, hand, pc
  <2>8. MovesTo(h, pc, frame[h].arg, buf, hand) BY <2>6, <2>7, Parts, StepMoves
  <2> QED BY <1>1, <1>2, <2>2, <2>3, <2>4, <2>5, <2>8 DEF buf, hand, pc
<1>3. CASE frame[h].arg \notin IdsIn(list)
  <2>1. MovesTo(h, "idle", NoArg, <<>>, <<>>) BY <1>1, <1>3, Parts, FreshMoves
  <2> QED BY <1>1, <1>3, <2>1
<1> QED BY <1>2, <1>3

LEMMA PopWriteMoves ==
    ASSUME ListInv, NEW h \in Handlers, PopWrite(h)
    PROVE  \/ frame[h].pc = "popWrite" /\ MovesTo(h, "create", NoArg, <<>>, frame[h].hand)
           \/ frame[h].pc = "deleteWrite" /\ MovesTo(h, "idle", NoArg, <<>>, <<>>)
<1>1. CASE frame[h].pc = "popWrite"
  <2>1. frame' = [frame EXCEPT ![h].pc = "create", ![h].buf = <<>>, ![h].arg = NoArg] BY <1>1 DEF PopWrite
  <2>2. "create" \in PCs /\ <<>> \in Seq(Entry) /\ NoArg \in 0..MaxIds BY BoundsAreNat DEF PCs, NoArg
  <2>3. MovesTo(h, "create", NoArg, <<>>, frame[h].hand) BY <2>1, <2>2, Parts, StepMoves
  <2> QED BY <1>1, <2>3
<1>2. CASE frame[h].pc = "deleteWrite"
  <2>1. Finish(h) BY <1>2 DEF PopWrite
  <2> QED BY <1>2, <2>1, Parts, FreshMoves
<1> QED BY <1>1, <1>2 DEF PopWrite

LEMMA ForceAllReadMoves ==
    ASSUME ListInv, NEW h \in Handlers, ForceAllRead(h)
    PROVE  \E list \in {store, <<>>} :
             /\ ReadQueue(list)
             /\ \/ /\ list # <<>> /\ Fits(ForceAll(list), nextId)
                   /\ MovesTo(h, "forceAllWrite", frame[h].arg, ForceAll(list), frame[h].hand)
                \/ MovesTo(h, "idle", NoArg, <<>>, <<>>)
<1>1. PICK list \in {store, <<>>} :
        /\ ReadQueue(list)
        /\ IF list # <<>>
             THEN frame' = [frame EXCEPT ![h].pc = "forceAllWrite", ![h].buf = ForceAll(list)]
             ELSE Finish(h)
  BY DEF ForceAllRead
<1>2. CASE list # <<>>
  <2> DEFINE buf == ForceAll(list)
  <2>1. Fits(buf, nextId) BY FitsForced, Parts
  <2>2. buf \in Seq(Entry) BY <2>1 DEF Fits
  <2>3. frame' = [frame EXCEPT ![h].pc = "forceAllWrite", ![h].buf = buf] /\ "forceAllWrite" \in PCs BY <1>1, <1>2 DEF PCs
  <2> HIDE DEF buf
  <2>4. MovesTo(h, "forceAllWrite", frame[h].arg, buf, frame[h].hand) BY <2>2, <2>3, Parts, StepMoves
  <2> QED BY <1>1, <1>2, <2>1, <2>4 DEF buf
<1>3. CASE list = <<>>
  <2>1. MovesTo(h, "idle", NoArg, <<>>, <<>>) BY <1>1, <1>3, Parts, FreshMoves
  <2> QED BY <1>1, <1>3, <2>1
<1> QED BY <1>2, <1>3

LEMMA DrainReadMoves ==
    ASSUME ListInv, NEW h \in Handlers, DrainRead(h)
    PROVE  \E list \in {store, <<>>} :
             /\ ReadQueue(list)
             /\ \/ list # <<>> /\ MovesTo(h, "drainDelete", frame[h].arg, frame[h].buf, list)
                \/ MovesTo(h, "idle", NoArg, <<>>, <<>>)
<1>1. PICK list \in {store, <<>>} :
        /\ ReadQueue(list)
        /\ IF list # <<>>
             THEN frame' = [frame EXCEPT ![h].pc = "drainDelete", ![h].hand = list]
             ELSE Finish(h)
  BY DEF DrainRead
<1>2. CASE list # <<>>
  <2>1. list \in Seq(Entry) /\ "drainDelete" \in PCs BY Parts DEF PCs
  <2>2. MovesTo(h, "drainDelete", frame[h].arg, frame[h].buf, list) BY <1>1, <1>2, <2>1, Parts, StepMoves
  <2> QED BY <1>1, <1>2, <2>2
<1>3. CASE list = <<>>
  <2>1. MovesTo(h, "idle", NoArg, <<>>, <<>>) BY <1>1, <1>3, Parts, FreshMoves
  <2> QED BY <1>1, <1>3, <2>1
<1> QED BY <1>2, <1>3

LEMMA RequeueReadMoves ==
    ASSUME ListInv, NEW h \in Handlers, RequeueRead(h)
    PROVE  /\ nextId \in Ids /\ nextId' = nextId + 1 /\ Head(frame[h].hand).text \in Ids
           /\ \E list \in {store, <<>>} :
                /\ ReadQueue(list) /\ Fits(NewList(list, Head(frame[h].hand).text), nextId')
                /\ MovesTo(h, "requeueWrite", frame[h].arg, NewList(list, Head(frame[h].hand).text), frame[h].hand)
<1>1. nextId \in Ids /\ nextId' = nextId + 1 BY Parts DEF RequeueRead, Ids
<1> DEFINE text == Head(frame[h].hand).text
<1>2. text \in Ids
  <2>1. frame[h].hand \in Seq(Entry) /\ frame[h].hand # <<>> BY Parts DEF RequeueRead
  <2>2. 1 \in DOMAIN frame[h].hand /\ Head(frame[h].hand) = frame[h].hand[1] BY <2>1
  <2> QED BY <2>1, <2>2, EntryFacts
<1>3. PICK list \in {store, <<>>} :
        /\ ReadQueue(list)
        /\ frame' = [frame EXCEPT ![h].pc = "requeueWrite", ![h].buf = NewList(list, text)]
  BY DEF RequeueRead
<1> DEFINE buf == NewList(list, text)
<1> HIDE DEF text
<1>4. Fits(buf, nextId + 1) BY <1>1, <1>2, Parts, FitsNew
<1>5. buf \in Seq(Entry) BY <1>4 DEF Fits
<1>6. frame' = [frame EXCEPT ![h].pc = "requeueWrite", ![h].buf = buf] /\ "requeueWrite" \in PCs BY <1>3 DEF PCs
<1> HIDE DEF buf
<1>7. MovesTo(h, "requeueWrite", frame[h].arg, buf, frame[h].hand) BY <1>5, <1>6, Parts, StepMoves
<1> QED BY <1>1, <1>2, <1>3, <1>4, <1>7 DEF buf, text

LEMMA TailOfMore ==
    ASSUME NEW S, NEW list \in Seq(S), list # <<>>, Len(list) # 1
    PROVE  Len(list) > 1 /\ Tail(list) \in Seq(S) /\ Tail(list) # <<>>
<1>1. Len(list) \in Nat /\ Len(list) # 0 OBVIOUS
<1>2. Len(list) > 1 BY <1>1
<1>3. Tail(list) \in Seq(S) /\ Len(Tail(list)) = Len(list) - 1 BY <1>2
<1> DEFINE t == Tail(list)
<1> HIDE DEF t
<1>4. t \in Seq(S) /\ Len(t) # 0 BY <1>1, <1>2, <1>3 DEF t
<1>5. t # <<>> BY <1>4
<1> QED BY <1>2, <1>3, <1>5 DEF t

LEMMA RequeueWriteMoves ==
    ASSUME ListInv, NEW h \in Handlers, RequeueWrite(h)
    PROVE  \/ Len(frame[h].hand) = 1 /\ MovesTo(h, "idle", NoArg, <<>>, <<>>)
           \/ /\ Len(frame[h].hand) > 1 /\ Fits(Tail(frame[h].hand), nextId) /\ Tail(frame[h].hand) # <<>>
              /\ MovesTo(h, "requeueRead", frame[h].arg, <<>>, Tail(frame[h].hand))
<1> DEFINE rest == Tail(frame[h].hand)
<1>1. frame[h].hand \in Seq(Entry) /\ frame[h].hand # <<>> BY Parts DEF RequeueWrite
<1>2. CASE Len(frame[h].hand) = 1
  <2>1. Finish(h) BY <1>2 DEF RequeueWrite
  <2> QED BY <1>2, <2>1, Parts, FreshMoves
<1>3. CASE Len(frame[h].hand) # 1
  <2>1. Len(frame[h].hand) > 1 /\ rest \in Seq(Entry) /\ rest # <<>> BY <1>1, <1>3, TailOfMore
  <2>2. Fits(rest, nextId) BY <1>1, FitsTail, Parts
  <2>3. frame' = [frame EXCEPT ![h].pc = "requeueRead", ![h].buf = <<>>, ![h].hand = rest] BY <1>3 DEF RequeueWrite
  <2>4. "requeueRead" \in PCs /\ <<>> \in Seq(Entry) BY DEF PCs
  <2> HIDE DEF rest
  <2>5. MovesTo(h, "requeueRead", frame[h].arg, <<>>, rest) BY <2>1, <2>3, <2>4, Parts, StepMoves
  <2> QED BY <2>1, <2>2, <2>5 DEF rest
<1> QED BY <1>2, <1>3

LEMMA GotoMoves ==
    ASSUME ListInv, NEW h \in Handlers, NEW pc \in PCs, Goto(h, pc)
    PROVE  MovesTo(h, pc, frame[h].arg, frame[h].buf, frame[h].hand)
BY Parts, StepMoves DEF Goto

LEMMA FinishMoves ==
    ASSUME ListInv, NEW h \in Handlers, Finish(h)
    PROVE  MovesTo(h, "idle", NoArg, <<>>, <<>>)
BY Parts, FreshMoves

LEMMA DirectMoves ==
    ASSUME ListInv, NEW h \in Handlers, NEW id \in Ids, Direct(h, id) \/ Delete(h, id)
    PROVE  \E pc \in {"forceRead", "popRead", "deleteRead"} : MovesTo(h, pc, id, <<>>, <<>>)
<1>1. PICK pc \in {"forceRead", "popRead", "deleteRead"} :
        frame' = [frame EXCEPT ![h] = [Idle EXCEPT !.pc = pc, !.arg = id]]
  BY DEF Direct, Delete
<1>2. pc \in PCs /\ id \in 0..MaxIds BY BoundsAreNat DEF PCs, Ids
<1>3. frame \in [Handlers -> Frames] /\ <<>> \in Seq(Entry) BY DEF ListInv
<1>4. MovesTo(h, pc, id, <<>>, <<>>) BY <1>1, <1>2, <1>3, FreshMoves
<1> QED BY <1>4

LEMMA ClearMoves ==
    ASSUME ListInv, NEW h \in Handlers, Clear(h)
    PROVE  MovesTo(h, "clearDelete", NoArg, <<>>, store)
<1>1. "clearDelete" \in PCs /\ store \in Seq(Entry) /\ NoArg \in 0..MaxIds /\ frame \in [Handlers -> Frames]
  BY BoundsAreNat DEF PCs, NoArg, ListInv, Fits
<1>2. frame' = [frame EXCEPT ![h] = [Idle EXCEPT !.pc = "clearDelete", !.hand = store]] BY DEF Clear
<1> QED BY <1>1, <1>2, FreshMoves

----------------------------------------------------------------------------
(* One lemma per group of actions: the order of the lists is kept.          *)
LEMMA ReadsKeepOrder ==
    ASSUME ListInv, NEW h \in Handlers,
           QueueRead(h) \/ ForceRead(h) \/ PopRead(h) \/ ForceAllRead(h) \/ DrainRead(h) \/ RequeueRead(h)
    PROVE  ListInv'
<1>p. /\ Fits(frame[h].buf, nextId) /\ Fits(frame[h].hand, nextId) /\ Fits(store, nextId) /\ Fits(<<>>, nextId)
      /\ nextId \in Nat /\ nextId <= MaxIds + 1
  BY Parts
<1>s. /\ store' = store /\ active' \in 0..MaxActive /\ BrowsersFit'
      /\ UNCHANGED <<mw, mwBuf, runs>>
  BY Parts DEF QueueRead, ForceRead, PopRead, ForceAllRead, DrainRead, RequeueRead, browsers, BrowsersFit
<1>l. \A list : Fits(list, nextId) => Fits(list, nextId + 1)
  <2>1. nextId + 1 \in Nat /\ nextId <= nextId + 1 BY <1>p
  <2> QED BY <1>p, <2>1, FitsLater
<1>n. nextId \in Ids => nextId + 1 <= MaxIds + 1 BY BoundsAreNat DEF Ids
<1>1. CASE QueueRead(h)
  <2>1. PICK list \in {store, <<>>} :
          /\ nextId \in Ids /\ nextId' = nextId + 1 /\ Fits(NewList(list, nextId), nextId')
          /\ MovesTo(h, "queueWrite", nextId, NewList(list, nextId), frame[h].hand)
    BY <1>1, QueueReadMoves
  <2> QED BY <1>p, <1>s, <1>l, <1>n, <2>1, OneRequestMoves
<1>2. CASE RequeueRead(h)
  <2>1. PICK list \in {store, <<>>} :
          /\ nextId \in Ids /\ nextId' = nextId + 1 /\ Fits(NewList(list, Head(frame[h].hand).text), nextId')
          /\ MovesTo(h, "requeueWrite", frame[h].arg, NewList(list, Head(frame[h].hand).text), frame[h].hand)
    BY <1>2, RequeueReadMoves
  <2>2. frame[h].hand # <<>> BY <1>2, Parts DEF RequeueRead
  <2> QED BY <1>p, <1>s, <1>l, <1>n, <2>1, <2>2, OneRequestMoves
<1>3. CASE ForceRead(h) \/ PopRead(h) \/ ForceAllRead(h) \/ DrainRead(h)
  <2>0. nextId' = nextId /\ nextId' <= MaxIds + 1 /\ Fits(store', nextId')
    BY <1>3, <1>p, <1>s DEF ForceRead, PopRead, ForceAllRead, DrainRead
  <2>1. PICK pc, arg, buf, hand :
          /\ MovesTo(h, pc, arg, buf, hand) /\ Fits(buf, nextId) /\ Fits(hand, nextId)
          /\ pc \in {"popWrite", "drainDelete", "create", "requeueRead", "requeueWrite"} => hand # <<>>
    <3>1. CASE ForceRead(h) BY <1>p, <3>1, ForceReadMoves
    <3>2. CASE PopRead(h) BY <1>p, <3>2, PopReadMoves
    <3>3. CASE ForceAllRead(h) BY <1>p, <3>3, ForceAllReadMoves
    <3>4. CASE DrainRead(h) BY <1>p, <3>4, DrainReadMoves
    <3> QED BY <1>3, <3>1, <3>2, <3>3, <3>4
  <2> QED BY <1>s, <2>0, <2>1, OneRequestMoves
<1> QED BY <1>1, <1>2, <1>3

LEMMA WritesKeepOrder ==
    ASSUME ListInv, NEW h \in Handlers,
           \/ QueueWrite(h) \/ ForceWrite(h) \/ PopWrite(h) \/ ClearDelete(h) \/ ForceAllWrite(h) \/ DrainDelete(h)
           \/ RequeueWrite(h) \/ WriteFails(h)
    PROVE  ListInv'
<1>p. /\ Fits(frame[h].buf, nextId) /\ Fits(frame[h].hand, nextId) /\ Fits(store, nextId) /\ Fits(<<>>, nextId)
      /\ nextId \in Nat /\ nextId <= MaxIds + 1
  BY Parts
<1>s. /\ active' \in 0..MaxActive /\ BrowsersFit'
      /\ UNCHANGED <<mw, mwBuf, runs>> /\ nextId' = nextId
  BY Parts DEF QueueWrite, ForceWrite, PopWrite, ClearDelete, ForceAllWrite, DrainDelete, RequeueWrite, WriteFails,
              browsers, BrowsersFit
<1>f. Fits(store', nextId')
  BY <1>p, <1>s DEF QueueWrite, ForceWrite, PopWrite, ClearDelete, ForceAllWrite, DrainDelete, RequeueWrite, WriteFails
<1>1. PICK pc, arg, buf, hand :
        /\ MovesTo(h, pc, arg, buf, hand) /\ Fits(buf, nextId) /\ Fits(hand, nextId)
        /\ pc \in {"popWrite", "drainDelete", "create", "requeueRead", "requeueWrite"} => hand # <<>>
  <2>1. CASE Finish(h) BY <1>p, <2>1, FinishMoves
  <2>2. CASE PopWrite(h)
    <3>1. frame[h].pc = "popWrite" => frame[h].hand # <<>> BY Parts
    <3> QED BY <1>p, <2>2, <3>1, PopWriteMoves
  <2>3. CASE DrainDelete(h)
    <3>1. frame[h].hand # <<>> /\ "create" \in PCs BY <2>3, Parts DEF DrainDelete, PCs
    <3> QED BY <1>p, <2>3, <3>1, GotoMoves DEF DrainDelete
  <2>4. CASE RequeueWrite(h)
    <3>1. CASE MovesTo(h, "idle", NoArg, <<>>, <<>>) BY <1>p, <3>1
    <3>2. ASSUME NEW rest, Fits(rest, nextId), rest # <<>>, MovesTo(h, "requeueRead", frame[h].arg, <<>>, rest)
          PROVE  \E pc, arg, buf, hand :
                   /\ MovesTo(h, pc, arg, buf, hand) /\ Fits(buf, nextId) /\ Fits(hand, nextId)
                   /\ pc \in {"popWrite", "drainDelete", "create", "requeueRead", "requeueWrite"} => hand # <<>>
      BY <1>p, <3>2
    <3> QED BY <2>4, <3>1, <3>2, RequeueWriteMoves
  <2> QED BY <2>1, <2>2, <2>3, <2>4 DEF QueueWrite, ForceWrite, ClearDelete, ForceAllWrite, WriteFails
<1> QED BY <1>p, <1>s, <1>f, <1>1, OneRequestMoves

(* The steps that start a request, and those that make a run.               *)
LEMMA OthersKeepOrder ==
    ASSUME ListInv, NEW h \in Handlers,
           \/ Send(h) \/ Clear(h) \/ Continue(h) \/ CreateRun(h) \/ CreateFails(h) \/ PrepareFails(h)
           \/ \E id \in Ids : Direct(h, id) \/ Delete(h, id)
    PROVE  ListInv'
<1>p. /\ Fits(frame[h].buf, nextId) /\ Fits(frame[h].hand, nextId) /\ Fits(store, nextId) /\ Fits(<<>>, nextId)
      /\ nextId \in Nat /\ nextId <= MaxIds + 1
  BY Parts
<1>a. active \in 0..MaxActive /\ MaxActive \in Nat BY BoundsAreNat, Parts
<1>s. UNCHANGED <<mw, mwBuf, runs>> /\ nextId' = nextId /\ store' = store
  BY DEF Send, Clear, Continue, CreateRun, CreateFails, PrepareFails, Direct, Delete
<1>b. BrowsersFit'
  <2>1. BrowsersFit BY Parts
  <2>2. CASE UNCHANGED <<browsers, drops>> BY <2>1, <2>2 DEF BrowsersFit, browsers
  <2>3. CASE Continue(h)
    <3>1. checks' = checks /\ drops' = drops /\ continues > 0 /\ continues' = continues - 1 BY <2>3 DEF Continue
    <3>2. checks \in Nat /\ continues \in Nat /\ checks + continues <= MaxLooks /\ MaxLooks \in Nat /\ drops \in BOOLEAN
      BY <2>1, BoundsAreNat DEF BrowsersFit
    <3>3. continues' \in Nat /\ checks' + continues' <= MaxLooks BY <3>1, <3>2
    <3> QED BY <3>1, <3>2, <3>3 DEF BrowsersFit
  <2> QED BY <2>2, <2>3 DEF Send, Clear, CreateRun, CreateFails, PrepareFails, Direct, Delete
<1>t. active' \in 0..MaxActive
  <2>1. active' = active \/ (active < MaxActive /\ active' = active + 1)
    BY DEF Send, Clear, Continue, CreateRun, CreateFails, PrepareFails, Direct, Delete
  <2> QED BY <1>a, <2>1
<1>1. PICK pc, arg, buf, hand :
        /\ MovesTo(h, pc, arg, buf, hand) /\ Fits(buf, nextId) /\ Fits(hand, nextId)
        /\ pc \in {"popWrite", "drainDelete", "create", "requeueRead", "requeueWrite"} => hand # <<>>
  <2>1. CASE Finish(h) BY <1>p, <2>1, FinishMoves
  <2>2. CASE Send(h)
    <3>1. "queueRead" \in PCs BY DEF PCs
    <3> QED BY <1>p, <2>2, <3>1, GotoMoves DEF Send
  <2>3. CASE Clear(h) BY <1>p, <2>3, ClearMoves
  <2>4. CASE Continue(h)
    <3>1. PICK pc \in {"forceAllRead", "drainRead"} : Goto(h, pc) BY <2>4 DEF Continue
    <3>2. pc \in PCs BY DEF PCs
    <3> QED BY <1>p, <3>1, <3>2, GotoMoves
  <2>5. CASE CreateFails(h)
    <3>1. frame[h].hand # <<>> /\ "requeueRead" \in PCs BY <2>5, Parts DEF CreateFails, PCs
    <3> QED BY <1>p, <2>5, <3>1, GotoMoves DEF CreateFails
  <2>6. CASE \E id \in Ids : Direct(h, id) \/ Delete(h, id) BY <1>p, <2>6, DirectMoves
  <2> QED BY <2>1, <2>2, <2>3, <2>4, <2>5, <2>6 DEF CreateRun, PrepareFails
<1> QED BY <1>p, <1>s, <1>b, <1>t, <1>1, OneRequestMoves

(* The runs, the middleware and the browser.                                *)
LEMMA NoRequestKeepsOrder ==
    ASSUME ListInv,
           \/ StartRun \/ EndRun \/ StopRun \/ MwRead \/ MwWrite \/ MwInject \/ MwFails \/ BrowserCheck
           \/ UNCHANGED vars
    PROVE  ListInv'
<1>1. frame' = frame /\ nextId' = nextId
  BY DEF StartRun, EndRun, StopRun, MwRead, MwWrite, MwInject, MwFails, BrowserCheck, Completed, vars
<1>2. nextId \in Nat BY BoundsAreNat DEF ListInv
<1>3. Fits(<<>>, nextId) BY <1>2, FitsEmpty
<1>4. Fits(Waiting(mwBuf), nextId) /\ Fits(Forced(mwBuf), nextId) BY <1>2, FitsAt DEF ListInv, Waiting, Forced
<1>5. Fits(store', nextId') /\ Fits(mwBuf', nextId')
  BY <1>1, <1>3, <1>4 DEF ListInv, StartRun, EndRun, StopRun, MwRead, MwWrite, MwInject, MwFails, BrowserCheck, vars
<1>6. active' \in 0..MaxActive /\ runs' \in 0..MaxRuns
  BY BoundsAreNat DEF ListInv, StartRun, EndRun, StopRun, MwRead, MwWrite, MwInject, MwFails, BrowserCheck,
                      Completed, vars, Busy
<1>7. mw' \in {"idle", "write", "inject"}
  BY DEF ListInv, StartRun, EndRun, StopRun, MwRead, MwWrite, MwInject, MwFails, BrowserCheck, vars
<1>8. BrowsersFit'
  <2>0. BrowsersFit /\ MaxLooks \in Nat BY BoundsAreNat DEF ListInv, BrowsersFit
  <2>1. CASE UNCHANGED <<browsers, drops>> BY <2>0, <2>1 DEF BrowsersFit, browsers
  <2>2. CASE Completed
    <3>1. continues' = continues /\ drops' = drops /\ (checks' = checks \/ checks' = checks + 1) /\ checks' + continues <= MaxLooks
      BY <2>2 DEF Completed
    <3>2. checks' \in Nat /\ checks' + continues' <= MaxLooks BY <2>0, <3>1 DEF BrowsersFit
    <3> QED BY <2>0, <3>1, <3>2 DEF BrowsersFit
  <2>3. CASE BrowserCheck BY <2>0, <2>3 DEF BrowsersFit, BrowserCheck
  <2> QED BY <2>1, <2>2, <2>3 DEF StartRun, EndRun, StopRun, MwRead, MwWrite, MwInject, MwFails, vars, browsers
<1>9. frame' \in [Handlers -> Frames] /\ \A h \in Handlers : FrameFits(frame'[h], nextId') BY <1>1 DEF ListInv
<1> QED BY <1>1, <1>5, <1>6, <1>7, <1>8, <1>9 DEF ListInv, BrowsersFit

LEMMA ListStep == ListInv /\ [Next]_vars => ListInv'
BY ReadsKeepOrder, WritesKeepOrder, OthersKeepOrder, NoRequestKeepsOrder DEF Next, HandlerStep

(* Whatever requests, middleware and failures interleave to, the state is   *)
(* of its type, and a request that makes a run holds messages for it.       *)
THEOREM TypeCorrect == Spec => []TypeOK
<1>1. Spec => []ListInv BY ListInit, ListStep, PTL DEF Spec
<1> QED BY <1>1, ListInvTells, PTL

----------------------------------------------------------------------------
(* From here on requests and middleware do not overlap: every text is in    *)
(* one place at most, in exactly one if calls work, and the queue then      *)
(* implements FollowUps.                                                    *)

(* The texts of the lists the steps make.                                   *)
LEMMA TextsAt ==
    ASSUME NEW list \in Seq(Entry), NEW K \in SUBSET DOMAIN list
    PROVE  /\ Texts(At(list, K)) = {list[i].text : i \in K}
           /\ Distinct(list) => Distinct(At(list, K))
<1> DEFINE part == At(list, K)
<1>1. \A k \in DOMAIN part : part[k] = list[Nth(K, k)] /\ Nth(K, k) \in K BY AtFacts
<1>2. \A i \in K : \E k \in DOMAIN part : part[k] = list[i] BY AtFacts
<1>3. \A k, l \in DOMAIN part : k < l => Nth(K, k) < Nth(K, l) BY AtFacts
<1>4. part \in Seq(Entry) BY AtFacts
<1> HIDE DEF part
<1>5. Texts(part) = {list[i].text : i \in K} BY <1>1, <1>2 DEF Texts
<1>6. \A k, l \in DOMAIN part : Nth(K, k) = Nth(K, l) => k = l
  <2> SUFFICES ASSUME NEW k \in DOMAIN part, NEW l \in DOMAIN part, Nth(K, k) = Nth(K, l), k # l PROVE FALSE
    OBVIOUS
  <2>1. k \in Int /\ l \in Int /\ Nth(K, k) \in Int /\ Nth(K, l) \in Int BY <1>1, <1>4
  <2>2. k < l \/ l < k BY <2>1
  <2> QED BY <1>3, <2>1, <2>2
<1>7. Distinct(list) => Distinct(part) BY <1>1, <1>6 DEF Distinct
<1> QED BY <1>5, <1>7 DEF part

(* Complementary parts have complementary texts.                            *)
LEMMA TextsSplit ==
    ASSUME NEW list \in Seq(Entry), Distinct(list),
           NEW K \in SUBSET DOMAIN list, NEW L \in SUBSET DOMAIN list, K \cap L = {}, K \cup L = DOMAIN list
    PROVE  /\ \A t : t \in Texts(list) <=> (t \in Texts(At(list, K)) \/ t \in Texts(At(list, L)))
           /\ \A t : ~(t \in Texts(At(list, K)) /\ t \in Texts(At(list, L)))
           /\ Distinct(At(list, K)) /\ Distinct(At(list, L))
<1>1. Texts(At(list, K)) = {list[i].text : i \in K} /\ Distinct(At(list, K)) BY TextsAt
<1>2. Texts(At(list, L)) = {list[i].text : i \in L} /\ Distinct(At(list, L)) BY TextsAt
<1>3. ASSUME NEW t
      PROVE  /\ t \in Texts(list) <=> \E i \in DOMAIN list : list[i].text = t
             /\ t \in Texts(At(list, K)) <=> \E i \in K : list[i].text = t
             /\ t \in Texts(At(list, L)) <=> \E i \in L : list[i].text = t
  <2>1. t \in Texts(list) <=> \E i \in DOMAIN list : list[i].text = t BY DEF Texts
  <2>2. t \in {list[i].text : i \in K} <=> \E i \in K : list[i].text = t OBVIOUS
  <2>3. t \in {list[i].text : i \in L} <=> \E i \in L : list[i].text = t OBVIOUS
  <2> QED BY <1>1, <1>2, <2>1, <2>2, <2>3
<1>4. \A t : ~((\E i \in K : list[i].text = t) /\ \E i \in L : list[i].text = t) BY DEF Distinct
<1> QED BY <1>1, <1>2, <1>3, <1>4

LEMMA TextsAppend ==
    ASSUME NEW list \in Seq(Entry), NEW e \in Entry
    PROVE  /\ Texts(Append(list, e)) = Texts(list) \cup {e.text}
           /\ Distinct(list) /\ e.text \notin Texts(list) => Distinct(Append(list, e))
<1>1. /\ DOMAIN Append(list, e) = 1..(Len(list) + 1) /\ Append(list, e)[Len(list) + 1] = e
      /\ \A i \in 1..Len(list) : Append(list, e)[i] = list[i]
      /\ Len(list) \in Nat /\ DOMAIN list = 1..Len(list)
  OBVIOUS
<1> DEFINE a == Append(list, e)
<1>2. DOMAIN a = DOMAIN list \cup {Len(list) + 1} /\ a[Len(list) + 1] = e /\ \A i \in DOMAIN list : a[i] = list[i]
  BY <1>1
<1> HIDE DEF a
<1>3. Texts(a) = Texts(list) \cup {e.text} BY <1>2 DEF Texts
<1>4. Distinct(list) /\ e.text \notin Texts(list) => Distinct(a) BY <1>2 DEF Texts, Distinct
<1> QED BY <1>3, <1>4 DEF a

LEMMA TextsTail ==
    ASSUME NEW list \in Seq(Entry), Distinct(list), list # <<>>
    PROVE  /\ Texts(list) = {Head(list).text} \cup Texts(Tail(list)) /\ Head(list).text \notin Texts(Tail(list))
           /\ Distinct(Tail(list)) /\ Head(list).text \in Ids
           /\ Len(list) = 1 => Texts(Tail(list)) = {}
<1>1. /\ Len(list) \in Nat /\ DOMAIN list = 1..Len(list) /\ Len(list) >= 1 /\ Head(list) = list[1]
      /\ DOMAIN Tail(list) = 1..(Len(list) - 1)
      /\ \A i \in 1..(Len(list) - 1) : Tail(list)[i] = list[i + 1]
  OBVIOUS
<1> DEFINE b == Tail(list)
<1>2. \A i \in DOMAIN b : i + 1 \in DOMAIN list /\ b[i] = list[i + 1] /\ i + 1 # 1 /\ i \in Int BY <1>1
<1>3. \A i \in DOMAIN list : i = 1 \/ (i - 1 \in DOMAIN b /\ b[i - 1] = list[i]) BY <1>1
<1>4. 1 \in DOMAIN list BY <1>1
<1>5. Len(list) = 1 => DOMAIN b = {} BY <1>1
<1> HIDE DEF b
<1>6. Texts(list) = {list[1].text} \cup Texts(b)
  <2>1. ASSUME NEW t \in Texts(list) PROVE t \in {list[1].text} \cup Texts(b)
    <3>1. PICK i \in DOMAIN list : t = list[i].text BY <2>1 DEF Texts
    <3>2. i = 1 \/ (i - 1 \in DOMAIN b /\ b[i - 1] = list[i]) BY <1>3
    <3> QED BY <3>1, <3>2 DEF Texts
  <2>2. ASSUME NEW t \in {list[1].text} \cup Texts(b) PROVE t \in Texts(list)
    <3>1. CASE t = list[1].text BY <1>4, <3>1 DEF Texts
    <3>2. CASE t \in Texts(b)
      <4>1. PICK i \in DOMAIN b : t = b[i].text BY <3>2 DEF Texts
      <4> QED BY <1>2, <4>1 DEF Texts
    <3> QED BY <2>2, <3>1, <3>2
  <2> QED BY <2>1, <2>2
<1>7. list[1].text \notin Texts(b) BY <1>2, <1>4 DEF Texts, Distinct
<1>8. Distinct(b) BY <1>2 DEF Distinct
<1>9. Len(list) = 1 => Texts(b) = {} BY <1>5 DEF Texts
<1>10. list[1].text \in Ids BY <1>4, EntryFacts
<1> QED BY <1>1, <1>6, <1>7, <1>8, <1>9, <1>10 DEF b

(* One message and the rest, the waiting and the directed.                  *)
LEMMA TextsParts ==
    ASSUME NEW list \in Seq(Entry), Distinct(list), NEW id
    PROVE  /\ \A t : t \in Texts(list) <=> (t \in Texts(Without(list, id)) \/ t \in Texts(Only(list, id)))
           /\ \A t : ~(t \in Texts(Without(list, id)) /\ t \in Texts(Only(list, id)))
           /\ Distinct(Without(list, id)) /\ Distinct(Only(list, id))
           /\ \A t : t \in Texts(list) <=> (t \in Texts(Waiting(list)) \/ t \in Texts(Forced(list)))
           /\ \A t : ~(t \in Texts(Waiting(list)) /\ t \in Texts(Forced(list)))
           /\ Distinct(Waiting(list)) /\ Distinct(Forced(list))
<1> DEFINE K == {i \in DOMAIN list : list[i].id # id}
           L == {i \in DOMAIN list : list[i].id = id}
           W == {i \in DOMAIN list : ~list[i].forced}
           F == {i \in DOMAIN list : list[i].forced}
<1>1. K \in SUBSET DOMAIN list /\ L \in SUBSET DOMAIN list /\ K \cap L = {} /\ K \cup L = DOMAIN list OBVIOUS
<1>2. W \in SUBSET DOMAIN list /\ F \in SUBSET DOMAIN list /\ W \cap F = {} /\ W \cup F = DOMAIN list OBVIOUS
<1>3. At(list, K) = Without(list, id) /\ At(list, L) = Only(list, id) BY DEF Without, Only
<1>4. At(list, W) = Waiting(list) /\ At(list, F) = Forced(list) BY DEF Waiting, Forced
<1> HIDE DEF K, L, W, F
<1>5. /\ \A t : t \in Texts(list) <=> (t \in Texts(At(list, K)) \/ t \in Texts(At(list, L)))
      /\ \A t : ~(t \in Texts(At(list, K)) /\ t \in Texts(At(list, L)))
      /\ Distinct(At(list, K)) /\ Distinct(At(list, L))
  BY <1>1, TextsSplit
<1>6. /\ \A t : t \in Texts(list) <=> (t \in Texts(At(list, W)) \/ t \in Texts(At(list, F)))
      /\ \A t : ~(t \in Texts(At(list, W)) /\ t \in Texts(At(list, F)))
      /\ Distinct(At(list, W)) /\ Distinct(At(list, F))
  BY <1>2, TextsSplit
<1> QED BY <1>3, <1>4, <1>5, <1>6

LEMMA TextsAreIds == ASSUME NEW list \in Seq(Entry) PROVE Texts(list) \subseteq Ids
BY EntryFacts DEF Texts

----------------------------------------------------------------------------
(* What the abstract queue sees of the lists.                               *)
LEMMA SameSublists == \A list, K : Line!At(list, K) = At(list, K)
BY DEF Line!At, At, Line!Nth, Nth, Line!Cardinality, Cardinality, Line!IsFiniteSet, IsFiniteSet

LEMMA TextsOfFacts ==
    ASSUME NEW list \in Seq(Entry)
    PROVE  /\ DOMAIN TextsOf(list) = DOMAIN list /\ TextsOf(list) \in Seq(Ids)
           /\ \A i \in DOMAIN list : TextsOf(list)[i] = list[i].text
           /\ Line!ToSet(TextsOf(list)) = Texts(list)
           /\ list # <<>> => TextsOf(list) # <<>>
<1>1. DOMAIN list = 1..Len(list) /\ Len(list) \in Nat OBVIOUS
<1>2. \A i \in DOMAIN list : list[i].text \in Ids BY EntryFacts
<1>3. DOMAIN TextsOf(list) = DOMAIN list /\ \A i \in DOMAIN list : TextsOf(list)[i] = list[i].text BY DEF TextsOf
<1>4. TextsOf(list) \in Seq(Ids) BY <1>1, <1>2 DEF TextsOf
<1>5. Line!ToSet(TextsOf(list)) = Texts(list) BY <1>3 DEF Line!ToSet, Texts
<1>6. list # <<>> => 1 \in DOMAIN list OBVIOUS
<1>7. list # <<>> => TextsOf(list) # <<>>
  <2> DEFINE s == TextsOf(list)
  <2>1. DOMAIN s = DOMAIN list /\ s \in Seq(Ids) BY <1>3, <1>4
  <2> HIDE DEF s
  <2>2. list # <<>> => s # <<>> BY <1>6, <2>1
  <2> QED BY <2>2 DEF s
<1> QED BY <1>3, <1>4, <1>5, <1>7

LEMMA TextsOfSame ==
    ASSUME NEW list \in Seq(Entry), NEW other \in Seq(Entry), TextsOf(list) = TextsOf(other)
    PROVE  Texts(list) = Texts(other) /\ (Distinct(list) => Distinct(other))
<1>1. Texts(list) = Line!ToSet(TextsOf(list)) /\ Texts(other) = Line!ToSet(TextsOf(other)) BY TextsOfFacts
<1>2. /\ DOMAIN TextsOf(list) = DOMAIN list /\ \A i \in DOMAIN list : TextsOf(list)[i] = list[i].text
      /\ DOMAIN TextsOf(other) = DOMAIN other /\ \A i \in DOMAIN other : TextsOf(other)[i] = other[i].text
  BY TextsOfFacts
<1>3. DOMAIN list = DOMAIN other /\ \A i \in DOMAIN list : list[i].text = other[i].text BY <1>2
<1> QED BY <1>1, <1>3 DEF Distinct

LEMMA TextsOfForced ==
    ASSUME NEW list \in Seq(Entry), NEW id
    PROVE  TextsOf(ForceAll(list)) = TextsOf(list) /\ TextsOf(ForceOne(list, id)) = TextsOf(list)
<1>1. \A i \in DOMAIN list : [list[i] EXCEPT !.forced = TRUE].text = list[i].text BY EntryFacts
<1>2. DOMAIN ForceAll(list) = DOMAIN list /\ \A i \in DOMAIN list : ForceAll(list)[i].text = list[i].text
  BY <1>1, Zenon DEF ForceAll
<1>3. DOMAIN ForceOne(list, id) = DOMAIN list /\ \A i \in DOMAIN list : ForceOne(list, id)[i].text = list[i].text
  <2> DEFINE g(i) == IF list[i].id = id THEN [list[i] EXCEPT !.forced = TRUE] ELSE list[i]
  <2>1. \A i \in DOMAIN list : g(i).text = list[i].text BY <1>1
  <2>2. ForceOne(list, id) = [i \in DOMAIN list |-> g(i)] BY DEF ForceOne
  <2> HIDE DEF g
  <2> QED BY <2>1, <2>2
<1> QED BY <1>2, <1>3 DEF TextsOf

LEMMA TextsOfAppend ==
    ASSUME NEW list \in Seq(Entry), NEW e \in Entry
    PROVE  TextsOf(Append(list, e)) = Append(TextsOf(list), e.text)
<1>1. /\ DOMAIN Append(list, e) = 1..(Len(list) + 1) /\ Append(list, e)[Len(list) + 1] = e
      /\ \A i \in 1..Len(list) : Append(list, e)[i] = list[i]
      /\ Len(list) \in Nat /\ DOMAIN list = 1..Len(list)
  OBVIOUS
<1> DEFINE s == TextsOf(list)
<1>2. s \in Seq(Ids) /\ DOMAIN s = DOMAIN list /\ \A i \in DOMAIN list : s[i] = list[i].text BY TextsOfFacts
<1>3. e.text \in Ids BY DEF Entry
<1> HIDE DEF s
<1>4. Len(s) = Len(list) BY <1>1, <1>2
<1>5. /\ Append(s, e.text) = [i \in 1..(Len(s) + 1) |-> IF i \in 1..Len(s) THEN s[i] ELSE e.text]
  BY <1>2, <1>3
<1>6. TextsOf(Append(list, e)) = [i \in 1..(Len(list) + 1) |-> IF i \in 1..Len(list) THEN list[i].text ELSE e.text]
  <2> DEFINE a == Append(list, e)
  <2>1. \A i \in 1..(Len(list) + 1) : a[i].text = IF i \in 1..Len(list) THEN list[i].text ELSE e.text BY <1>1
  <2>2. DOMAIN a = 1..(Len(list) + 1) BY <1>1
  <2> HIDE DEF a
  <2>3. TextsOf(a) = [i \in 1..(Len(list) + 1) |-> IF i \in 1..Len(list) THEN list[i].text ELSE e.text]
    BY <2>1, <2>2 DEF TextsOf
  <2> QED BY <2>3 DEF a
<1> QED BY <1>1, <1>2, <1>4, <1>5, <1>6 DEF s

LEMMA TextsOfTail ==
    ASSUME NEW list \in Seq(Entry), list # <<>>
    PROVE  /\ TextsOf(Tail(list)) = Tail(TextsOf(list)) /\ Head(TextsOf(list)) = Head(list).text
           /\ TextsOf(list) # <<>> /\ (Len(list) = 1 => Tail(TextsOf(list)) = <<>>)
<1>1. /\ Len(list) \in Nat /\ DOMAIN list = 1..Len(list) /\ Len(list) >= 1 /\ Head(list) = list[1]
      /\ DOMAIN Tail(list) = 1..(Len(list) - 1)
      /\ \A i \in 1..(Len(list) - 1) : Tail(list)[i] = list[i + 1]
  OBVIOUS
<1> DEFINE s == TextsOf(list)
<1>2. s \in Seq(Ids) /\ DOMAIN s = DOMAIN list /\ \A i \in DOMAIN list : s[i] = list[i].text BY TextsOfFacts
<1> HIDE DEF s
<1>3. Len(s) = Len(list) /\ s # <<>> BY <1>1, <1>2
<1> DEFINE t == Tail(s)
<1>4. t \in Seq(Ids) /\ Len(t) = Len(s) - 1 /\ \A i \in 1..(Len(s) - 1) : t[i] = s[i + 1] BY <1>2, <1>3
<1>4a. t = [i \in 1..(Len(s) - 1) |-> s[i + 1]]
  <2> HIDE DEF t
  <2>1. DOMAIN t = 1..(Len(s) - 1) /\ t = [i \in DOMAIN t |-> t[i]] BY <1>4
  <2> QED BY <1>4, <2>1
<1>5. \A i \in 1..(Len(list) - 1) : i + 1 \in DOMAIN list BY <1>1
<1>6. Tail(s) = [i \in 1..(Len(list) - 1) |-> list[i + 1].text] BY <1>2, <1>3, <1>4a, <1>5
<1>7. TextsOf(Tail(list)) = [i \in 1..(Len(list) - 1) |-> list[i + 1].text] BY <1>1 DEF TextsOf
<1>8. Head(s) = list[1].text BY <1>1, <1>2, <1>3
<1>9. Len(list) = 1 => Tail(s) = <<>>
  <2> HIDE DEF t
  <2>1. Len(list) = 1 => t = <<>> BY <1>3, <1>4
  <2> QED BY <2>1 DEF t
<1> QED BY <1>1, <1>3, <1>6, <1>7, <1>8, <1>9 DEF s

(* The first n numbers, counted in order.                                   *)
LEMMA NthOfAll == ASSUME NEW n \in Nat, NEW k \in 1..n PROVE Nth(1..n, k) = k
<1> DEFINE Rank(i) == Cardinality({j \in 1..n : j <= i})
<1>1. ASSUME NEW i \in 1..n PROVE Rank(i) = i
  <2>1. {j \in 1..n : j <= i} = 1..i OBVIOUS
  <2>2. i \in Nat OBVIOUS
  <2>3. Cardinality(1..i) = i BY <2>2, FS_Interval
  <2> QED BY <2>1, <2>3
<1>2. Nth(1..n, k) = CHOOSE i \in 1..n : Rank(i) = k BY DEF Nth
<1> HIDE DEF Rank
<1>3. k \in 1..n /\ Rank(k) = k BY <1>1
<1>4. Nth(1..n, k) \in 1..n /\ Rank(Nth(1..n, k)) = k BY <1>2, <1>3
<1> QED BY <1>1, <1>4

LEMMA AtEnds ==
    ASSUME NEW S, NEW list \in Seq(S)
    PROVE  At(list, DOMAIN list) = list /\ At(list, {}) = <<>>
<1>1. Len(list) \in Nat /\ DOMAIN list = 1..Len(list) OBVIOUS
<1>2. Cardinality(1..Len(list)) = Len(list) BY <1>1, FS_Interval
<1>3. At(list, DOMAIN list) = [k \in 1..Len(list) |-> list[Nth(1..Len(list), k)]] BY <1>1, <1>2 DEF At
<1>4. \A k \in 1..Len(list) : Nth(1..Len(list), k) = k BY <1>1, NthOfAll
<1>5. At(list, DOMAIN list) = [k \in 1..Len(list) |-> list[k]] BY <1>3, <1>4
<1>6. list = [k \in 1..Len(list) |-> list[k]] BY <1>1
<1>7. Cardinality({}) = 0 BY FS_EmptySet
<1>8. At(list, {}) = <<>>
  <2>1. At(list, {}) \in Seq(S) /\ Len(At(list, {})) = 0 BY <1>7, AtFacts
  <2> HIDE DEF At
  <2> QED BY <2>1
<1> QED BY <1>5, <1>6, <1>8

LEMMA TextsOfAt ==
    ASSUME NEW list \in Seq(Entry), NEW K \in SUBSET DOMAIN list
    PROVE  TextsOf(At(list, K)) = At(TextsOf(list), K)
<1>1. \A k \in DOMAIN At(list, K) : At(list, K)[k] = list[Nth(K, k)] /\ Nth(K, k) \in K BY AtFacts
<1>2. DOMAIN At(list, K) = 1..Cardinality(K) BY AtFacts
<1>3. \A i \in DOMAIN list : TextsOf(list)[i] = list[i].text BY TextsOfFacts
<1>4. TextsOf(At(list, K)) = [k \in 1..Cardinality(K) |-> list[Nth(K, k)].text] BY <1>1, <1>2 DEF TextsOf
<1>5. At(TextsOf(list), K) = [k \in 1..Cardinality(K) |-> TextsOf(list)[Nth(K, k)]] BY DEF At
<1>6. \A k \in 1..Cardinality(K) : TextsOf(list)[Nth(K, k)] = list[Nth(K, k)].text BY <1>1, <1>2, <1>3
<1> QED BY <1>4, <1>5, <1>6

(* A part of a list whose texts differ is known by its texts.               *)
LEMMA PartByTexts ==
    ASSUME NEW list \in Seq(Entry), Distinct(list), NEW K \in SUBSET DOMAIN list
    PROVE  {i \in DOMAIN TextsOf(list) : TextsOf(list)[i] \in Texts(At(list, K))} = K
<1>1. Texts(At(list, K)) = {list[i].text : i \in K} BY TextsAt
<1>2. DOMAIN TextsOf(list) = DOMAIN list /\ \A i \in DOMAIN list : TextsOf(list)[i] = list[i].text BY TextsOfFacts
<1>3. ASSUME NEW i \in DOMAIN list PROVE list[i].text \in {list[j].text : j \in K} <=> i \in K BY DEF Distinct
<1> QED BY <1>1, <1>2, <1>3

----------------------------------------------------------------------------
(* One request at a time.                                                   *)
Holding == {"create", "requeueRead", "requeueWrite"}
OnlyOne(h) == mw = "idle" /\ \A g \in Handlers : g # h => frame[g].pc = "idle"

(* What the other requests hold is nothing.                                 *)
LEMMA HandIs ==
    ASSUME NEW h \in Handlers, OnlyOne(h)
    PROVE  \A t : InHand(t) <=> (frame[h].pc \in Holding /\ t \in Texts(frame[h].hand))
BY DEF OnlyOne, InHand, Holding

LEMMA HandBecomes ==
    ASSUME NEW h \in Handlers, OnlyOne(h), mw' = mw, NEW pc, NEW arg, NEW buf, NEW hand, MovesTo(h, pc, arg, buf, hand)
    PROVE  /\ \A t : InHand(t)' <=> (pc \in Holding /\ t \in Texts(hand))
           /\ Alone'
<1>1. frame'[h].pc = pc /\ frame'[h].hand = hand BY DEF MovesTo
<1>2. \A g \in Handlers : g # h => frame'[g].pc = "idle" BY DEF OnlyOne, MovesTo
<1>3. ASSUME NEW t PROVE InHand(t)' <=> (pc \in Holding /\ t \in Texts(hand))
  BY <1>1, <1>2 DEF InHand, Holding, Texts
<1> QED BY <1>1, <1>2, <1>3 DEF Alone, OnlyOne

(* While a request works the middleware has nothing.                        *)
LEMMA NothingTaken ==
    ASSUME NEW h \in Handlers, OnlyOne(h), mw' = mw
    PROVE  \A t : ~Taken(t) /\ ~Taken(t)'
BY DEF OnlyOne, Taken

(* The state of the abstract queue.                                         *)
Held == IF InHands = {} THEN <<>> ELSE TextsOf(frame[CHOOSE h \in InHands : TRUE].hand)
Took == IF mw = "inject" THEN TextsOf(mwBuf) ELSE <<>>
Given == {t \in Ids : delivered[t] > 0}
Seen == <<TextsOf(store), Held, Took, Given, discarded>>

LEMMA HeldIs ==
    ASSUME NEW h \in Handlers, OnlyOne(h)
    PROVE  Held = IF frame[h].pc \in Holding THEN TextsOf(frame[h].hand) ELSE <<>>
<1>1. InHands = IF frame[h].pc \in Holding THEN {h} ELSE {} BY DEF InHands, Holding, OnlyOne
<1>2. (CHOOSE g \in {h} : TRUE) = h OBVIOUS
<1> QED BY <1>1, <1>2 DEF Held

LEMMA HeldBecomes ==
    ASSUME NEW h \in Handlers, OnlyOne(h), NEW pc, NEW arg, NEW buf, NEW hand, MovesTo(h, pc, arg, buf, hand)
    PROVE  Held' = IF pc \in Holding THEN TextsOf(hand) ELSE <<>>
<1>1. InHands' = IF pc \in Holding THEN {h} ELSE {} BY DEF InHands, Holding, OnlyOne, MovesTo
<1>2. (CHOOSE g \in {h} : TRUE) = h OBVIOUS
<1>3. frame'[h].hand = hand BY DEF MovesTo
<1>4. CASE pc \in Holding
  <2>1. Held' = TextsOf(frame'[CHOOSE g \in {h} : TRUE].hand) BY <1>1, <1>4 DEF Held, TextsOf
  <2> QED BY <1>2, <1>3, <1>4, <2>1
<1>5. CASE pc \notin Holding BY <1>1, <1>5 DEF Held
<1> QED BY <1>4, <1>5

LEMMA TookIs ==
    ASSUME NEW h \in Handlers, OnlyOne(h), mw' = mw
    PROVE  Took = <<>> /\ Took' = <<>>
BY DEF OnlyOne, Took

(* What the invariant says of the state before a step.                      *)
LEMMA SerialParts ==
    ASSUME SerialInv
    PROVE  /\ ListInv /\ store \in Seq(Entry) /\ mwBuf \in Seq(Entry) /\ Distinct(store) /\ Distinct(mwBuf)
           /\ nextId \in Nat /\ Ids \subseteq Nat /\ Texts(store) \subseteq Ids
           /\ delivered \in [Ids -> 0..2] /\ accepted \subseteq Ids /\ discarded \subseteq Ids
           /\ (~drops => doubted = {}) /\ (\A t \in accepted : t < nextId) /\ \A t \in Ids : Placed(t)
<1>1. ListInv /\ PlaceInv BY DEF SerialInv
<1>2. store \in Seq(Entry) /\ mwBuf \in Seq(Entry) BY <1>1 DEF ListInv, Fits
<1>3. nextId \in Nat /\ Ids \subseteq Nat BY <1>1, BoundsAreNat DEF ListInv, Ids
<1>4. Texts(store) \subseteq Ids BY <1>2, TextsAreIds
<1> QED BY <1>1, <1>2, <1>3, <1>4 DEF PlaceInv

(* Where nothing overlaps, a request that takes a step is the only one.     *)
LEMMA StepsAlone ==
    ASSUME SerialInv, NEW h \in Handlers, frame[h].pc # "idle" \/ AllIdle
    PROVE  OnlyOne(h)
BY DEF SerialInv, Alone, AllIdle, OnlyOne

(* A step of the only request keeps the invariant, if its new frame is up   *)
(* to date and every text is in its place.                                  *)
LEMMA OnlyOneKeeps ==
    ASSUME SerialInv, NEW h \in Handlers, OnlyOne(h), UNCHANGED <<mw, mwBuf, drops>>, ListInv',
           NEW pc, NEW arg, NEW buf, NEW hand, MovesTo(h, pc, arg, buf, hand),
           UpToDate(frame[h])', Distinct(store'), pc \in Holding => Distinct(hand),
           delivered' \in [Ids -> 0..2], accepted' \subseteq Ids, discarded' \subseteq Ids, ~drops => doubted' = {},
           \A t \in accepted' : t < nextId', \A t \in Ids : Placed(t)'
    PROVE  SerialInv'
<1>1. Alone' BY HandBecomes
<1>2. ASSUME NEW g \in Handlers PROVE UpToDate(frame[g])'
  <2>1. CASE g = h BY <2>1
  <2>2. CASE g # h
    <3>1. frame'[g] = frame[g] /\ frame[g].pc = "idle" BY <2>2 DEF OnlyOne, MovesTo
    <3>2. frame[g].buf = <<>> BY <3>1 DEF SerialInv, UpToDate
    <3> QED BY <3>1, <3>2 DEF UpToDate
  <2> QED BY <2>1, <2>2
<1>3. ASSUME NEW g \in Handlers, frame'[g].pc \in Holding PROVE Distinct(frame'[g].hand)
  BY <1>3 DEF OnlyOne, MovesTo, Holding
<1>4. Distinct(mwBuf') BY SerialParts
<1>5. PlaceInv' BY <1>3, <1>4 DEF PlaceInv, Holding
<1>6. mw' = "idle" BY DEF OnlyOne
<1> QED BY <1>1, <1>2, <1>5, <1>6 DEF SerialInv

(* A text is where it was, or, where calls fail, nowhere.                   *)
Kept(t) ==
    /\ InStore(t)' => InStore(t)
    /\ InHand(t)' => InHand(t)
    /\ Taken(t)' => Taken(t)
    /\ ~drops => (InStore(t)' <=> InStore(t)) /\ (InHand(t)' <=> InHand(t)) /\ (Taken(t)' <=> Taken(t))

LEMMA KeptPlaced ==
    ASSUME SerialInv, drops' = drops, UNCHANGED ghosts, nextId' \in {nextId, nextId + 1}
    PROVE  /\ \A t \in Ids : Kept(t) => Placed(t)'
           /\ delivered' \in [Ids -> 0..2] /\ accepted' \subseteq Ids /\ discarded' \subseteq Ids
           /\ (~drops => doubted' = {}) /\ \A t \in accepted' : t < nextId'
<1>1. UNCHANGED <<accepted, delivered, discarded, doubted>> BY DEF ghosts
<1>2. ASSUME NEW t \in Ids, Kept(t) PROVE Placed(t)'
  <2>1. Placed(t) /\ t \in Nat /\ nextId \in Nat BY SerialParts
  <2>2. Located(t)' => Located(t) BY <1>1, <1>2 DEF Located, Kept
  <2>3. ~drops => (Located(t)' <=> Located(t)) BY <1>1, <1>2 DEF Located, Kept
  <2>4. t < nextId => t < nextId' BY <2>1
  <2>5. (Located(t) => t < nextId) /\ (~drops => (t \in accepted <=> Located(t))) BY <2>1 DEF Placed
  <2>6. /\ InStore(t) => ~InHand(t) /\ ~Taken(t)
        /\ InHand(t) => ~Taken(t)
        /\ t \in discarded => ~InStore(t) /\ ~InHand(t) /\ ~Taken(t)
        /\ t \notin doubted => delivered[t] \in {0, 1}
        /\ t \notin doubted /\ delivered[t] > 0 => ~InStore(t) /\ ~InHand(t) /\ ~Taken(t) /\ t \notin discarded
    BY <2>1 DEF Placed
  <2> QED BY <1>1, <1>2, <2>2, <2>3, <2>4, <2>5, <2>6 DEF Placed, Kept
<1>3. \A t \in accepted : t < nextId /\ t \in Nat BY SerialParts
<1>4. nextId \in Nat BY SerialParts
<1> QED BY <1>1, <1>2, <1>3, <1>4, SerialParts

(* Steps that move no text.                                                 *)
LEMMA QuietKeeps ==
    ASSUME SerialInv, NEW h \in Handlers, OnlyOne(h), UNCHANGED <<mw, mwBuf, drops>>, ListInv', UNCHANGED ghosts,
           nextId' \in {nextId, nextId + 1}, TextsOf(store') = TextsOf(store),
           NEW pc, NEW arg, NEW buf, NEW hand, MovesTo(h, pc, arg, buf, hand), UpToDate(frame[h])',
           pc \in Holding <=> frame[h].pc \in Holding, pc \in Holding => hand = frame[h].hand
    PROVE  SerialInv' /\ UNCHANGED Seen
<1>0. Texts(store') = Texts(store) /\ Distinct(store')
  <2>1. store \in Seq(Entry) /\ store' \in Seq(Entry) /\ Distinct(store) BY DEF SerialInv, ListInv, Fits, PlaceInv
  <2> QED BY <2>1, TextsOfSame
<1>1. \A t : InHand(t)' <=> InHand(t) BY HandIs, HandBecomes
<1>2. \A t : InStore(t)' <=> InStore(t) BY <1>0 DEF InStore
<1>3. \A t : Kept(t) BY <1>1, <1>2, NothingTaken DEF Kept
<1>4. pc \in Holding => Distinct(hand) BY DEF SerialInv, PlaceInv, Holding
<1>5. /\ \A t \in Ids : Placed(t)'
      /\ delivered' \in [Ids -> 0..2] /\ accepted' \subseteq Ids /\ discarded' \subseteq Ids
      /\ (~drops => doubted' = {}) /\ \A t \in accepted' : t < nextId'
  BY <1>3, KeptPlaced
<1>6. SerialInv' BY <1>0, <1>4, <1>5, OnlyOneKeeps
<1>7. Held' = Held BY HeldIs, HeldBecomes
<1>8. Took' = Took BY TookIs
<1> QED BY <1>6, <1>7, <1>8 DEF Seen, Given, ghosts

LEMMA StartsKeep ==
    ASSUME SerialInv, Serial, NEW h \in Handlers,
           Send(h) \/ Clear(h) \/ Continue(h) \/ \E id \in Ids : Direct(h, id) \/ Delete(h, id)
    PROVE  SerialInv' /\ UNCHANGED Seen
<1>1. ListInv /\ AllIdle BY DEF SerialInv, Send, Clear, Continue, Direct, Delete, MayStart
<1>2. OnlyOne(h) /\ frame[h].pc = "idle" BY <1>1, StepsAlone DEF AllIdle
<1>2a. frame[h].buf = <<>> BY <1>2 DEF SerialInv, UpToDate
<1>3. ListInv' BY <1>1, OthersKeepOrder
<1>4. UNCHANGED <<store, mw, mwBuf, drops, nextId, ghosts>> BY DEF Send, Clear, Continue, Direct, Delete, browsers
<1>5. TextsOf(store') = TextsOf(store) BY <1>4
<1>6. PICK pc, arg, buf, hand :
        /\ MovesTo(h, pc, arg, buf, hand) /\ buf = <<>>
        /\ \/ pc \in {"queueRead", "forceAllRead", "drainRead", "forceRead", "popRead", "deleteRead"}
           \/ pc = "clearDelete" /\ hand = store /\ store # <<>>
  <2>1. CASE Send(h)
    <3>1. "queueRead" \in PCs BY DEF PCs
    <3> QED BY <1>1, <1>2a, <2>1, <3>1, GotoMoves DEF Send
  <2>2. CASE Clear(h) BY <1>1, <2>2, ClearMoves DEF Clear
  <2>3. CASE Continue(h)
    <3>1. PICK pc \in {"forceAllRead", "drainRead"} : Goto(h, pc) BY <2>3 DEF Continue
    <3>2. pc \in PCs BY DEF PCs
    <3> QED BY <1>1, <1>2a, <3>1, <3>2, GotoMoves
  <2>4. CASE \E id \in Ids : Direct(h, id) \/ Delete(h, id) BY <1>1, <2>4, DirectMoves
  <2> QED BY <2>1, <2>2, <2>3, <2>4
<1>7. UpToDate(frame[h])' BY <1>4, <1>6 DEF UpToDate, MovesTo
<1>8. pc \notin Holding /\ frame[h].pc \notin Holding BY <1>2, <1>6 DEF Holding
<1> QED BY <1>2, <1>3, <1>4, <1>5, <1>6, <1>7, <1>8, QuietKeeps

LEMMA ReadsKeep ==
    ASSUME SerialInv, NEW h \in Handlers,
           QueueRead(h) \/ ForceRead(h) \/ PopRead(h) \/ ForceAllRead(h) \/ DrainRead(h) \/ RequeueRead(h)
    PROVE  SerialInv' /\ UNCHANGED Seen
<1>1. ListInv /\ OnlyOne(h)
  BY StepsAlone DEF SerialInv, QueueRead, ForceRead, PopRead, ForceAllRead, DrainRead, RequeueRead
<1>2. ListInv' BY <1>1, ReadsKeepOrder
<1>3. UNCHANGED <<store, mw, mwBuf, drops, ghosts>>
  BY DEF QueueRead, ForceRead, PopRead, ForceAllRead, DrainRead, RequeueRead
<1>4. TextsOf(store') = TextsOf(store) BY <1>3
<1>5. \A list : ReadQueue(list) /\ list # <<>> => list = store BY DEF ReadQueue
<1>5a. IdsIn(<<>>) = {} BY DEF IdsIn
<1>5b. \A list : ReadQueue(list)' <=> ReadQueue(list) BY <1>3 DEF ReadQueue
<1>6. nextId \in Nat BY SerialParts
<1>7. CASE QueueRead(h)
  <2>1. nextId \in Ids /\ nextId' = nextId + 1 BY <1>1, <1>7, QueueReadMoves
  <2>2. PICK list \in {store, <<>>} :
          ReadQueue(list) /\ MovesTo(h, "queueWrite", nextId, NewList(list, nextId), frame[h].hand)
    BY <1>1, <1>7, QueueReadMoves
  <2>3. PICK n \in Ids : n = nextId BY <2>1
  <2>4. n \notin accepted /\ ~Located(n) /\ n < nextId'
    <3>1. Placed(n) BY SerialParts
    <3>2. Located(n) => n < n BY <2>3, <3>1 DEF Placed
    <3>3. \A t \in accepted : t < n BY <2>3, SerialParts
    <3> QED BY <1>6, <2>1, <2>3, <3>2, <3>3
  <2>5. "queueWrite" \notin Holding /\ frame[h].pc \notin Holding BY <1>7 DEF Holding, QueueRead
  <2>6. ~Located(n)'
    <3>1. InHand(n)' <=> InHand(n) BY <1>1, <1>3, <2>2, <2>5, HandIs, HandBecomes
    <3>2. InStore(n)' <=> InStore(n) BY <1>3 DEF InStore
    <3>3. ~Taken(n)' BY <1>1, <1>3, NothingTaken
    <3> QED BY <1>3, <2>4, <3>1, <3>2, <3>3 DEF Located, ghosts
  <2>7. (list = store' \/ list = <<>>) /\ ReadQueue(list)' BY <1>3, <1>5b, <2>2
  <2>8. frame'[h].pc = "queueWrite" /\ frame'[h].arg = n /\ frame'[h].buf = Append(list, NewEntry(n, n))
    BY <2>2, <2>3 DEF MovesTo, NewList
  <2>9. Grown(frame[h].buf, frame[h].arg, frame[h].arg)' BY <2>7, <2>8 DEF Grown
  <2>10. frame'[h].arg \notin accepted' BY <1>3, <2>4, <2>8 DEF ghosts
  <2>11. UpToDate(frame[h])' BY <2>4, <2>6, <2>8, <2>9, <2>10 DEF UpToDate
  <2> QED BY <1>1, <1>2, <1>3, <1>4, <2>1, <2>2, <2>5, <2>11, QuietKeeps
<1>8. CASE RequeueRead(h)
  <2> DEFINE text == Head(frame[h].hand).text
  <2>1. nextId' = nextId + 1 BY <1>1, <1>8, RequeueReadMoves
  <2>2. PICK list \in {store, <<>>} :
          ReadQueue(list) /\ MovesTo(h, "requeueWrite", frame[h].arg, NewList(list, text), frame[h].hand)
    BY <1>1, <1>8, RequeueReadMoves
  <2>3. nextId' - 1 = nextId BY <1>6, <2>1
  <2>4. (list = store' \/ list = <<>>) /\ ReadQueue(list)' BY <1>3, <1>5b, <2>2
  <2>5. /\ frame'[h].pc = "requeueWrite" /\ Head(frame'[h].hand).text = text
        /\ frame'[h].buf = Append(list, NewEntry(nextId' - 1, text))
    BY <2>2, <2>3 DEF MovesTo, NewList
  <2>6. Grown(frame[h].buf, nextId - 1, Head(frame[h].hand).text)' BY <2>4, <2>5 DEF Grown
  <2>7. UpToDate(frame[h])' BY <2>5, <2>6 DEF UpToDate
  <2>8. "requeueWrite" \in Holding /\ frame[h].pc \in Holding BY <1>8 DEF Holding, RequeueRead
  <2> HIDE DEF text
  <2> QED BY <1>1, <1>2, <1>3, <1>4, <2>1, <2>2, <2>7, <2>8, QuietKeeps
<1>9. CASE ForceRead(h) \/ PopRead(h) \/ ForceAllRead(h) \/ DrainRead(h)
  <2>1. nextId' = nextId BY <1>9 DEF ForceRead, PopRead, ForceAllRead, DrainRead
  <2>2. PICK pc, arg, buf, hand :
          /\ MovesTo(h, pc, arg, buf, hand)
          /\ \/ pc = "forceWrite" /\ buf = ForceOne(store, arg)
             \/ pc = "forceAllWrite" /\ buf = ForceAll(store)
             \/ /\ pc \in {"popWrite", "deleteWrite"} /\ buf = Without(store, arg) /\ hand = Only(store, arg)
                /\ arg \in IdsIn(store)
             \/ pc = "drainDelete" /\ hand = store /\ store # <<>> /\ buf = <<>>
             \/ pc = "idle" /\ buf = <<>>
    <3>1. CASE ForceRead(h) BY <1>1, <1>5, <1>5a, <3>1, ForceReadMoves
    <3>2. CASE PopRead(h) BY <1>1, <1>5, <1>5a, <3>2, PopReadMoves
    <3>3. CASE ForceAllRead(h) BY <1>1, <1>5, <3>3, ForceAllReadMoves
    <3>4. CASE DrainRead(h)
      <4>1. frame[h].buf = <<>> BY <3>4 DEF SerialInv, UpToDate, DrainRead
      <4> QED BY <1>1, <1>5, <3>4, <4>1, DrainReadMoves
    <3> QED BY <1>9, <3>1, <3>2, <3>3, <3>4
  <2>3. UpToDate(frame[h])' BY <1>3, <2>2 DEF UpToDate, MovesTo
  <2>4. pc \notin Holding BY <2>2 DEF Holding
  <2>5. frame[h].pc \notin Holding BY <1>9 DEF Holding, ForceRead, PopRead, ForceAllRead, DrainRead
  <2> QED BY <1>1, <1>2, <1>3, <1>4, <2>1, <2>2, <2>3, <2>4, <2>5, QuietKeeps
<1> QED BY <1>7, <1>8, <1>9

LEMMA ForcesKeep ==
    ASSUME SerialInv, NEW h \in Handlers,
           ForceWrite(h) \/ ForceAllWrite(h) \/ (CreateFails(h) /\ UNCHANGED <<delivered, doubted>>)
    PROVE  SerialInv' /\ UNCHANGED Seen
<1>1. ListInv /\ OnlyOne(h) BY StepsAlone DEF SerialInv, ForceWrite, ForceAllWrite, CreateFails
<1>2. UNCHANGED <<mw, mwBuf, drops, nextId, ghosts>> BY DEF ForceWrite, ForceAllWrite, CreateFails, ghosts
<1>3. store \in Seq(Entry) /\ Distinct(store) BY SerialParts
<1>4. UpToDate(frame[h]) BY DEF SerialInv
<1>5. CASE ForceWrite(h) \/ ForceAllWrite(h)
  <2>1. store' = ForceOne(store, frame[h].arg) \/ store' = ForceAll(store)
    BY <1>4, <1>5 DEF UpToDate, ForceWrite, ForceAllWrite
  <2>2. TextsOf(store') = TextsOf(store) BY <1>3, <2>1, TextsOfForced
  <2>3. MovesTo(h, "idle", NoArg, <<>>, <<>>) BY <1>1, <1>5, FinishMoves DEF ForceWrite, ForceAllWrite
  <2>4. UpToDate(frame[h])' BY <2>3 DEF UpToDate, MovesTo
  <2>5. "idle" \notin Holding /\ frame[h].pc \notin Holding BY <1>5 DEF Holding, ForceWrite, ForceAllWrite
  <2>6. ListInv' BY <1>1, <1>5, WritesKeepOrder
  <2> QED BY <1>1, <1>2, <2>2, <2>3, <2>4, <2>5, <2>6, QuietKeeps
<1>6. CASE CreateFails(h)
  <2>1. store' = store /\ TextsOf(store') = TextsOf(store) /\ "requeueRead" \in PCs BY <1>6 DEF CreateFails, PCs
  <2>2. MovesTo(h, "requeueRead", frame[h].arg, frame[h].buf, frame[h].hand)
    BY <1>1, <1>6, <2>1, GotoMoves DEF CreateFails
  <2>3. UpToDate(frame[h])' BY <2>2 DEF UpToDate, MovesTo
  <2>4. "requeueRead" \in Holding /\ frame[h].pc \in Holding BY <1>6 DEF Holding, CreateFails
  <2>5. ListInv' BY <1>1, <1>6, OthersKeepOrder
  <2> QED BY <1>1, <1>2, <1>3, <2>1, <2>2, <2>3, <2>4, <2>5, QuietKeeps
<1> QED BY <1>5, <1>6

(* What a list that was read and added to has for texts.                    *)
LEMMA GrownFacts ==
    ASSUME SerialInv, NEW buf \in Seq(Entry), NEW id, NEW text, Grown(buf, id, text), text \notin Texts(store)
    PROVE  /\ Distinct(buf) /\ text \in Texts(buf) /\ text \in Ids
           /\ \A t : t \in Texts(buf) => t = text \/ t \in Texts(store)
           /\ ~drops => /\ buf = Append(store, NewEntry(id, text)) /\ NewEntry(id, text) \in Entry
                        /\ Texts(buf) = Texts(store) \cup {text}
<1> DEFINE e == NewEntry(id, text)
<1>1. PICK list \in {store, <<>>} : ReadQueue(list) /\ buf = Append(list, e) BY DEF Grown
<1>2. list \in Seq(Entry) /\ Distinct(list) /\ Texts(list) \subseteq Texts(store)
  <2>1. CASE list = store BY <2>1, SerialParts
  <2>2. CASE list = <<>> BY <2>2 DEF Texts, Distinct
  <2> QED BY <1>1, <2>1, <2>2
<1>3. e.text = text BY DEF NewEntry
<1> HIDE DEF e
<1>4. e \in Entry
  <2>1. Len(list) \in Nat BY <1>2
  <2>2. Len(list) + 1 \in DOMAIN Append(list, e) /\ Append(list, e)[Len(list) + 1] = e BY <1>2, <2>1
  <2> QED BY <1>1, <2>2
<1>5. text \notin Texts(list) BY <1>2
<1>6. Texts(buf) = Texts(list) \cup {text} /\ Distinct(buf) BY <1>1, <1>2, <1>3, <1>4, <1>5, TextsAppend
<1>7. text \in Ids BY <1>3, <1>4 DEF Entry
<1>8. ~drops => list = store BY <1>1 DEF ReadQueue
<1> QED BY <1>1, <1>2, <1>4, <1>6, <1>7, <1>8 DEF e

(* A write that raises, and a request that gives up what it holds.          *)
LEMMA FailuresKeep ==
    ASSUME SerialInv, NEW h \in Handlers, WriteFails(h) \/ PrepareFails(h)
    PROVE  SerialInv'
<1>1. ListInv /\ OnlyOne(h) BY StepsAlone DEF SerialInv, WriteFails, PrepareFails
<1>2. UNCHANGED <<mw, mwBuf, drops, nextId, ghosts>> /\ drops BY DEF WriteFails, PrepareFails
<1>3. MovesTo(h, "idle", NoArg, <<>>, <<>>) BY <1>1, FinishMoves DEF WriteFails, PrepareFails
<1>4. ListInv'
  <2>1. CASE WriteFails(h) BY <1>1, <2>1, WritesKeepOrder
  <2>2. CASE PrepareFails(h) BY <1>1, <2>2, OthersKeepOrder
  <2> QED BY <2>1, <2>2
<1>5. store \in Seq(Entry) /\ Distinct(store) /\ frame[h].buf \in Seq(Entry) BY <1>1, Parts, SerialParts
<1>6. UpToDate(frame[h]) BY DEF SerialInv
<1>7. /\ Distinct(store')
      /\ \A t : t \in Texts(store') => \/ t \in Texts(store)
                                       \/ t \in Ids /\ t < nextId /\ ~Located(t)
  <2>1. CASE store' = store BY <1>5, <2>1
  <2>2. CASE store' = frame[h].buf /\ frame[h].pc = "queueWrite"
    <3> DEFINE arg == frame[h].arg
    <3>1. Grown(frame[h].buf, arg, arg) /\ arg \in Ids /\ arg < nextId /\ ~Located(arg) BY <1>6, <2>2 DEF UpToDate
    <3>2. arg \notin Texts(store) BY <3>1 DEF Located, InStore
    <3> HIDE DEF arg
    <3> QED BY <1>5, <2>2, <3>1, <3>2, GrownFacts
  <2>3. CASE store' = frame[h].buf /\ frame[h].pc \in {"forceWrite", "forceAllWrite"}
    <3>1. store' = ForceOne(store, frame[h].arg) \/ store' = ForceAll(store) BY <1>6, <2>3 DEF UpToDate
    <3>2. TextsOf(store') = TextsOf(store) BY <1>5, <3>1, TextsOfForced
    <3>3. store' \in Seq(Entry) BY <1>5, <2>3
    <3> QED BY <1>5, <3>2, <3>3, TextsOfSame
  <2>4. CASE store' = frame[h].buf /\ frame[h].pc \in {"popWrite", "deleteWrite"}
    <3>1. store' = Without(store, frame[h].arg) BY <1>6, <2>4 DEF UpToDate
    <3> QED BY <1>5, <3>1, TextsParts
  <2>5. CASE store' = frame[h].buf /\ frame[h].pc \in {"drainDelete", "clearDelete"}
    <3>1. store' = <<>> BY <1>6, <2>5 DEF UpToDate
    <3> QED BY <3>1 DEF Texts, Distinct
  <2>6. CASE PrepareFails(h) BY <2>1, <2>6 DEF PrepareFails
  <2> QED BY <2>1, <2>2, <2>3, <2>4, <2>5, <2>6 DEF WriteFails
<1>8. "idle" \notin Holding BY DEF Holding
<1>9. \A t : ~InHand(t)' /\ ~Taken(t)' BY <1>1, <1>2, <1>3, <1>8, HandBecomes, NothingTaken
<1>10. ASSUME NEW t \in Ids PROVE Placed(t)'
  <2>1. CASE t \in Texts(store') => t \in Texts(store)
    <3>1. Kept(t) BY <1>2, <1>9, <2>1 DEF Kept, InStore
    <3> QED BY <1>2, <3>1, KeptPlaced
  <2>2. CASE t < nextId /\ ~Located(t)
    <3>1. ~(delivered[t] > 0) /\ t \notin discarded BY <2>2 DEF Located
    <3>2. delivered[t] \in 0..2 BY SerialParts
    <3> QED BY <1>2, <1>9, <2>2, <3>1, <3>2 DEF Placed, ghosts
  <2> QED BY <1>7, <2>1, <2>2
<1>11. UpToDate(frame[h])' BY <1>3 DEF UpToDate, MovesTo
<1>12. /\ delivered' \in [Ids -> 0..2] /\ accepted' \subseteq Ids /\ discarded' \subseteq Ids
       /\ (~drops => doubted' = {}) /\ \A t \in accepted' : t < nextId'
  BY <1>2, KeptPlaced
<1> QED BY <1>1, <1>2, <1>3, <1>4, <1>7, <1>8, <1>10, <1>11, <1>12, OnlyOneKeeps

LEMMA QueueWriteKeeps ==
    ASSUME SerialInv, NEW h \in Handlers, QueueWrite(h) PROVE SerialInv'
<1>1. ListInv /\ OnlyOne(h) BY StepsAlone DEF SerialInv, QueueWrite
<1> DEFINE arg == frame[h].arg
<1>2. /\ arg \in Ids /\ arg < nextId /\ arg \notin accepted /\ ~Located(arg)
      /\ Grown(store', arg, arg)
  <2>1. store' = frame[h].buf /\ frame[h].pc = "queueWrite" BY DEF QueueWrite
  <2> QED BY <2>1 DEF SerialInv, UpToDate
<1>3. /\ UNCHANGED <<mw, mwBuf, drops, nextId, delivered, discarded, doubted>> /\ accepted' = accepted \cup {arg}
      /\ store' = frame[h].buf
  BY DEF QueueWrite
<1>5. MovesTo(h, "idle", NoArg, <<>>, <<>>) BY <1>1, FinishMoves DEF QueueWrite
<1>6. ListInv' BY <1>1, WritesKeepOrder
<1>7. "idle" \notin Holding /\ frame[h].pc \notin Holding BY DEF Holding, QueueWrite
<1>8. UpToDate(frame[h])' BY <1>5 DEF UpToDate, MovesTo
<1> HIDE DEF arg
<1>9. arg \notin Texts(store) /\ ~(delivered[arg] > 0) /\ arg \notin discarded BY <1>2 DEF Located, InStore
<1>10. store' \in Seq(Entry) BY <1>1, <1>3, Parts
<1>11. /\ Distinct(store') /\ arg \in Texts(store')
       /\ \A t : t \in Texts(store') => t = arg \/ t \in Texts(store)
       /\ ~drops => Texts(store') = Texts(store) \cup {arg}
  <2> DEFINE buf == store'
  <2>1. buf \in Seq(Entry) /\ Grown(buf, arg, arg) BY <1>2, <1>10
  <2> HIDE DEF buf
  <2>2. /\ Distinct(buf) /\ arg \in Texts(buf)
        /\ \A t : t \in Texts(buf) => t = arg \/ t \in Texts(store)
        /\ ~drops => Texts(buf) = Texts(store) \cup {arg}
    BY <1>9, <2>1, GrownFacts
  <2> QED BY <2>2 DEF buf
<1>12. \A t : ~InHand(t) /\ ~InHand(t)' BY <1>1, <1>3, <1>5, <1>7, HandIs, HandBecomes
<1>13. \A t : ~Taken(t) /\ ~Taken(t)' BY <1>1, <1>3, NothingTaken
<1>14. ASSUME NEW t \in Ids PROVE Placed(t)'
  <2>1. Placed(t) /\ delivered[t] \in 0..2 BY SerialParts
  <2>2. InStore(t)' <=> t \in Texts(store') BY DEF InStore
  <2>3. InStore(t) <=> t \in Texts(store) BY DEF InStore
  <2>4. CASE t = arg BY <1>2, <1>3, <1>9, <1>11, <1>12, <1>13, <2>1, <2>2, <2>4 DEF Placed, Located
  <2>5. CASE t # arg
    <3>1. (InStore(t)' => InStore(t)) /\ (~drops => (InStore(t)' <=> InStore(t))) BY <1>11, <2>2, <2>3, <2>5
    <3>2. t \in accepted' <=> t \in accepted BY <1>3, <2>5
    <3> QED BY <1>3, <1>12, <1>13, <2>1, <3>1, <3>2 DEF Placed, Located
  <2> QED BY <2>4, <2>5
<1>15. /\ delivered' \in [Ids -> 0..2] /\ accepted' \subseteq Ids /\ discarded' \subseteq Ids /\ \A t \in accepted' : t < nextId'
       /\ ~drops => doubted' = {}
  BY <1>2, <1>3, SerialParts
<1> QED BY <1>1, <1>3, <1>5, <1>6, <1>7, <1>8, <1>11, <1>14, <1>15, OnlyOneKeeps

(* Some texts leave the store for the hands of the request, or for good.    *)
LEMMA PlaceTaken ==
    ASSUME SerialInv, NEW texts, UNCHANGED <<drops, nextId, delivered, accepted, doubted>>,
           \A t : t \in Texts(store) <=> (t \in Texts(store') \/ t \in texts),
           \A t : ~(t \in Texts(store') /\ t \in texts),
           \A t \in Ids : ~InHand(t) /\ ~Taken(t) /\ ~Taken(t)',
           \/ (\A t \in Ids : InHand(t)' <=> t \in texts) /\ discarded' = discarded
           \/ (\A t \in Ids : ~InHand(t)') /\ discarded' = discarded \cup texts
    PROVE  \A t \in Ids : Placed(t)'
<1> SUFFICES ASSUME NEW t \in Ids PROVE Placed(t)' OBVIOUS
<1>1. Placed(t) BY SerialParts
<1>2. (InStore(t)' <=> t \in Texts(store')) /\ (InStore(t) <=> t \in Texts(store)) BY DEF InStore
<1>3. /\ InStore(t) <=> (InStore(t)' \/ t \in texts)
      /\ ~(InStore(t)' /\ t \in texts)
      /\ ~InHand(t) /\ ~Taken(t) /\ ~Taken(t)'
  BY <1>2
<1>4. CASE (InHand(t)' <=> t \in texts) /\ discarded' = discarded BY <1>1, <1>3, <1>4 DEF Placed, Located
<1>5. CASE ~InHand(t)' /\ discarded' = discarded \cup texts BY <1>1, <1>3, <1>5 DEF Placed, Located
<1> QED BY <1>4, <1>5

LEMMA PopWriteKeeps ==
    ASSUME SerialInv, NEW h \in Handlers, PopWrite(h) PROVE SerialInv'
<1>1. ListInv /\ OnlyOne(h) BY StepsAlone DEF SerialInv, PopWrite
<1> DEFINE arg == frame[h].arg
           hand == frame[h].hand
<1>2. store' = Without(store, arg) /\ hand = Only(store, arg) BY DEF SerialInv, UpToDate, PopWrite
<1>3. UNCHANGED <<mw, mwBuf, drops, nextId, delivered, accepted, doubted>> BY DEF PopWrite
<1>4. store \in Seq(Entry) /\ Distinct(store) BY SerialParts
<1>5. ListInv' BY <1>1, WritesKeepOrder
<1>6. frame[h].pc \notin Holding BY DEF Holding, PopWrite
<1>8. /\ \A t : t \in Texts(store) <=> (t \in Texts(store') \/ t \in Texts(hand))
      /\ \A t : ~(t \in Texts(store') /\ t \in Texts(hand))
      /\ Distinct(store') /\ Distinct(hand)
  BY <1>2, <1>4, TextsParts
<1>9. \A t : ~InHand(t) /\ ~Taken(t) /\ ~Taken(t)' BY <1>1, <1>3, <1>6, HandIs, NothingTaken
<1>10. /\ delivered' \in [Ids -> 0..2] /\ accepted' \subseteq Ids /\ \A t \in accepted' : t < nextId'
       /\ ~drops => doubted' = {}
  BY <1>3, SerialParts
<1>10a. hand \in Seq(Entry) /\ Texts(hand) \subseteq Ids BY <1>1, Parts, TextsAreIds
<1>11. CASE frame[h].pc = "popWrite"
  <2>1. MovesTo(h, "create", NoArg, <<>>, hand) BY <1>1, <1>11, PopWriteMoves
  <2>2. discarded' = discarded BY <1>11 DEF PopWrite
  <2>3. \A t : InHand(t)' <=> t \in Texts(hand) BY <1>1, <1>3, <2>1, HandBecomes DEF Holding
  <2>5. UpToDate(frame[h])' BY <2>1 DEF UpToDate, MovesTo
  <2>6. discarded' \subseteq Ids BY <2>2, SerialParts
  <2> HIDE DEF hand
  <2>4. \A t \in Ids : Placed(t)' BY <1>3, <1>8, <1>9, <2>2, <2>3, PlaceTaken
  <2> QED BY <1>1, <1>3, <1>5, <1>8, <1>10, <2>1, <2>4, <2>5, <2>6, OnlyOneKeeps
<1>12. CASE frame[h].pc = "deleteWrite"
  <2>1. MovesTo(h, "idle", NoArg, <<>>, <<>>) BY <1>1, <1>12, PopWriteMoves
  <2>2. discarded' = discarded \cup Texts(hand) BY <1>12 DEF PopWrite
  <2>3. \A t : ~InHand(t)' /\ "idle" \notin Holding BY <1>1, <1>3, <2>1, HandBecomes DEF Holding
  <2>5. UpToDate(frame[h])' BY <2>1 DEF UpToDate, MovesTo
  <2>6. discarded' \subseteq Ids BY <1>10a, <2>2, SerialParts
  <2> HIDE DEF hand
  <2>4. \A t \in Ids : Placed(t)' BY <1>3, <1>8, <1>9, <2>2, <2>3, PlaceTaken
  <2> QED BY <1>1, <1>3, <1>5, <1>8, <1>10, <2>1, <2>3, <2>4, <2>5, <2>6, OnlyOneKeeps
<1> QED BY <1>11, <1>12 DEF PopWrite

LEMMA DeletesKeep ==
    ASSUME SerialInv, NEW h \in Handlers, ClearDelete(h) \/ DrainDelete(h) PROVE SerialInv'
<1>1. ListInv /\ OnlyOne(h) BY StepsAlone DEF SerialInv, ClearDelete, DrainDelete
<1> DEFINE hand == frame[h].hand
<1>2. store' = <<>> /\ hand = store BY DEF SerialInv, UpToDate, ClearDelete, DrainDelete
<1>3. UNCHANGED <<mw, mwBuf, drops, nextId, delivered, accepted, doubted>> BY DEF ClearDelete, DrainDelete, ghosts
<1>4. store \in Seq(Entry) /\ Distinct(store) /\ Texts(store) \subseteq Ids BY SerialParts
<1>5. ListInv' BY <1>1, WritesKeepOrder
<1>6. frame[h].pc \notin Holding BY DEF Holding, ClearDelete, DrainDelete
<1>8. Texts(store') = {} /\ Distinct(store') BY <1>2 DEF Texts, Distinct
<1>8a. PICK texts : texts = Texts(store) OBVIOUS
<1>8b. /\ \A t : t \in Texts(store) <=> (t \in Texts(store') \/ t \in texts)
       /\ \A t : ~(t \in Texts(store') /\ t \in texts)
  BY <1>8, <1>8a
<1>9. \A t : ~InHand(t) /\ ~Taken(t) /\ ~Taken(t)' BY <1>1, <1>3, <1>6, HandIs, NothingTaken
<1>10. /\ delivered' \in [Ids -> 0..2] /\ accepted' \subseteq Ids /\ \A t \in accepted' : t < nextId'
       /\ ~drops => doubted' = {}
  BY <1>3, SerialParts
<1>11. CASE DrainDelete(h)
  <2>0. "create" \in PCs /\ "create" \in Holding BY DEF PCs, Holding
  <2>1. MovesTo(h, "create", frame[h].arg, frame[h].buf, hand) BY <1>1, <1>11, <2>0, GotoMoves DEF DrainDelete
  <2>2. discarded' = discarded BY <1>11 DEF DrainDelete, ghosts
  <2>3. \A t : InHand(t)' <=> t \in texts BY <1>1, <1>2, <1>3, <1>8a, <2>0, <2>1, HandBecomes
  <2>4. \A t \in Ids : Placed(t)' BY <1>3, <1>8b, <1>9, <2>2, <2>3, PlaceTaken
  <2>5. UpToDate(frame[h])' BY <2>1 DEF UpToDate, MovesTo
  <2>6. discarded' \subseteq Ids /\ Distinct(hand) BY <1>2, <1>4, <2>2, SerialParts
  <2> QED BY <1>1, <1>3, <1>5, <1>8, <1>10, <2>1, <2>4, <2>5, <2>6, OnlyOneKeeps
<1>12. CASE ClearDelete(h)
  <2>1. MovesTo(h, "idle", NoArg, <<>>, <<>>) BY <1>1, <1>12, FinishMoves DEF ClearDelete
  <2>2. discarded' = discarded \cup texts BY <1>2, <1>8a, <1>12 DEF ClearDelete
  <2>3. \A t : ~InHand(t)' /\ "idle" \notin Holding BY <1>1, <1>3, <2>1, HandBecomes DEF Holding
  <2>4. \A t \in Ids : Placed(t)' BY <1>3, <1>8b, <1>9, <2>2, <2>3, PlaceTaken
  <2>5. UpToDate(frame[h])' BY <2>1 DEF UpToDate, MovesTo
  <2>6. discarded' \subseteq Ids BY <1>4, <1>8a, <2>2, SerialParts
  <2> QED BY <1>1, <1>3, <1>5, <1>8, <1>10, <2>1, <2>3, <2>4, <2>5, <2>6, OnlyOneKeeps
<1> QED BY <1>11, <1>12

LEMMA DeliverFacts ==
    ASSUME NEW texts \in SUBSET Ids, delivered \in [Ids -> 0..2], Deliver(texts)
    PROVE  /\ delivered' \in [Ids -> 0..2]
           /\ \A t \in Ids : t \in texts => delivered'[t] > 0 /\ (delivered[t] = 0 => delivered'[t] = 1)
           /\ \A t \in Ids : t \notin texts => delivered'[t] = delivered[t]
<1>1. \A t \in Ids : delivered[t] \in 0..2 OBVIOUS
<1>2. \A t \in Ids : delivered'[t] = IF t \in texts /\ delivered[t] < 2 THEN delivered[t] + 1 ELSE delivered[t]
  BY DEF Deliver
<1>3. \A t \in Ids : delivered'[t] \in 0..2 BY <1>1, <1>2
<1>4. delivered' = [t \in Ids |-> delivered'[t]] BY DEF Deliver
<1>5. delivered' \in [Ids -> 0..2] BY <1>3, <1>4
<1>6. \A t \in Ids : t \in texts => delivered'[t] > 0 /\ (delivered[t] = 0 => delivered'[t] = 1) BY <1>1, <1>2
<1>7. \A t \in Ids : t \notin texts => delivered'[t] = delivered[t] BY <1>2
<1> QED BY <1>5, <1>6, <1>7

(* A run gets the texts of the request, with or without an answer.          *)
LEMMA CreatedKeeps ==
    ASSUME SerialInv, NEW h \in Handlers, CreateRun(h) \/ (CreateFails(h) /\ ~UNCHANGED <<delivered, doubted>>)
    PROVE  SerialInv'
<1>1. ListInv /\ OnlyOne(h) BY StepsAlone DEF SerialInv, CreateRun, CreateFails
<1> DEFINE hand == frame[h].hand
<1>2. UNCHANGED <<store, mw, mwBuf, drops, nextId, accepted, discarded>> /\ Deliver(Texts(hand)) BY DEF CreateRun, CreateFails
<1>3. Texts(hand) \subseteq Ids BY <1>1, Parts, TextsAreIds
<1>4. ListInv' BY <1>1, OthersKeepOrder
<1>5. frame[h].pc \in Holding /\ Distinct(hand) BY DEF Holding, CreateRun, CreateFails, SerialInv, PlaceInv
<1>6. PICK pc, arg, buf, left :
        /\ MovesTo(h, pc, arg, buf, left) /\ (pc \in Holding => Distinct(left))
        /\ \/ pc = "idle" /\ buf = <<>> /\ doubted' = doubted
           \/ pc = "requeueRead" /\ left = hand /\ doubted' = doubted \cup Texts(hand) /\ drops
  <2>1. CASE CreateRun(h)
    <3>1. MovesTo(h, "idle", NoArg, <<>>, <<>>) /\ "idle" \notin Holding
      BY <1>1, <2>1, FinishMoves DEF CreateRun, Holding
    <3>2. doubted' = doubted BY <2>1 DEF CreateRun
    <3> QED BY <3>1, <3>2
  <2>2. CASE CreateFails(h) /\ ~UNCHANGED <<delivered, doubted>>
    <3>1. "requeueRead" \in PCs BY DEF PCs
    <3>2. MovesTo(h, "requeueRead", frame[h].arg, frame[h].buf, hand) BY <1>1, <2>2, <3>1, GotoMoves DEF CreateFails
    <3>3. doubted' = doubted \cup Texts(hand) /\ drops BY <2>2 DEF CreateFails
    <3> HIDE DEF hand
    <3> QED BY <1>5, <3>2, <3>3
  <2> QED BY <2>1, <2>2
<1>7. \A t : InHand(t) <=> t \in Texts(hand) BY <1>1, <1>5, HandIs
<1>8. \A t : InHand(t)' <=> (pc \in Holding /\ t \in Texts(left)) BY <1>1, <1>2, <1>6, HandBecomes
<1>9. "idle" \notin Holding /\ "requeueRead" \in Holding BY DEF Holding
<1> HIDE DEF hand
<1>10. /\ delivered' \in [Ids -> 0..2]
       /\ \A t \in Ids : t \in Texts(hand) => delivered'[t] > 0 /\ (delivered[t] = 0 => delivered'[t] = 1)
       /\ \A t \in Ids : t \notin Texts(hand) => delivered'[t] = delivered[t]
  BY <1>2, <1>3, SerialParts, DeliverFacts
<1>11. \A t : ~Taken(t) /\ ~Taken(t)' BY <1>1, <1>2, NothingTaken
<1>12. ASSUME NEW t \in Ids PROVE Placed(t)'
  <2>1. Placed(t) /\ (InStore(t)' <=> InStore(t)) /\ delivered[t] \in 0..2 BY <1>2, SerialParts DEF InStore
  <2>2. CASE t \notin Texts(hand)
    <3>1. ~InHand(t) /\ ~InHand(t)' /\ delivered'[t] = delivered[t] /\ (t \in doubted' <=> t \in doubted)
      BY <1>6, <1>7, <1>8, <1>9, <1>10, <2>2
    <3> QED BY <1>2, <1>11, <2>1, <3>1 DEF Placed, Located
  <2>3. CASE t \in Texts(hand)
    <3>1. /\ InHand(t) /\ ~InStore(t) /\ t \notin discarded /\ t < nextId
          /\ t \notin doubted => delivered[t] = 0
          /\ ~drops => t \in accepted
      BY <1>7, <2>1, <2>3 DEF Placed, Located
    <3>2. delivered'[t] > 0 /\ (t \notin doubted => delivered'[t] = 1) BY <1>10, <2>3, <3>1
    <3>3. (t \in doubted' /\ drops) \/ (~InHand(t)' /\ doubted' = doubted) BY <1>6, <1>8, <1>9, <2>3
    <3> QED BY <1>2, <1>11, <2>1, <3>1, <3>2, <3>3 DEF Placed, Located
  <2> QED BY <2>2, <2>3
<1>13. UpToDate(frame[h])' BY <1>6 DEF UpToDate, MovesTo
<1>14. /\ Distinct(store') /\ accepted' \subseteq Ids /\ discarded' \subseteq Ids /\ \A t \in accepted' : t < nextId'
       /\ ~drops => doubted' = {}
  BY <1>2, <1>6, SerialParts
<1> QED BY <1>1, <1>2, <1>4, <1>6, <1>10, <1>12, <1>13, <1>14, OnlyOneKeeps

(* A message goes back to the queue, unless the call fails.                 *)
LEMMA RequeueWriteKeeps ==
    ASSUME SerialInv, NEW h \in Handlers, RequeueWrite(h) PROVE SerialInv'
<1>1. ListInv /\ OnlyOne(h) BY StepsAlone DEF SerialInv, RequeueWrite
<1> DEFINE hand == frame[h].hand
           text == Head(hand).text
           buf == frame[h].buf
<1>2. UNCHANGED <<mw, mwBuf, drops, nextId, ghosts>> BY DEF RequeueWrite
<1>3. store' = buf \/ (drops /\ store' = store) BY DEF RequeueWrite
<1>4. Grown(buf, nextId - 1, text) /\ buf \in Seq(Entry) BY <1>1, Parts DEF SerialInv, UpToDate, RequeueWrite
<1>5. hand \in Seq(Entry) /\ hand # <<>> BY <1>1, Parts DEF RequeueWrite
<1>6. Distinct(hand) /\ frame[h].pc \in Holding BY DEF SerialInv, PlaceInv, RequeueWrite, Holding
<1>7. /\ Texts(hand) = {text} \cup Texts(Tail(hand)) /\ text \notin Texts(Tail(hand))
      /\ Distinct(Tail(hand)) /\ text \in Ids /\ (Len(hand) = 1 => Texts(Tail(hand)) = {})
  <2> HIDE DEF hand
  <2> QED BY <1>5, <1>6, TextsTail
<1>8. \A t : InHand(t) <=> t \in Texts(hand) BY <1>1, <1>6, HandIs
<1>9. Placed(text) /\ InHand(text) BY <1>7, <1>8, SerialParts
<1>10. text \notin Texts(store) /\ text \notin discarded BY <1>9 DEF Placed, InStore
<1>11. store \in Seq(Entry) /\ Distinct(store) BY SerialParts
<1>12. PICK pc, arg, new, left : /\ MovesTo(h, pc, arg, new, left) /\ pc \in {"idle", "requeueRead"} /\ new = <<>>
                                 /\ Distinct(left) /\ \A t : (pc \in Holding /\ t \in Texts(left)) <=> t \in Texts(Tail(hand))
  <2>1. CASE Len(hand) = 1 /\ MovesTo(h, "idle", NoArg, <<>>, <<>>)
    <3>1. "idle" \notin Holding /\ Distinct(<<>>) BY DEF Holding, Distinct
    <3>2. \A t : t \notin Texts(Tail(hand)) BY <1>7, <2>1
    <3> QED BY <2>1, <3>1, <3>2
  <2>2. CASE MovesTo(h, "requeueRead", frame[h].arg, <<>>, Tail(hand))
    <3>1. "requeueRead" \in Holding BY DEF Holding
    <3> DEFINE rest == Tail(hand)
    <3>2. Distinct(rest) BY <1>7
    <3>3. MovesTo(h, "requeueRead", frame[h].arg, <<>>, rest) BY <2>2
    <3> HIDE DEF rest
    <3>4. \E pc, arg, new, left :
            /\ MovesTo(h, pc, arg, new, left) /\ pc \in {"idle", "requeueRead"} /\ new = <<>>
            /\ Distinct(left) /\ \A t : (pc \in Holding /\ t \in Texts(left)) <=> t \in Texts(rest)
      BY <3>1, <3>2, <3>3
    <3> QED BY <3>4 DEF rest
  <2> QED BY <1>1, <2>1, <2>2, RequeueWriteMoves
<1>13. \A t : InHand(t)' <=> t \in Texts(Tail(hand)) BY <1>1, <1>2, <1>12, HandBecomes
<1> HIDE DEF text, buf
<1>14. /\ Distinct(buf) /\ \A t : t \in Texts(buf) => t = text \/ t \in Texts(store)
       /\ ~drops => Texts(buf) = Texts(store) \cup {text}
  BY <1>4, <1>10, GrownFacts
<1>15. /\ Distinct(store') /\ \A t : t \in Texts(store') => t = text \/ t \in Texts(store)
       /\ ~drops => Texts(store') = Texts(store) \cup {text}
  BY <1>3, <1>11, <1>14
<1>16. \A t : ~Taken(t) /\ ~Taken(t)' BY <1>1, <1>2, NothingTaken
<1>17. ASSUME NEW t \in Ids PROVE Placed(t)'
  <2>1. CASE t # text
    <3>1. (InStore(t)' => InStore(t)) /\ (~drops => (InStore(t)' <=> InStore(t))) BY <1>15, <2>1 DEF InStore
    <3>2. InHand(t)' <=> InHand(t) BY <1>7, <1>8, <1>13, <2>1
    <3>3. Kept(t) BY <1>16, <3>1, <3>2 DEF Kept
    <3> QED BY <1>2, <3>3, KeptPlaced
  <2>2. CASE t = text
    <3>1. ~InHand(t)' /\ ~Taken(t)' /\ (~drops => InStore(t)') BY <1>7, <1>13, <1>15, <1>16, <2>2 DEF InStore
    <3>2. Placed(t) /\ InHand(t) BY <1>9, <2>2
    <3>3. UNCHANGED <<accepted, delivered, discarded, doubted>> BY <1>2 DEF ghosts
    <3> QED BY <1>2, <3>1, <3>2, <3>3 DEF Placed, Located
  <2> QED BY <2>1, <2>2
<1>18. UpToDate(frame[h])' BY <1>12 DEF UpToDate, MovesTo
<1>19. ListInv' BY <1>1, WritesKeepOrder
<1>20. /\ delivered' \in [Ids -> 0..2] /\ accepted' \subseteq Ids /\ discarded' \subseteq Ids
       /\ (~drops => doubted' = {}) /\ \A t \in accepted' : t < nextId'
  BY <1>2, KeptPlaced
<1> QED BY <1>1, <1>2, <1>12, <1>15, <1>17, <1>18, <1>19, <1>20, OnlyOneKeeps

----------------------------------------------------------------------------
(* The runs, the middleware and the browser.                                *)
LEMMA RunsKeep ==
    ASSUME SerialInv, StartRun \/ EndRun \/ BrowserCheck \/ UNCHANGED vars PROVE SerialInv' /\ UNCHANGED Seen
<1>1. UNCHANGED <<store, mw, mwBuf, frame, nextId, drops, accepted, delivered, discarded, doubted>>
  BY DEF StartRun, EndRun, BrowserCheck, Completed, vars, ghosts
<1>2. ListInv' BY NoRequestKeepsOrder DEF SerialInv
<1>3. Alone' BY <1>1 DEF SerialInv, Alone
<1>4. \A h \in Handlers : UpToDate(frame[h])'
  BY <1>1 DEF SerialInv, UpToDate, Grown, ReadQueue, Located, InStore, InHand, Taken
<1>5. \A t \in Ids : Placed(t)' BY <1>1 DEF SerialInv, PlaceInv, Placed, Located, InStore, InHand, Taken
<1>6. PlaceInv' BY <1>1, <1>5 DEF SerialInv, PlaceInv
<1>7. UNCHANGED Seen BY <1>1 DEF Seen, Held, Took, Given, InHands
<1> QED BY <1>1, <1>2, <1>3, <1>4, <1>6, <1>7 DEF SerialInv

(* While the middleware works no request does.                              *)
LEMMA NoHands ==
    ASSUME SerialInv, mw # "idle" \/ AllIdle, frame' = frame
    PROVE  /\ \A h \in Handlers : frame[h].pc = "idle"
           /\ \A t : ~InHand(t) /\ ~InHand(t)'
           /\ Held = <<>> /\ Held' = <<>>
<1>1. \A h \in Handlers : frame[h].pc = "idle" BY DEF SerialInv, Alone, AllIdle
<1>2. \A t : ~InHand(t) /\ ~InHand(t)' BY <1>1 DEF InHand
<1>3. InHands = {} /\ InHands' = {} BY <1>1 DEF InHands
<1> QED BY <1>1, <1>2, <1>3 DEF Held

(* A step of the middleware keeps the invariant, if every text is in its    *)
(* place.                                                                   *)
LEMMA MwKeeps ==
    ASSUME SerialInv, ListInv', \A h \in Handlers : frame[h].pc = "idle",
           UNCHANGED <<frame, nextId, drops, accepted, doubted>>, Distinct(store'), Distinct(mwBuf'),
           mw' = "write" => mwBuf' = store' /\ Forced(store') # <<>>, mw' = "inject" => mwBuf' # <<>>,
           delivered' \in [Ids -> 0..2], discarded' \subseteq Ids, \A t \in Ids : Placed(t)'
    PROVE  SerialInv'
<1>1. Alone' BY DEF Alone
<1>2. \A h \in Handlers : frame'[h].pc = "idle" /\ frame'[h].buf = <<>> BY DEF SerialInv, UpToDate
<1>3. \A h \in Handlers : UpToDate(frame[h])' BY <1>2 DEF UpToDate
<1>4. PlaceInv' BY SerialParts, <1>2 DEF PlaceInv
<1> QED BY <1>1, <1>3, <1>4 DEF SerialInv

LEMMA MwReadKeeps ==
    ASSUME SerialInv, Serial, MwRead PROVE SerialInv' /\ UNCHANGED Seen
<1>1. /\ UNCHANGED <<store, frame, nextId, drops, ghosts>> /\ mwBuf' = store /\ Forced(store) # <<>>
      /\ mw = "idle" /\ mw' = "write"
  BY DEF MwRead
<1>2. ListInv' BY NoRequestKeepsOrder DEF SerialInv
<1>3. AllIdle BY DEF MwRead, MayStart
<1>4. (\A h \in Handlers : frame[h].pc = "idle") /\ \A t : ~InHand(t) /\ ~InHand(t)' BY <1>1, <1>3, NoHands
<1>5. \A t : Kept(t) BY <1>1, <1>4 DEF Kept, InStore, Taken
<1>6. /\ \A t \in Ids : Placed(t)'
      /\ delivered' \in [Ids -> 0..2] /\ discarded' \subseteq Ids
  BY <1>1, <1>5, KeptPlaced
<1>7. SerialInv'
  <2>1. Distinct(store) BY SerialParts
  <2> QED BY <1>1, <1>2, <1>4, <1>6, <2>1, MwKeeps DEF ghosts
<1>8. UNCHANGED Seen BY <1>1 DEF Seen, Held, Took, Given, InHands, ghosts
<1> QED BY <1>7, <1>8

LEMMA MwWriteKeeps ==
    ASSUME SerialInv, MwWrite PROVE SerialInv'
<1>1. UNCHANGED <<frame, nextId, drops, ghosts>> /\ mw = "write" /\ mw' = "inject" BY DEF MwWrite
<1>2. ListInv' BY NoRequestKeepsOrder DEF SerialInv
<1>3. (\A h \in Handlers : frame[h].pc = "idle") /\ \A t : ~InHand(t) /\ ~InHand(t)' BY <1>1, NoHands
<1>4. store' = Waiting(store) /\ mwBuf' = Forced(store) /\ Forced(store) # <<>> BY DEF MwWrite, SerialInv
<1>5. store \in Seq(Entry) /\ Distinct(store) BY SerialParts
<1>6. /\ \A t : t \in Texts(store) <=> (t \in Texts(store') \/ t \in Texts(mwBuf'))
      /\ \A t : ~(t \in Texts(store') /\ t \in Texts(mwBuf'))
      /\ Distinct(store') /\ Distinct(mwBuf')
  BY <1>4, <1>5, TextsParts
<1>7. ASSUME NEW t \in Ids PROVE Placed(t)'
  <2>1. Placed(t) /\ ~InHand(t) /\ ~InHand(t)' /\ ~Taken(t) BY <1>1, <1>3, SerialParts DEF Taken
  <2>2. InStore(t) <=> (InStore(t)' \/ Taken(t)') BY <1>1, <1>6 DEF InStore, Taken
  <2>3. ~(InStore(t)' /\ Taken(t)') BY <1>6 DEF InStore, Taken
  <2> QED BY <1>1, <2>1, <2>2, <2>3 DEF Placed, Located, ghosts
<1>8. delivered' \in [Ids -> 0..2] /\ discarded' \subseteq Ids BY <1>1, SerialParts DEF ghosts
<1> QED BY <1>1, <1>2, <1>3, <1>4, <1>6, <1>7, <1>8, MwKeeps DEF ghosts

LEMMA MwInjectKeeps ==
    ASSUME SerialInv, MwInject PROVE SerialInv'
<1> DEFINE got == Texts(mwBuf)
<1>1. /\ UNCHANGED <<store, frame, nextId, drops, accepted, discarded, doubted>>
      /\ mw = "inject" /\ mw' = "idle" /\ mwBuf' = <<>> /\ Deliver(got)
  BY DEF MwInject
<1>2. ListInv' BY NoRequestKeepsOrder DEF SerialInv
<1>3. (\A h \in Handlers : frame[h].pc = "idle") /\ \A t : ~InHand(t) /\ ~InHand(t)' BY <1>1, NoHands
<1>4. got \subseteq Ids BY SerialParts, TextsAreIds
<1>5. \A t : (Taken(t) <=> t \in got) /\ ~Taken(t)' BY <1>1 DEF Taken
<1> HIDE DEF got
<1>6. /\ delivered' \in [Ids -> 0..2]
      /\ \A t \in Ids : t \in got => delivered'[t] > 0 /\ (delivered[t] = 0 => delivered'[t] = 1)
      /\ \A t \in Ids : t \notin got => delivered'[t] = delivered[t]
  BY <1>1, <1>4, SerialParts, DeliverFacts
<1>7. ASSUME NEW t \in Ids PROVE Placed(t)'
  <2>1. Placed(t) /\ (InStore(t)' <=> InStore(t)) /\ delivered[t] \in 0..2 BY <1>1, SerialParts DEF InStore
  <2>2. CASE t \notin got BY <1>1, <1>3, <1>5, <1>6, <2>1, <2>2 DEF Placed, Located
  <2>3. CASE t \in got
    <3>1. /\ Taken(t) /\ ~InStore(t) /\ t \notin discarded /\ t < nextId
          /\ t \notin doubted => delivered[t] = 0
          /\ ~drops => t \in accepted
      BY <1>5, <2>1, <2>3 DEF Placed, Located
    <3>2. delivered'[t] > 0 /\ (t \notin doubted => delivered'[t] = 1) BY <1>6, <2>3, <3>1
    <3> QED BY <1>1, <1>3, <1>5, <2>1, <3>1, <3>2 DEF Placed, Located
  <2> QED BY <2>2, <2>3
<1>8. Distinct(store') /\ Distinct(mwBuf') /\ discarded' \subseteq Ids
  <2>1. Distinct(<<>>) BY DEF Distinct
  <2> QED BY <1>1, <2>1, SerialParts
<1> QED BY <1>1, <1>2, <1>3, <1>6, <1>7, <1>8, MwKeeps

LEMMA MwFailsKeeps ==
    ASSUME SerialInv, MwFails PROVE SerialInv'
<1>1. /\ UNCHANGED <<frame, nextId, drops, ghosts>> /\ mw = "write" /\ mw' = "idle" /\ mwBuf' = <<>> /\ drops
      /\ store' = store \/ store' = Waiting(store)
  BY DEF MwFails, SerialInv
<1>2. ListInv' BY NoRequestKeepsOrder DEF SerialInv
<1>3. (\A h \in Handlers : frame[h].pc = "idle") /\ \A t : ~InHand(t) /\ ~InHand(t)' BY <1>1, NoHands
<1>4. store \in Seq(Entry) /\ Distinct(store) BY SerialParts
<1>5. Distinct(store') /\ \A t : t \in Texts(store') => t \in Texts(store) BY <1>1, <1>4, TextsParts
<1>6. \A t : Kept(t) BY <1>1, <1>3, <1>5 DEF Kept, InStore, Taken
<1>7. /\ \A t \in Ids : Placed(t)'
      /\ delivered' \in [Ids -> 0..2] /\ discarded' \subseteq Ids
  BY <1>1, <1>6, KeptPlaced
<1>8. Distinct(mwBuf') BY <1>1 DEF Distinct
<1> QED BY <1>1, <1>2, <1>3, <1>5, <1>7, <1>8, MwKeeps DEF ghosts

(* A stopped run has put nothing down yet, or takes what it took with it.   *)
LEMMA StopRunKeeps ==
    ASSUME SerialInv, StopRun PROVE SerialInv'
<1>1. UNCHANGED <<frame, nextId, drops, accepted, delivered, doubted>> /\ mw # "idle" /\ mw' = "idle" /\ mwBuf' = <<>>
  BY DEF StopRun, Completed
<1>2. ListInv' BY NoRequestKeepsOrder DEF SerialInv
<1>3. (\A h \in Handlers : frame[h].pc = "idle") /\ \A t : ~InHand(t) /\ ~InHand(t)' BY <1>1, NoHands
<1>4. store \in Seq(Entry) /\ Distinct(store) /\ Texts(mwBuf) \subseteq Ids /\ Texts(store) \subseteq Ids
  BY SerialParts, TextsAreIds
<1>5. Distinct(mwBuf') /\ \A t : ~Taken(t)' BY <1>1 DEF Distinct, Taken
<1>6. delivered' \in [Ids -> 0..2] BY <1>1, SerialParts
<1>7. CASE mw = "write" /\ UNCHANGED <<store, discarded>>
  <2>1. \A t : Kept(t) BY <1>1, <1>3, <1>5, <1>7 DEF Kept, InStore, Taken
  <2>2. (\A t \in Ids : Placed(t)') /\ discarded' \subseteq Ids BY <1>1, <1>7, <2>1, KeptPlaced DEF ghosts
  <2> QED BY <1>1, <1>2, <1>3, <1>4, <1>5, <1>6, <1>7, <2>2, MwKeeps
<1>8. CASE mw = "write" /\ store' = Waiting(mwBuf) /\ discarded' = discarded \cup Texts(Forced(mwBuf))
  <2>1. mwBuf = store BY <1>8 DEF SerialInv
  <2>2. PICK texts : texts = Texts(Forced(store)) OBVIOUS
  <2>3. /\ \A t : t \in Texts(store) <=> (t \in Texts(store') \/ t \in texts)
        /\ \A t : ~(t \in Texts(store') /\ t \in texts)
        /\ Distinct(store')
    BY <1>4, <1>8, <2>1, <2>2, TextsParts
  <2>4. \A t : ~Taken(t) BY <1>8 DEF Taken
  <2>5. discarded' = discarded \cup texts BY <1>8, <2>1, <2>2
  <2>6. \A t \in Ids : Placed(t)' BY <1>1, <1>3, <1>5, <2>3, <2>4, <2>5, PlaceTaken
  <2>7. discarded' \subseteq Ids BY <1>4, <2>3, <2>5, SerialParts
  <2> QED BY <1>1, <1>2, <1>3, <1>5, <1>6, <2>3, <2>6, <2>7, MwKeeps
<1>9. CASE mw = "inject" /\ UNCHANGED store /\ discarded' = discarded \cup Texts(mwBuf)
  <2>1. \A t : Taken(t) <=> t \in Texts(mwBuf) BY <1>9 DEF Taken
  <2>2. ASSUME NEW t \in Ids PROVE Placed(t)'
    <3>1. Placed(t) /\ (InStore(t)' <=> InStore(t)) BY <1>9, SerialParts DEF InStore
    <3>2. t \in discarded' <=> (t \in discarded \/ Taken(t)) BY <1>9, <2>1
    <3>3. ~InHand(t) /\ ~InHand(t)' /\ ~Taken(t)' BY <1>3, <1>5
    <3> QED BY <1>1, <3>1, <3>2, <3>3 DEF Placed, Located
  <2>3. discarded' \subseteq Ids BY <1>4, <1>9, SerialParts
  <2> QED BY <1>1, <1>2, <1>3, <1>4, <1>5, <1>6, <1>9, <2>2, <2>3, MwKeeps
<1> QED BY <1>7, <1>8, <1>9 DEF StopRun

LEMMA SerialInit == Init => SerialInv
<1> SUFFICES ASSUME Init PROVE SerialInv OBVIOUS
<1>1. ListInv BY ListInit
<1>2. \A h \in Handlers : frame[h].pc = "idle" /\ frame[h].buf = <<>> BY DEF Init, Idle
<1>3. /\ store = <<>> /\ mw = "idle" /\ mwBuf = <<>> /\ accepted = {} /\ discarded = {} /\ doubted = {}
      /\ delivered = [t \in Ids |-> 0]
  BY DEF Init
<1>4. Texts(store) = {} /\ Distinct(store) /\ Distinct(mwBuf) BY <1>3 DEF Texts, Distinct
<1>5. \A t \in Ids : Placed(t) BY <1>2, <1>3, <1>4 DEF Placed, Located, InStore, InHand, Taken
<1>6. PlaceInv BY <1>2, <1>3, <1>4, <1>5 DEF PlaceInv
<1>7. Alone /\ \A h \in Handlers : UpToDate(frame[h]) BY <1>2 DEF Alone, UpToDate
<1> QED BY <1>1, <1>3, <1>6, <1>7 DEF SerialInv

LEMMA SerialStep ==
    ASSUME Serial, SerialInv, [Next]_vars PROVE SerialInv'
<1>1. CASE StartRun \/ EndRun \/ BrowserCheck \/ UNCHANGED vars BY <1>1, RunsKeep
<1>2. CASE StopRun \/ MwRead \/ MwWrite \/ MwInject \/ MwFails
  BY <1>2, StopRunKeeps, MwReadKeeps, MwWriteKeeps, MwInjectKeeps, MwFailsKeeps
<1>3. ASSUME NEW h \in Handlers,
             Send(h) \/ Clear(h) \/ Continue(h) \/ \E id \in Ids : Direct(h, id) \/ Delete(h, id)
      PROVE  SerialInv'
  BY <1>3, StartsKeep
<1>4. ASSUME NEW h \in Handlers, HandlerStep(h) PROVE SerialInv'
  <2>1. CASE CreateFails(h) BY <2>1, ForcesKeep, CreatedKeeps
  <2>2. CASE ~CreateFails(h)
    BY <1>4, <2>2, ReadsKeep, ForcesKeep, QueueWriteKeeps, PopWriteKeeps, DeletesKeep, CreatedKeeps, RequeueWriteKeeps
       DEF HandlerStep
  <2> QED BY <2>1, <2>2
<1>5. ASSUME NEW h \in Handlers, WriteFails(h) \/ PrepareFails(h) PROVE SerialInv' BY <1>5, FailuresKeep
<1> QED BY <1>1, <1>2, <1>3, <1>4, <1>5 DEF Next

(* A text in its place is in one place at most, and one that was accepted   *)
(* is in one.                                                               *)
LEMMA SerialTells ==
    ASSUME SerialInv, NEW t \in Ids, t \notin doubted
    PROVE  Places(t) <= 1 /\ (~drops /\ t \in accepted => Places(t) = 1)
<1>1. Placed(t) BY SerialParts
<1>2. delivered[t] = 0 \/ delivered[t] = 1 BY <1>1 DEF Placed
<1>3. ~drops /\ t \in accepted => Located(t) BY <1>1 DEF Placed
<1>4. CASE InStore(t)
  <2>1. ~InHand(t) /\ ~Taken(t) /\ delivered[t] = 0 /\ t \notin discarded BY <1>1, <1>2, <1>4 DEF Placed
  <2> QED BY <1>4, <2>1 DEF Places, One
<1>5. CASE ~InStore(t) /\ InHand(t)
  <2>1. ~Taken(t) /\ delivered[t] = 0 /\ t \notin discarded BY <1>1, <1>2, <1>5 DEF Placed
  <2> QED BY <1>5, <2>1 DEF Places, One
<1>6. CASE ~InStore(t) /\ ~InHand(t) /\ Taken(t)
  <2>1. delivered[t] = 0 /\ t \notin discarded BY <1>1, <1>2, <1>6 DEF Placed
  <2> QED BY <1>6, <2>1 DEF Places, One
<1>7. CASE ~InStore(t) /\ ~InHand(t) /\ ~Taken(t) /\ t \in discarded
  <2>1. delivered[t] = 0 BY <1>1, <1>2, <1>7 DEF Placed
  <2> QED BY <1>7, <2>1 DEF Places, One
<1>8. CASE ~InStore(t) /\ ~InHand(t) /\ ~Taken(t) /\ t \notin discarded
  <2>1. ~drops /\ t \in accepted => delivered[t] = 1 BY <1>2, <1>3, <1>8 DEF Located
  <2> QED BY <1>2, <1>8, <2>1 DEF Places, One
<1> QED BY <1>4, <1>5, <1>6, <1>7, <1>8

(* The invariant, where requests and middleware do not overlap.             *)
SInv == Serial => SerialInv

LEMMA AlwaysSerial == Spec => []SInv
<1>1. Init => SInv BY SerialInit DEF SInv
<1>2. SInv /\ [Next]_vars => SInv' BY SerialStep DEF SInv
<1> QED BY <1>1, <1>2, PTL DEF Spec

(* Where requests and middleware do not overlap and the calls work, every   *)
(* follow-up whose sender was told it is queued waits, is held by a request *)
(* that makes a run for it or by the middleware, was given to an agent      *)
(* once, or was removed.                                                    *)
THEOREM FollowUpsUsedOnce == Spec => []ExactlyOnce
<1>1. SInv => ExactlyOnce
  <2> SUFFICES ASSUME SInv, orderly, NEW t \in accepted PROVE Places(t) = 1 BY DEF ExactlyOnce
  <2>1. SerialInv /\ ~drops BY DEF SInv, orderly
  <2>2. t \in Ids /\ t \notin doubted BY <2>1, SerialParts
  <2> QED BY <2>1, <2>2, SerialTells
<1> QED BY <1>1, AlwaysSerial, PTL

(* Where they do not overlap, and whatever calls fail or lose their         *)
(* answers, no text is in two places or with an agent twice, unless the     *)
(* answer of runs.create was lost for it.                                   *)
THEOREM FollowUpsUsedAtMostOnce == Spec => []AtMostOnce
<1>1. SInv => AtMostOnce
  <2> SUFFICES ASSUME SInv, Serial, NEW t \in Ids \ doubted PROVE Places(t) <= 1 BY DEF AtMostOnce
  <2>1. SerialInv BY DEF SInv
  <2> QED BY <2>1, SerialTells
<1> QED BY <1>1, AlwaysSerial, PTL

----------------------------------------------------------------------------
(* The steps that change what the abstract queue sees, one lemma each.      *)
LEMMA LeaveIs ==
    ASSUME store \in Seq(Entry), Distinct(store), NEW K \in SUBSET DOMAIN store,
           store' = At(store, DOMAIN store \ K)
    PROVE  /\ Line!Leave(Texts(At(store, K))) /\ Texts(At(store, K)) \subseteq Line!ToSet(TextsOf(store))
           /\ Texts(At(store, K)) \subseteq Ids /\ (K # {} => Texts(At(store, K)) # {})
           /\ Line!At(TextsOf(store), Line!Those(Texts(At(store, K)))) = TextsOf(At(store, K))
<1> DEFINE texts == Texts(At(store, K))
<1>1. Line!Those(texts) = K BY PartByTexts DEF Line!Those
<1>2. DOMAIN TextsOf(store) = DOMAIN store /\ Line!ToSet(TextsOf(store)) = Texts(store) BY TextsOfFacts
<1>3. texts = {store[i].text : i \in K} BY TextsAt
<1>4. texts \subseteq Texts(store) /\ (K # {} => texts # {}) BY <1>3 DEF Texts
<1>5. texts \subseteq Ids BY <1>4, TextsAreIds
<1>6. TextsOf(store)' = At(TextsOf(store), DOMAIN store \ K) BY TextsOfAt DEF TextsOf
<1> HIDE DEF texts
<1>7. Line!Leave(texts) BY <1>1, <1>2, <1>6, SameSublists DEF Line!Leave
<1>8. Line!At(TextsOf(store), Line!Those(texts)) = TextsOf(At(store, K)) BY <1>1, TextsOfAt, SameSublists
<1> QED BY <1>2, <1>4, <1>5, <1>7, <1>8 DEF texts

LEMMA QueueWriteAccepts ==
    ASSUME SerialInv, ~drops, NEW h \in Handlers, QueueWrite(h) PROVE \E t \in Ids : Line!Accept(t)
<1>1. ListInv /\ OnlyOne(h) BY StepsAlone DEF SerialInv, QueueWrite
<1> DEFINE arg == frame[h].arg
<1>2. /\ arg \in Ids /\ ~Located(arg) /\ Grown(store', arg, arg) /\ store' \in Seq(Entry) /\ mw' = mw
  <2>1. store' = frame[h].buf /\ frame[h].pc = "queueWrite" /\ mw' = mw BY DEF QueueWrite
  <2> QED BY <1>1, <2>1, Parts DEF SerialInv, UpToDate
<1>3. MovesTo(h, "idle", NoArg, <<>>, <<>>) BY <1>1, FinishMoves DEF QueueWrite
<1>4. "idle" \notin Holding /\ frame[h].pc \notin Holding BY DEF Holding, QueueWrite
<1>5. Held = <<>> /\ Held' = <<>> BY <1>1, <1>3, <1>4, HeldIs, HeldBecomes
<1>5a. Took = <<>> /\ Took' = <<>> BY <1>1, <1>2, TookIs
<1>6. store \in Seq(Entry) BY SerialParts
<1>7. delivered[arg] \in 0..2 BY <1>2, SerialParts
<1>8. arg \notin Texts(store) /\ ~(delivered[arg] > 0) /\ arg \notin discarded BY <1>2 DEF Located, InStore
<1>10. Line!ToSet(TextsOf(store)) = Texts(store) /\ Line!ToSet(Held) = {} /\ Line!ToSet(Took) = {}
  BY <1>5, <1>5a, <1>6, TextsOfFacts DEF Line!ToSet
<1>11. delivered' = delivered /\ discarded' = discarded BY DEF QueueWrite
<1> HIDE DEF arg
<1>12. TextsOf(store)' = Append(TextsOf(store), arg)
  <2> DEFINE buf == store'
  <2>1. buf \in Seq(Entry) /\ Grown(buf, arg, arg) BY <1>2
  <2> HIDE DEF buf
  <2>2. buf = Append(store, NewEntry(arg, arg)) /\ NewEntry(arg, arg) \in Entry BY <1>8, <2>1, GrownFacts
  <2>3. NewEntry(arg, arg).text = arg BY DEF NewEntry
  <2>4. TextsOf(Append(store, NewEntry(arg, arg))) = Append(TextsOf(store), arg) BY <1>6, <2>2, <2>3, TextsOfAppend
  <2> QED BY <2>2, <2>4 DEF buf
<1>12a. arg \notin Given /\ Given' = Given BY <1>8, <1>11 DEF Given
<1>12b. /\ Held' = Held /\ Took' = Took
        /\ arg \notin Line!ToSet(TextsOf(store)) \cup Line!ToSet(Held) \cup Line!ToSet(Took) \cup Given \cup discarded
  BY <1>5, <1>5a, <1>8, <1>10, <1>12a
<1>13. Line!Accept(arg) BY <1>11, <1>12, <1>12a, <1>12b DEF Line!Accept, Held, Took, Given
<1> QED BY <1>2, <1>13

(* The directed texts leave the line, for the middleware or with a run that *)
(* is stopped.                                                              *)
LEMMA ForcedLeave ==
    ASSUME SerialInv, Forced(store) # <<>>, store' = Waiting(store)
    PROVE  \E texts \in SUBSET Ids :
             /\ texts = Texts(Forced(store)) /\ texts # {} /\ texts \subseteq Line!ToSet(TextsOf(store))
             /\ Line!Leave(texts) /\ Line!At(TextsOf(store), Line!Those(texts)) = TextsOf(Forced(store))
<1>1. store \in Seq(Entry) /\ Distinct(store) BY SerialParts
<1> DEFINE K == {i \in DOMAIN store : store[i].forced}
           texts == Texts(At(store, K))
<1>2. {i \in DOMAIN store : ~store[i].forced} = DOMAIN store \ K OBVIOUS
<1>3. store' = At(store, DOMAIN store \ K) BY <1>2 DEF Waiting
<1>4. Forced(store) = At(store, K) BY DEF Forced
<1>5. K \in SUBSET DOMAIN store OBVIOUS
<1> HIDE DEF K
<1>6. K # {} BY <1>1, <1>4, AtEnds
<1>7. /\ Line!Leave(texts) /\ texts \subseteq Line!ToSet(TextsOf(store)) /\ texts \subseteq Ids /\ texts # {}
      /\ Line!At(TextsOf(store), Line!Those(texts)) = TextsOf(At(store, K))
  BY <1>1, <1>3, <1>5, <1>6, LeaveIs
<1>8. texts = Texts(Forced(store)) BY <1>4
<1> HIDE DEF texts
<1>9. texts \in SUBSET Ids BY <1>7
<1> QED BY <1>4, <1>7, <1>8, <1>9

LEMMA MwWriteTakes ==
    ASSUME SerialInv, MwWrite PROVE \E texts \in SUBSET Ids : Line!Take(texts)
<1>1. /\ frame' = frame /\ mw = "write" /\ mw' = "inject" /\ UNCHANGED ghosts
      /\ store' = Waiting(store) /\ mwBuf' = Forced(store) /\ Forced(store) # <<>>
  BY DEF MwWrite, SerialInv
<1>2. PICK texts \in SUBSET Ids :
        /\ texts # {} /\ texts \subseteq Line!ToSet(TextsOf(store))
        /\ Line!Leave(texts) /\ Line!At(TextsOf(store), Line!Those(texts)) = TextsOf(Forced(store))
  BY <1>1, ForcedLeave
<1>3. Held' = Held BY <1>1, NoHands
<1>4. Took = <<>> /\ Took' = TextsOf(Forced(store)) BY <1>1 DEF Took
<1>5. Given' = Given /\ discarded' = discarded BY <1>1 DEF Given, ghosts
<1>6. Line!Take(texts) BY <1>2, <1>3, <1>4, <1>5 DEF Line!Take, Held, Took, Given
<1> QED BY <1>6

(* What the middleware holds reaches the agent, or is removed with the run. *)
LEMMA MwInjectGets ==
    ASSUME SerialInv, MwInject PROVE Line!Get
<1> DEFINE got == Texts(mwBuf)
<1>1. /\ frame' = frame /\ mw = "inject" /\ mw' = "idle" /\ UNCHANGED <<store, discarded>>
      /\ Deliver(got) /\ mwBuf # <<>>
  BY DEF MwInject, SerialInv
<1>2. got \subseteq Ids /\ Line!ToSet(TextsOf(mwBuf)) = got /\ TextsOf(mwBuf) # <<>>
  BY <1>1, SerialParts, TextsAreIds, TextsOfFacts
<1>3. Held' = Held BY <1>1, NoHands
<1>4. Took = TextsOf(mwBuf) /\ Took' = <<>> BY <1>1 DEF Took
<1> HIDE DEF got
<1>5. Given' = Given \cup got
  <2>1. /\ \A t \in Ids : t \in got => delivered'[t] > 0
        /\ \A t \in Ids : t \notin got => delivered'[t] = delivered[t]
    BY <1>1, <1>2, SerialParts, DeliverFacts
  <2> QED BY <1>2, <2>1 DEF Given
<1>6. TextsOf(store)' = TextsOf(store) BY <1>1
<1> QED BY <1>1, <1>2, <1>3, <1>4, <1>5, <1>6 DEF Line!Get, Held, Took, Given

LEMMA StopRunRemoves ==
    ASSUME SerialInv, StopRun
    PROVE  UNCHANGED Seen \/ Line!Stop \/ \E texts \in SUBSET Ids : Line!Discard(texts)
<1>1. frame' = frame /\ mw # "idle" /\ mw' = "idle" /\ delivered' = delivered BY DEF StopRun, Completed
<1>2. Held' = Held BY <1>1, NoHands
<1>3. Given' = Given /\ Took' = <<>> BY <1>1 DEF Given, Took
<1>4. CASE mw = "write" /\ UNCHANGED <<store, discarded>>
  <2>1. Took = <<>> BY <1>4 DEF Took
  <2> QED BY <1>2, <1>3, <1>4, <2>1 DEF Seen
<1>5. CASE mw = "write" /\ store' = Waiting(mwBuf) /\ discarded' = discarded \cup Texts(Forced(mwBuf))
  <2>1. mwBuf = store /\ Forced(store) # <<>> BY <1>5 DEF SerialInv
  <2>2. PICK texts \in SUBSET Ids :
          /\ texts = Texts(Forced(store)) /\ texts # {} /\ texts \subseteq Line!ToSet(TextsOf(store)) /\ Line!Leave(texts)
    BY <1>5, <2>1, ForcedLeave
  <2>3. Took = <<>> BY <1>5 DEF Took
  <2>4. discarded' = discarded \cup texts BY <1>5, <2>1, <2>2
  <2>5. Line!Discard(texts) BY <1>2, <1>3, <2>2, <2>3, <2>4 DEF Line!Discard, Held, Took, Given
  <2> QED BY <2>5
<1>6. CASE mw = "inject" /\ UNCHANGED store /\ discarded' = discarded \cup Texts(mwBuf)
  <2>1. Took = TextsOf(mwBuf) /\ mwBuf # <<>> BY <1>6 DEF Took, SerialInv
  <2>2. Line!ToSet(TextsOf(mwBuf)) = Texts(mwBuf) /\ TextsOf(mwBuf) # <<>> BY <2>1, SerialParts, TextsOfFacts
  <2>3. TextsOf(store)' = TextsOf(store) BY <1>6
  <2>4. Took # <<>> /\ discarded' = discarded \cup Line!ToSet(Took) BY <1>6, <2>1, <2>2
  <2>5. Line!Stop BY <1>2, <1>3, <2>3, <2>4 DEF Line!Stop, Held, Took, Given
  <2> QED BY <2>5
<1> QED BY <1>4, <1>5, <1>6 DEF StopRun

LEMMA PopWriteTakes ==
    ASSUME SerialInv, NEW h \in Handlers, PopWrite(h)
    PROVE  \E texts \in SUBSET Ids : Line!Hold(texts) \/ Line!Discard(texts)
<1>1. ListInv /\ OnlyOne(h) BY StepsAlone DEF SerialInv, PopWrite
<1>2. store \in Seq(Entry) /\ Distinct(store) BY SerialParts
<1> DEFINE arg == frame[h].arg
           hand == frame[h].hand
           K == {i \in DOMAIN store : store[i].id = arg}
           texts == Texts(hand)
<1>3. store' = Without(store, arg) /\ hand = Only(store, arg) /\ arg \in IdsIn(store)
  BY DEF SerialInv, UpToDate, PopWrite
<1>4. {i \in DOMAIN store : store[i].id # arg} = DOMAIN store \ K OBVIOUS
<1>5. store' = At(store, DOMAIN store \ K) /\ hand = At(store, K) BY <1>3, <1>4 DEF Without, Only
<1>6. K \in SUBSET DOMAIN store /\ K # {} BY <1>3 DEF IdsIn
<1>7. \E t \in Texts(store) : texts = {t}
  <2>1. PICK i \in DOMAIN store : store[i].id = arg BY <1>3 DEF IdsIn
  <2>2. \A j \in DOMAIN store : store[j].id = arg => j = i
    <3> SUFFICES ASSUME NEW j \in DOMAIN store, store[j].id = arg, j # i PROVE FALSE OBVIOUS
    <3>1. i \in Int /\ j \in Int BY <1>2
    <3>2. i < j \/ j < i BY <3>1
    <3>3. store[i].id < store[j].id \/ store[j].id < store[i].id BY <1>1, <3>2 DEF ListInv, Fits
    <3>4. store[i].id \in Nat BY <1>2, EntryFacts
    <3> QED BY <2>1, <3>3, <3>4
  <2>3. K = {i} BY <2>1, <2>2
  <2> HIDE DEF K
  <2>4. texts = {store[j].text : j \in K} BY <1>2, <1>5, <1>6, TextsAt
  <2>5. texts = {store[i].text} /\ store[i].text \in Texts(store) BY <2>3, <2>4 DEF Texts
  <2> QED BY <2>5
<1> HIDE DEF K
<1>8. /\ Line!Leave(texts) /\ texts \subseteq Line!ToSet(TextsOf(store)) /\ texts \subseteq Ids /\ texts # {}
      /\ Line!At(TextsOf(store), Line!Those(texts)) = TextsOf(hand)
  BY <1>2, <1>5, <1>6, LeaveIs
<1>9. Line!ToSet(TextsOf(store)) = Texts(store) BY <1>2, TextsOfFacts
<1>10. Held = <<>> /\ Took' = Took
  <2>1. frame[h].pc \notin Holding /\ mw' = mw BY DEF Holding, PopWrite
  <2> QED BY <1>1, <2>1, HeldIs, TookIs
<1>11. Given' = Given BY DEF PopWrite, Given
<1>12. CASE frame[h].pc = "popWrite"
  <2>1. MovesTo(h, "create", NoArg, <<>>, hand) /\ "create" \in Holding BY <1>1, <1>12, PopWriteMoves DEF Holding
  <2>2. Held' = TextsOf(hand) BY <1>1, <2>1, HeldBecomes
  <2>3. discarded' = discarded BY <1>12 DEF PopWrite
  <2> HIDE DEF texts, hand
  <2>4. Line!Hold(texts) BY <1>7, <1>8, <1>9, <1>10, <1>11, <2>2, <2>3 DEF Line!Hold, Held, Took, Given
  <2> QED BY <1>8, <2>4
<1>13. CASE frame[h].pc = "deleteWrite"
  <2>1. MovesTo(h, "idle", NoArg, <<>>, <<>>) /\ "idle" \notin Holding BY <1>1, <1>13, PopWriteMoves DEF Holding
  <2>2. Held' = Held BY <1>1, <1>10, <2>1, HeldBecomes
  <2>3. discarded' = discarded \cup texts BY <1>13 DEF PopWrite
  <2> HIDE DEF texts, hand
  <2>4. Line!Discard(texts) BY <1>8, <1>10, <1>11, <2>2, <2>3 DEF Line!Discard, Held, Took, Given
  <2> QED BY <1>8, <2>4
<1> QED BY <1>12, <1>13 DEF PopWrite

LEMMA DeletesTake ==
    ASSUME SerialInv, NEW h \in Handlers, ClearDelete(h) \/ DrainDelete(h)
    PROVE  \E texts \in SUBSET Ids : Line!Hold(texts) \/ Line!Discard(texts)
<1>1. ListInv /\ OnlyOne(h) BY StepsAlone DEF SerialInv, ClearDelete, DrainDelete
<1>2. store \in Seq(Entry) /\ Distinct(store) BY SerialParts
<1> DEFINE hand == frame[h].hand
           texts == Texts(store)
<1>3. store' = <<>> /\ hand = store /\ store # <<>> BY DEF SerialInv, UpToDate, ClearDelete, DrainDelete
<1>4. At(store, DOMAIN store) = store /\ At(store, {}) = <<>> BY <1>2, AtEnds
<1>5. DOMAIN store \ DOMAIN store = {} /\ DOMAIN store \in SUBSET DOMAIN store OBVIOUS
<1>6. store' = At(store, DOMAIN store \ DOMAIN store) BY <1>3, <1>4, <1>5
<1>7. DOMAIN store # {}
  <2>1. 1 \in DOMAIN store BY <1>2, <1>3
  <2> QED BY <2>1
<1>8. /\ Line!Leave(texts) /\ texts \subseteq Line!ToSet(TextsOf(store)) /\ texts \subseteq Ids /\ texts # {}
      /\ Line!At(TextsOf(store), Line!Those(texts)) = TextsOf(store)
  BY <1>2, <1>4, <1>5, <1>6, <1>7, LeaveIs
<1>9. Line!ToSet(TextsOf(store)) = Texts(store) BY <1>2, TextsOfFacts
<1>10. Held = <<>> /\ Took' = Took
  <2>1. frame[h].pc \notin Holding /\ mw' = mw BY DEF Holding, ClearDelete, DrainDelete
  <2> QED BY <1>1, <2>1, HeldIs, TookIs
<1>11. Given' = Given BY DEF ClearDelete, DrainDelete, Given, ghosts
<1>12. CASE DrainDelete(h)
  <2>0. "create" \in PCs /\ "create" \in Holding BY DEF PCs, Holding
  <2>1. MovesTo(h, "create", frame[h].arg, frame[h].buf, store) BY <1>1, <1>3, <1>12, <2>0, GotoMoves DEF DrainDelete
  <2>2. Held' = TextsOf(store) BY <1>1, <2>0, <2>1, HeldBecomes
  <2>3. discarded' = discarded BY <1>12 DEF DrainDelete, ghosts
  <2>4. Line!Hold(texts) BY <1>8, <1>9, <1>10, <1>11, <2>2, <2>3 DEF Line!Hold, Held, Took, Given
  <2> QED BY <1>8, <2>4
<1>13. CASE ClearDelete(h)
  <2>1. MovesTo(h, "idle", NoArg, <<>>, <<>>) /\ "idle" \notin Holding BY <1>1, <1>13, FinishMoves DEF ClearDelete, Holding
  <2>2. Held' = Held BY <1>1, <1>10, <2>1, HeldBecomes
  <2>3. discarded' = discarded \cup texts BY <1>3, <1>13 DEF ClearDelete
  <2>4. Line!Discard(texts) BY <1>8, <1>10, <1>11, <2>2, <2>3 DEF Line!Discard, Held, Took, Given
  <2> QED BY <1>8, <2>4
<1> QED BY <1>12, <1>13

LEMMA CreateRunGives ==
    ASSUME SerialInv, NEW h \in Handlers, CreateRun(h) PROVE Line!Give
<1>1. ListInv /\ OnlyOne(h) BY StepsAlone DEF SerialInv, CreateRun
<1> DEFINE hand == frame[h].hand
<1>2. UNCHANGED <<store, mw, discarded>> /\ Deliver(Texts(hand)) BY DEF CreateRun
<1>3. hand \in Seq(Entry) /\ hand # <<>> BY <1>1, Parts DEF CreateRun
<1>4. MovesTo(h, "idle", NoArg, <<>>, <<>>) BY <1>1, FinishMoves DEF CreateRun
<1>5. "idle" \notin Holding /\ frame[h].pc \in Holding BY DEF Holding, CreateRun
<1>6. Held = TextsOf(hand) /\ Held' = <<>> /\ Took' = Took BY <1>1, <1>2, <1>4, <1>5, HeldIs, HeldBecomes, TookIs
<1> HIDE DEF hand
<1>8. Texts(hand) \subseteq Ids /\ Line!ToSet(TextsOf(hand)) = Texts(hand) /\ TextsOf(hand) # <<>>
  BY <1>3, TextsAreIds, TextsOfFacts
<1>10. Given' = Given \cup Texts(hand)
  <2>1. /\ \A t \in Ids : t \in Texts(hand) => delivered'[t] > 0
        /\ \A t \in Ids : t \notin Texts(hand) => delivered'[t] = delivered[t]
    BY <1>2, <1>8, SerialParts, DeliverFacts
  <2> QED BY <1>8, <2>1 DEF Given
<1>11. TextsOf(store)' = TextsOf(store) BY <1>2
<1> QED BY <1>2, <1>6, <1>8, <1>10, <1>11 DEF Line!Give, Held, Took, Given

LEMMA RequeueWritePutsBack ==
    ASSUME SerialInv, ~drops, NEW h \in Handlers, RequeueWrite(h) PROVE Line!PutBack
<1>1. ListInv /\ OnlyOne(h) BY StepsAlone DEF SerialInv, RequeueWrite
<1> DEFINE hand == frame[h].hand
           text == Head(hand).text
           buf == frame[h].buf
<1>2. UNCHANGED ghosts /\ mw' = mw /\ store' = buf BY DEF RequeueWrite
<1>3. Grown(buf, nextId - 1, text) /\ buf \in Seq(Entry) BY <1>1, Parts DEF SerialInv, UpToDate, RequeueWrite
<1>4. store \in Seq(Entry) BY SerialParts
<1>5. hand \in Seq(Entry) /\ hand # <<>> BY <1>1, Parts DEF RequeueWrite
<1>6. frame[h].pc \in Holding BY DEF Holding, RequeueWrite
<1>7. Held = TextsOf(hand) /\ Took' = Took BY <1>1, <1>2, <1>6, HeldIs, TookIs
<1>8. text \notin Texts(store)
  <2>1. text \in Ids /\ text \in Texts(hand)
    <3>1. 1 \in DOMAIN hand /\ Head(hand) = hand[1] BY <1>5
    <3> HIDE DEF hand
    <3> QED BY <1>5, <3>1, EntryFacts DEF Texts
  <2>2. InHand(text) BY <1>1, <1>6, <2>1, HandIs
  <2>3. Placed(text) BY <2>1, SerialParts
  <2> QED BY <2>2, <2>3 DEF Placed, InStore
<1>9. Held' = TextsOf(Tail(hand)) \/ (Len(hand) = 1 /\ Held' = <<>>)
  <2>1. "idle" \notin Holding /\ "requeueRead" \in Holding BY DEF Holding
  <2> QED BY <1>1, <2>1, HeldBecomes, RequeueWriteMoves
<1> HIDE DEF text, buf
<1>10. buf = Append(store, NewEntry(nextId - 1, text)) /\ NewEntry(nextId - 1, text) \in Entry
  BY <1>3, <1>8, GrownFacts
<1>11. NewEntry(nextId - 1, text).text = text BY DEF NewEntry
<1> HIDE DEF hand
<1>12. /\ TextsOf(Tail(hand)) = Tail(TextsOf(hand)) /\ Head(TextsOf(hand)) = Head(hand).text
       /\ TextsOf(hand) # <<>> /\ (Len(hand) = 1 => Tail(TextsOf(hand)) = <<>>)
  BY <1>5, TextsOfTail
<1>13. Held' = Tail(Held) /\ Held # <<>> /\ Head(Held) = text BY <1>7, <1>9, <1>12 DEF text
<1>14. TextsOf(store)' = Append(TextsOf(store), text)
  <2>1. TextsOf(Append(store, NewEntry(nextId - 1, text))) = Append(TextsOf(store), text)
    BY <1>4, <1>10, <1>11, TextsOfAppend
  <2> QED BY <1>2, <1>10, <2>1
<1>15. Given' = Given /\ discarded' = discarded BY <1>2 DEF Given, ghosts
<1> QED BY <1>7, <1>13, <1>14, <1>15 DEF Line!PutBack, Held, Took, Given

(* Every step is one of the abstract queue, or changes nothing it sees.     *)
LEMMA StepImplements ==
    ASSUME orderly, SerialInv, [Next]_vars PROVE [Line!Next]_(Line!vars)
<1>0. UNCHANGED Seen => UNCHANGED Line!vars BY DEF Seen, Held, Took, Given, Line!vars
<1>a. Serial /\ ~drops BY DEF orderly
<1>1. ~MwFails /\ \A h \in Handlers : ~WriteFails(h) /\ ~PrepareFails(h)
  BY <1>a DEF MwFails, WriteFails, PrepareFails
<1>2. CASE StartRun \/ EndRun \/ BrowserCheck \/ UNCHANGED vars BY <1>0, <1>2, RunsKeep
<1>3. CASE MwRead BY <1>0, <1>a, <1>3, MwReadKeeps
<1>4. CASE MwWrite BY <1>4, MwWriteTakes DEF Line!Next
<1>4a. CASE MwInject BY <1>4a, MwInjectGets DEF Line!Next
<1>4b. CASE StopRun BY <1>0, <1>4b, StopRunRemoves DEF Line!Next
<1>5. ASSUME NEW h \in Handlers,
             Send(h) \/ Clear(h) \/ Continue(h) \/ \E id \in Ids : Direct(h, id) \/ Delete(h, id)
      PROVE  [Line!Next]_(Line!vars)
  BY <1>0, <1>a, <1>5, StartsKeep
<1>6. ASSUME NEW h \in Handlers, HandlerStep(h) PROVE [Line!Next]_(Line!vars)
  <2>1. CASE QueueRead(h) \/ ForceRead(h) \/ PopRead(h) \/ ForceAllRead(h) \/ DrainRead(h) \/ RequeueRead(h)
    BY <1>0, <2>1, ReadsKeep
  <2>2. CASE ForceWrite(h) \/ ForceAllWrite(h) \/ CreateFails(h)
    <3>1. CreateFails(h) => UNCHANGED <<delivered, doubted>> BY <1>a DEF CreateFails
    <3> QED BY <1>0, <2>2, <3>1, ForcesKeep
  <2>3. CASE QueueWrite(h) BY <1>a, <2>3, QueueWriteAccepts DEF Line!Next
  <2>4. CASE PopWrite(h) BY <2>4, PopWriteTakes DEF Line!Next
  <2>5. CASE ClearDelete(h) \/ DrainDelete(h) BY <2>5, DeletesTake DEF Line!Next
  <2>6. CASE CreateRun(h) BY <2>6, CreateRunGives DEF Line!Next
  <2>7. CASE RequeueWrite(h) BY <1>a, <2>7, RequeueWritePutsBack DEF Line!Next
  <2> QED BY <1>6, <2>1, <2>2, <2>3, <2>4, <2>5, <2>6, <2>7 DEF HandlerStep
<1> QED BY <1>1, <1>2, <1>3, <1>4, <1>4a, <1>4b, <1>5, <1>6 DEF Next

LEMMA InitImplements == Init => Line!Init
<1> SUFFICES ASSUME Init PROVE Line!Init OBVIOUS
<1>1. InHands = {} BY DEF Init, InHands, Idle
<1>2. TextsOf(store) = <<>> BY DEF Init, TextsOf
<1>3. {t \in Ids : delivered[t] > 0} = {} BY DEF Init
<1> QED BY <1>1, <1>2, <1>3 DEF Init, Line!Init

(* Where requests and middleware do not overlap and the calls work, the     *)
(* reads, writes, requeues and failed run creations of any number of        *)
(* requests, the middleware and the user's Stop come to what FollowUps      *)
(* allows.                                                                  *)
THEOREM QueueImplementsFollowUps == Spec => ImplementsFollowUps
<1>1. Init => (orderly => Line!Init) BY InitImplements
<1>2. SInv /\ [Next]_vars => [orderly => Line!Next]_(Line!vars)
  <2> SUFFICES ASSUME SInv, [Next]_vars, orderly PROVE [Line!Next]_(Line!vars) OBVIOUS
  <2>1. SerialInv BY DEF SInv, orderly
  <2> QED BY <2>1, StepImplements
<1> QED BY <1>1, <1>2, AlwaysSerial, PTL DEF Spec, ImplementsFollowUps
=============================================================================
