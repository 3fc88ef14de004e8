--------------------------- MODULE ThreadsProofs ----------------------------
(***************************************************************************)
(* Proofs about the parts of the dashboard that show threads: the cached   *)
(* threads, the groups of the sidebar, the chosen workspace and the page   *)
(* of a thread.  They are laid out like those of PagesProofs.              *)
(***************************************************************************)
EXTENDS Threads, FiniteSetTheorems, TLAPS

(* The part that a behaviour exercises stays the same, and each step is one *)
(* of that part.                                                            *)
LEMMA OnePart ==
    ASSUME [Next]_vars
    PROVE  /\ focus' = focus
           /\ focus = "cache" => [Cache!Next]_cacheVars
           /\ focus = "groups" => [Groups!Next]_groupsVars
           /\ focus = "space" => [Space!Next]_spaceVars
           /\ focus = "view" => [View!Next]_viewVars
BY DEF Next, vars

----------------------------------------------------------------------------
(* The cached threads                                                       *)

(* The invariant of the cached threads holds at first.                      *)
LEMMA CacheInit == Cache!Init => Cache!Inv
<1> SUFFICES ASSUME Cache!Init PROVE Cache!Inv
  OBVIOUS
<1>1. Cache!TypeOK
  BY BoundAssumption, ThreadAssumption DEF Cache!Init, Cache!TypeOK, Cache!Statuses, Cache!Copies,
      Cache!Requested, Cache!None, Cache!Home, Cache!Snapshot, Cache!Missing, Cache!NoFetch,
      Cache!NoSubmit, Cache!NoRefresh
<1>2. Cache!Requested
  BY BoundAssumption, ThreadAssumption DEF Cache!Init, Cache!Requested, Cache!TypeOK, Cache!Statuses,
      Cache!None, Cache!Home, Cache!Snapshot, Cache!Missing, Cache!NoFetch, Cache!NoSubmit, Cache!NoRefresh
<1>3. Cache!EndsShown
  BY BoundAssumption, ThreadAssumption DEF Cache!Init, Cache!EndsShown, Cache!TypeOK, Cache!Requested,
      Cache!NoSubmit, Cache!NoRefresh, Cache!None, Cache!Home, Cache!Statuses, Cache!Snapshot, Cache!Missing,
      Cache!NoFetch
<1>4. Cache!Unknown
  BY BoundAssumption, ThreadAssumption DEF Cache!Init, Cache!Unknown, Cache!TypeOK, Cache!Requested,
      Cache!Statuses, Cache!Home, Cache!Snapshot, Cache!Missing, Cache!NoFetch, Cache!NoSubmit, Cache!NoRefresh
<1>5. Cache!NoBounce
  BY BoundAssumption, ThreadAssumption DEF Cache!Init, Cache!NoBounce, Cache!TypeOK, Cache!Requested,
      Cache!EndsShown, Cache!Unknown, Cache!Statuses, Cache!None, Cache!Home, Cache!Snapshot,
      Cache!Missing, Cache!NoFetch, Cache!NoSubmit, Cache!NoRefresh
<1> QED
  BY <1>1, <1>2, <1>3, <1>4, <1>5 DEF Cache!Inv

(* Every action of the cached threads keeps its invariant.                  *)
LEMMA CacheStep ==
    ASSUME Cache!Inv, [Cache!Next]_cacheVars
    PROVE  Cache!Inv'
<1> USE BoundAssumption, ThreadAssumption DEF Cache!Inv, Cache!Move, Cache!caches, Cache!events,
    Cache!others, Cache!NoRefresh
<1>1. CASE Cache!PollList
  <2>1. Cache!TypeOK'
    BY <1>1 DEF Cache!PollList, Cache!AskList, Cache!TypeOK, Cache!Statuses, Cache!Copies,
        Cache!Requested, Cache!None, Cache!Home
  <2>2. Cache!Requested'
    BY <1>1 DEF Cache!PollList, Cache!AskList, Cache!Requested, Cache!TypeOK, Cache!Statuses,
        Cache!None, Cache!Home
  <2>3. Cache!EndsShown'
    BY <1>1 DEF Cache!PollList, Cache!AskList, Cache!EndsShown, Cache!TypeOK, Cache!Requested,
        Cache!NoSubmit, Cache!None, Cache!Home, Cache!Statuses
  <2>4. Cache!Unknown'
    BY <1>1 DEF Cache!PollList, Cache!AskList, Cache!Unknown, Cache!TypeOK, Cache!Requested,
        Cache!Statuses, Cache!Home
  <2>5. Cache!NoBounce'
    BY <1>1 DEF Cache!PollList, Cache!AskList, Cache!NoBounce, Cache!TypeOK, Cache!Requested,
        Cache!EndsShown, Cache!Unknown, Cache!Statuses, Cache!None, Cache!Home
  <2> QED
    BY <2>1, <2>2, <2>3, <2>4, <2>5
<1>2. CASE Cache!AnswerList
  <2>1. Cache!TypeOK'
    BY <1>2 DEF Cache!AnswerList, Cache!Snapshot, Cache!Missing, Cache!TypeOK, Cache!Statuses,
        Cache!Copies, Cache!Requested, Cache!None, Cache!Home
  <2>2. Cache!Requested'
    BY <1>2 DEF Cache!AnswerList, Cache!Snapshot, Cache!Missing, Cache!Requested, Cache!TypeOK,
        Cache!Statuses, Cache!None, Cache!Home
  <2>3. Cache!EndsShown'
    BY <1>2 DEF Cache!AnswerList, Cache!Snapshot, Cache!Missing, Cache!EndsShown, Cache!TypeOK,
        Cache!Requested, Cache!NoSubmit, Cache!None, Cache!Home, Cache!Statuses
  <2>4. Cache!Unknown'
    BY <1>2 DEF Cache!AnswerList, Cache!Snapshot, Cache!Missing, Cache!Unknown, Cache!TypeOK,
        Cache!Requested, Cache!Statuses, Cache!Home
  <2>5. Cache!NoBounce'
    BY <1>2 DEF Cache!AnswerList, Cache!Snapshot, Cache!Missing, Cache!NoBounce, Cache!TypeOK,
        Cache!Requested, Cache!EndsShown, Cache!Unknown, Cache!Statuses, Cache!None, Cache!Home
  <2> QED
    BY <2>1, <2>2, <2>3, <2>4, <2>5
<1>3. CASE Cache!ApplyList
  <2>1. Cache!TypeOK'
    BY <1>3 DEF Cache!ApplyList, Cache!Seeded, Cache!SeededFresh, Cache!Snapshot, Cache!Missing,
        Cache!TypeOK, Cache!Statuses, Cache!Copies, Cache!Requested, Cache!None, Cache!Home
  <2>2. Cache!Requested'
    BY <1>3 DEF Cache!ApplyList, Cache!Seeded, Cache!SeededFresh, Cache!Snapshot, Cache!Missing,
        Cache!Requested, Cache!TypeOK, Cache!Statuses, Cache!None, Cache!Home
  <2>3. Cache!EndsShown'
    BY <1>3 DEF Cache!ApplyList, Cache!Seeded, Cache!SeededFresh, Cache!Snapshot, Cache!Missing,
        Cache!EndsShown, Cache!TypeOK, Cache!Requested, Cache!NoSubmit, Cache!None, Cache!Home,
        Cache!Statuses
  <2>4. Cache!Unknown'
    BY <1>3 DEF Cache!ApplyList, Cache!Seeded, Cache!SeededFresh, Cache!Snapshot, Cache!Missing,
        Cache!Unknown, Cache!TypeOK, Cache!Requested, Cache!Statuses, Cache!Home
  <2>5. Cache!NoBounce'
    BY <1>3 DEF Cache!ApplyList, Cache!Seeded, Cache!SeededFresh, Cache!Snapshot, Cache!Missing,
        Cache!NoBounce, Cache!TypeOK, Cache!Requested, Cache!EndsShown, Cache!Unknown,
        Cache!Statuses, Cache!None, Cache!Home
  <2> QED
    BY <2>1, <2>2, <2>3, <2>4, <2>5
<1>4. CASE Cache!AnswerDetail
  <2>1. Cache!TypeOK'
    BY <1>4 DEF Cache!AnswerDetail, Cache!Snapshot, Cache!Missing, Cache!TypeOK, Cache!Statuses,
        Cache!Copies, Cache!Requested, Cache!None, Cache!Home
  <2>2. Cache!Requested'
    BY <1>4 DEF Cache!AnswerDetail, Cache!Snapshot, Cache!Missing, Cache!Requested, Cache!TypeOK,
        Cache!Statuses, Cache!None, Cache!Home
  <2>3. Cache!EndsShown'
    BY <1>4 DEF Cache!AnswerDetail, Cache!Snapshot, Cache!Missing, Cache!EndsShown, Cache!TypeOK,
        Cache!Requested, Cache!NoSubmit, Cache!None, Cache!Home, Cache!Statuses
  <2>4. Cache!Unknown'
    BY <1>4 DEF Cache!AnswerDetail, Cache!Snapshot, Cache!Missing, Cache!Unknown, Cache!TypeOK,
        Cache!Requested, Cache!Statuses, Cache!Home
  <2>5. Cache!NoBounce'
    BY <1>4 DEF Cache!AnswerDetail, Cache!Snapshot, Cache!Missing, Cache!NoBounce, Cache!TypeOK,
        Cache!Requested, Cache!EndsShown, Cache!Unknown, Cache!Statuses, Cache!None, Cache!Home
  <2> QED
    BY <2>1, <2>2, <2>3, <2>4, <2>5
<1>5. CASE Cache!ApplyDetail
  <2>1. Cache!TypeOK'
    <3> DEFINE t == detailFetch.thread
    <3>1. t \in CachedThreads /\ t = route /\ detailFetch.answer \in Cache!Statuses \cup {"absent"}
      BY <1>5 DEF Cache!ApplyDetail, Cache!Requested, Cache!None
    <3>2. CASE detailFetch.answer = "absent"
      <4>1. /\ detail' \in [CachedThreads -> Cache!Copies]
            /\ fresh' \subseteq {u \in CachedThreads : detail'[u] # "absent"}
        BY <1>5, <3>2 DEF Cache!ApplyDetail, Cache!Go, Cache!Seeded, Cache!SeededFresh, Cache!TypeOK,
            Cache!Copies, Cache!Statuses
      <4>2. route' = Cache!Home /\ detailFetch' = Cache!NoFetch /\ completed' = {}
        BY <1>5, <3>2 DEF Cache!ApplyDetail, Cache!Go, Cache!MountFetch
      <4>3. left' \subseteq CachedThreads
        BY <1>5, <3>2 DEF Cache!ApplyDetail, Cache!Go, Cache!TypeOK
      <4> QED
        BY <1>5, <4>1, <4>2, <4>3 DEF Cache!ApplyDetail, Cache!TypeOK, Cache!NoFetch, Cache!None, Cache!Home
    <3>3. CASE detailFetch.answer # "absent"
      <4>1. /\ detail' = [detail EXCEPT ![t] = detailFetch.answer] /\ fresh' = fresh \cup {t}
            /\ detailFetch' = Cache!NoFetch
        BY <1>5, <3>3 DEF Cache!ApplyDetail
      <4>2. /\ detail' \in [CachedThreads -> Cache!Copies]
            /\ fresh' \subseteq {u \in CachedThreads : detail'[u] # "absent"}
        BY <3>1, <3>3, <4>1 DEF Cache!TypeOK, Cache!Copies
      <4> QED
        BY <1>5, <3>3, <4>1, <4>2 DEF Cache!ApplyDetail, Cache!TypeOK, Cache!NoFetch, Cache!None
    <3> QED
      BY <3>2, <3>3
  <2>2. Cache!Requested'
    <3>1. detailFetch' = Cache!NoFetch
      BY <1>5 DEF Cache!ApplyDetail, Cache!Go, Cache!MountFetch
    <3> QED
      BY <1>5, <3>1 DEF Cache!ApplyDetail, Cache!Requested, Cache!NoFetch, Cache!None
  <2>3. Cache!EndsShown'
    BY <1>5 DEF Cache!ApplyDetail, Cache!Go, Cache!Seeded, Cache!SeededFresh, Cache!MountFetch,
        Cache!EndsShown, Cache!TypeOK, Cache!Requested, Cache!NoSubmit, Cache!None, Cache!Home,
        Cache!Statuses
  <2>4. Cache!Unknown'
    BY <1>5 DEF Cache!ApplyDetail, Cache!Go, Cache!Seeded, Cache!SeededFresh, Cache!MountFetch,
        Cache!Unknown, Cache!TypeOK, Cache!Requested, Cache!Statuses, Cache!Home
  <2>5. Cache!NoBounce'
    BY <1>5 DEF Cache!ApplyDetail, Cache!Go, Cache!Seeded, Cache!SeededFresh, Cache!MountFetch,
        Cache!NoBounce, Cache!TypeOK, Cache!Requested, Cache!EndsShown, Cache!Unknown,
        Cache!Statuses, Cache!None, Cache!Home
  <2> QED
    BY <2>1, <2>2, <2>3, <2>4, <2>5
<1>6. CASE Cache!Minted
  <2>1. Cache!TypeOK'
    BY <1>6 DEF Cache!Minted, Cache!Seeded, Cache!SeededFresh, Cache!NoFetch, Cache!NoSubmit,
        Cache!TypeOK, Cache!Statuses, Cache!Copies, Cache!Requested, Cache!None, Cache!Home
  <2>2. Cache!Requested'
    BY <1>6 DEF Cache!Minted, Cache!Seeded, Cache!SeededFresh, Cache!NoFetch, Cache!NoSubmit,
        Cache!Requested, Cache!TypeOK, Cache!Statuses, Cache!None, Cache!Home
  <2>3. Cache!EndsShown'
    BY <1>6 DEF Cache!Minted, Cache!Seeded, Cache!SeededFresh, Cache!NoFetch, Cache!NoSubmit,
        Cache!EndsShown, Cache!TypeOK, Cache!Requested, Cache!None, Cache!Home, Cache!Statuses
  <2>4. Cache!Unknown'
    BY <1>6 DEF Cache!Minted, Cache!Seeded, Cache!SeededFresh, Cache!NoFetch, Cache!NoSubmit,
        Cache!Unknown, Cache!TypeOK, Cache!Requested, Cache!Statuses, Cache!Home
  <2>5. Cache!NoBounce'
    BY <1>6 DEF Cache!Minted, Cache!Seeded, Cache!SeededFresh, Cache!NoFetch, Cache!NoSubmit,
        Cache!NoBounce, Cache!TypeOK, Cache!Requested, Cache!EndsShown, Cache!Unknown,
        Cache!Statuses, Cache!None, Cache!Home
  <2> QED
    BY <2>1, <2>2, <2>3, <2>4, <2>5
<1>7. CASE Cache!Sent
  <2>1. Cache!TypeOK'
    <3>1. send \in CachedThreads
      BY <1>7 DEF Cache!Sent, Cache!TypeOK
    <3>2. /\ detail' \in [CachedThreads -> Cache!Copies]
          /\ fresh' \subseteq {u \in CachedThreads : detail'[u] # "absent"}
      <4>1. CASE detail[send] # "absent"
        BY <1>7, <3>1, <4>1 DEF Cache!Sent, Cache!TypeOK, Cache!Copies, Cache!Statuses
      <4>2. CASE detail[send] = "absent"
        BY <1>7, <4>2 DEF Cache!Sent, Cache!TypeOK
      <4> QED
        BY <4>1, <4>2
    <3>3. listFetch' \in [asked : BOOLEAN, answered : BOOLEAN, data : [CachedThreads -> Cache!Statuses \cup {"absent"}]]
      BY <1>7 DEF Cache!Sent, Cache!AskList, Cache!TypeOK
    <3> QED
      BY <1>7, <3>2, <3>3 DEF Cache!Sent, Cache!TypeOK
  <2>2. Cache!Requested'
    BY <1>7 DEF Cache!Sent, Cache!AskList, Cache!Requested, Cache!TypeOK, Cache!Statuses, Cache!None,
        Cache!Home
  <2>3. Cache!EndsShown'
    BY <1>7 DEF Cache!Sent, Cache!AskList, Cache!EndsShown, Cache!TypeOK, Cache!Requested,
        Cache!NoSubmit, Cache!None, Cache!Home, Cache!Statuses
  <2>4. Cache!Unknown'
    BY <1>7 DEF Cache!Sent, Cache!AskList, Cache!Unknown, Cache!TypeOK, Cache!Requested,
        Cache!Statuses, Cache!Home
  <2>5. Cache!NoBounce'
    BY <1>7 DEF Cache!Sent, Cache!AskList, Cache!NoBounce, Cache!TypeOK, Cache!Requested,
        Cache!EndsShown, Cache!Unknown, Cache!Statuses, Cache!None, Cache!Home
  <2> QED
    BY <2>1, <2>2, <2>3, <2>4, <2>5
<1>8. CASE Cache!Deleted
  <2>1. Cache!TypeOK'
    <3> DEFINE t == deleting
               d == [detail EXCEPT ![t] = "absent"]
               f == fresh \ {t}
    <3>1. t \in CachedThreads
      BY <1>8 DEF Cache!Deleted, Cache!TypeOK
    <3>2. d \in [CachedThreads -> Cache!Copies] /\ f \subseteq {u \in CachedThreads : d[u] # "absent"}
      BY <3>1 DEF Cache!TypeOK, Cache!Copies
    <3>3. listFetch' \in [asked : BOOLEAN, answered : BOOLEAN, data : [CachedThreads -> Cache!Statuses \cup {"absent"}]]
      BY <1>8 DEF Cache!Deleted, Cache!AskList, Cache!TypeOK
    <3>4. CASE route = t
      <4>1. Cache!Go(Cache!Home, d, f)
        BY <1>8, <3>4 DEF Cache!Deleted
      <4> HIDE DEF d, f
      <4>2. /\ detail' \in [CachedThreads -> Cache!Copies]
            /\ fresh' \subseteq {u \in CachedThreads : detail'[u] # "absent"}
        BY <3>2, <4>1 DEF Cache!Go, Cache!Seeded, Cache!SeededFresh, Cache!TypeOK, Cache!Copies, Cache!Statuses
      <4>3. route' = Cache!Home /\ detailFetch' = Cache!NoFetch /\ completed' = {}
        BY <4>1 DEF Cache!Go, Cache!MountFetch
      <4>4. left' \subseteq CachedThreads
        BY <4>1 DEF Cache!Go, Cache!TypeOK
      <4> QED
        BY <1>8, <3>3, <4>2, <4>3, <4>4 DEF Cache!Deleted, Cache!TypeOK, Cache!NoFetch, Cache!None, Cache!Home
    <3>5. CASE route # t
      <4>1. detail' = d /\ fresh' = f /\ UNCHANGED <<route, left, completed>>
        BY <1>8, <3>5 DEF Cache!Deleted
      <4>2. detailFetch' \in {detailFetch, Cache!NoFetch}
        BY <1>8, <3>5 DEF Cache!Deleted
      <4> HIDE DEF d, f
      <4> QED
        BY <1>8, <3>2, <3>3, <4>1, <4>2 DEF Cache!Deleted, Cache!TypeOK, Cache!NoFetch, Cache!None
    <3> QED
      BY <3>4, <3>5
  <2>2. Cache!Requested'
    BY <1>8 DEF Cache!Deleted, Cache!Go, Cache!Seeded, Cache!SeededFresh, Cache!MountFetch,
        Cache!AskList, Cache!NoFetch, Cache!Requested, Cache!TypeOK, Cache!Statuses, Cache!None,
        Cache!Home
  <2>3. Cache!EndsShown'
    BY <1>8 DEF Cache!Deleted, Cache!Go, Cache!Seeded, Cache!SeededFresh, Cache!MountFetch,
        Cache!AskList, Cache!NoFetch, Cache!EndsShown, Cache!TypeOK, Cache!Requested, Cache!NoSubmit,
        Cache!None, Cache!Home, Cache!Statuses
  <2>4. Cache!Unknown'
    BY <1>8 DEF Cache!Deleted, Cache!Go, Cache!Seeded, Cache!SeededFresh, Cache!MountFetch,
        Cache!AskList, Cache!NoFetch, Cache!Unknown, Cache!TypeOK, Cache!Requested, Cache!Statuses,
        Cache!Home
  <2>5. Cache!NoBounce'
    BY <1>8 DEF Cache!Deleted, Cache!Go, Cache!Seeded, Cache!SeededFresh, Cache!MountFetch,
        Cache!AskList, Cache!NoFetch, Cache!NoBounce, Cache!TypeOK, Cache!Requested, Cache!EndsShown,
        Cache!Unknown, Cache!Statuses, Cache!None, Cache!Home
  <2> QED
    BY <2>1, <2>2, <2>3, <2>4, <2>5
<1>9. CASE Cache!DeleteFails
  <2>1. Cache!TypeOK'
    BY <1>9 DEF Cache!DeleteFails, Cache!TypeOK, Cache!Statuses, Cache!Copies, Cache!Requested,
        Cache!None, Cache!Home
  <2>2. Cache!Requested'
    BY <1>9 DEF Cache!DeleteFails, Cache!Requested, Cache!TypeOK, Cache!Statuses, Cache!None,
        Cache!Home
  <2>3. Cache!EndsShown'
    BY <1>9 DEF Cache!DeleteFails, Cache!EndsShown, Cache!TypeOK, Cache!Requested, Cache!NoSubmit,
        Cache!None, Cache!Home, Cache!Statuses
  <2>4. Cache!Unknown'
    BY <1>9 DEF Cache!DeleteFails, Cache!Unknown, Cache!TypeOK, Cache!Requested, Cache!Statuses,
        Cache!Home
  <2>5. Cache!NoBounce'
    BY <1>9 DEF Cache!DeleteFails, Cache!NoBounce, Cache!TypeOK, Cache!Requested, Cache!EndsShown,
        Cache!Unknown, Cache!Statuses, Cache!None, Cache!Home
  <2> QED
    BY <2>1, <2>2, <2>3, <2>4, <2>5
<1>10. ASSUME NEW t \in CachedThreads, Cache!OnCreated(t)
       PROVE  Cache!Inv'
  <2>1. Cache!TypeOK'
    BY <1>10 DEF Cache!OnCreated, Cache!AskList, Cache!TypeOK, Cache!Statuses, Cache!Copies,
        Cache!Requested, Cache!None, Cache!Home
  <2>2. Cache!Requested'
    BY <1>10 DEF Cache!OnCreated, Cache!AskList, Cache!Requested, Cache!TypeOK, Cache!Statuses,
        Cache!None, Cache!Home
  <2>3. Cache!EndsShown'
    BY <1>10 DEF Cache!OnCreated, Cache!AskList, Cache!EndsShown, Cache!TypeOK, Cache!Requested,
        Cache!NoSubmit, Cache!None, Cache!Home, Cache!Statuses
  <2>4. Cache!Unknown'
    BY <1>10 DEF Cache!OnCreated, Cache!AskList, Cache!Unknown, Cache!TypeOK, Cache!Requested,
        Cache!Statuses, Cache!Home
  <2>5. Cache!NoBounce'
    BY <1>10 DEF Cache!OnCreated, Cache!AskList, Cache!NoBounce, Cache!TypeOK, Cache!Requested,
        Cache!EndsShown, Cache!Unknown, Cache!Statuses, Cache!None, Cache!Home
  <2> QED
    BY <2>1, <2>2, <2>3, <2>4, <2>5
<1>11. ASSUME NEW t \in CachedThreads, Cache!OnCompleted(t)
       PROVE  Cache!Inv'
  <2>1. Cache!TypeOK'
    BY <1>11 DEF Cache!OnCompleted, Cache!AskList, Cache!TypeOK, Cache!Statuses, Cache!Copies,
        Cache!Requested, Cache!None, Cache!Home
  <2>2. Cache!Requested'
    BY <1>11 DEF Cache!OnCompleted, Cache!AskList, Cache!Requested, Cache!TypeOK, Cache!Statuses,
        Cache!None, Cache!Home
  <2>3. Cache!EndsShown'
    BY <1>11 DEF Cache!OnCompleted, Cache!AskList, Cache!EndsShown, Cache!TypeOK, Cache!Requested,
        Cache!NoSubmit, Cache!None, Cache!Home, Cache!Statuses
  <2>4. Cache!Unknown'
    BY <1>11 DEF Cache!OnCompleted, Cache!AskList, Cache!Unknown, Cache!TypeOK, Cache!Requested,
        Cache!Statuses, Cache!Home
  <2>5. Cache!NoBounce'
    BY <1>11 DEF Cache!OnCompleted, Cache!AskList, Cache!NoBounce, Cache!TypeOK, Cache!Requested,
        Cache!EndsShown, Cache!Unknown, Cache!Statuses, Cache!None, Cache!Home
  <2> QED
    BY <2>1, <2>2, <2>3, <2>4, <2>5
<1>12. CASE Cache!GoHome
  <2>1. Cache!TypeOK'
    BY <1>12 DEF Cache!GoHome, Cache!Go, Cache!Seeded, Cache!SeededFresh, Cache!MountFetch,
        Cache!NoFetch, Cache!TypeOK, Cache!Statuses, Cache!Copies, Cache!Requested, Cache!None,
        Cache!Home
  <2>2. Cache!Requested'
    BY <1>12 DEF Cache!GoHome, Cache!Go, Cache!Seeded, Cache!SeededFresh, Cache!MountFetch,
        Cache!NoFetch, Cache!Requested, Cache!TypeOK, Cache!Statuses, Cache!None, Cache!Home
  <2>3. Cache!EndsShown'
    BY <1>12 DEF Cache!GoHome, Cache!Go, Cache!Seeded, Cache!SeededFresh, Cache!MountFetch,
        Cache!NoFetch, Cache!EndsShown, Cache!TypeOK, Cache!Requested, Cache!NoSubmit, Cache!None,
        Cache!Home, Cache!Statuses
  <2>4. Cache!Unknown'
    BY <1>12 DEF Cache!GoHome, Cache!Go, Cache!Seeded, Cache!SeededFresh, Cache!MountFetch,
        Cache!NoFetch, Cache!Unknown, Cache!TypeOK, Cache!Requested, Cache!Statuses, Cache!Home
  <2>5. Cache!NoBounce'
    BY <1>12 DEF Cache!GoHome, Cache!Go, Cache!Seeded, Cache!SeededFresh, Cache!MountFetch,
        Cache!NoFetch, Cache!NoBounce, Cache!TypeOK, Cache!Requested, Cache!EndsShown, Cache!Unknown,
        Cache!Statuses, Cache!None, Cache!Home
  <2> QED
    BY <2>1, <2>2, <2>3, <2>4, <2>5
<1>13. CASE Cache!Stamped
  <2>1. Cache!TypeOK'
    BY <1>13 DEF Cache!Stamped, Cache!NoSubmit, Cache!TypeOK, Cache!Statuses, Cache!Copies,
        Cache!Requested, Cache!None, Cache!Home
  <2>2. Cache!Requested'
    BY <1>13 DEF Cache!Stamped, Cache!NoSubmit, Cache!Requested, Cache!TypeOK, Cache!Statuses,
        Cache!None, Cache!Home
  <2>3. Cache!EndsShown'
    BY <1>13 DEF Cache!Stamped, Cache!NoSubmit, Cache!EndsShown, Cache!TypeOK, Cache!Requested,
        Cache!None, Cache!Home, Cache!Statuses
  <2>4. Cache!Unknown'
    BY <1>13 DEF Cache!Stamped, Cache!NoSubmit, Cache!Unknown, Cache!TypeOK, Cache!Requested,
        Cache!Statuses, Cache!Home
  <2>5. Cache!NoBounce'
    BY <1>13 DEF Cache!Stamped, Cache!NoSubmit, Cache!NoBounce, Cache!TypeOK, Cache!Requested,
        Cache!EndsShown, Cache!Unknown, Cache!Statuses, Cache!None, Cache!Home
  <2> QED
    BY <2>1, <2>2, <2>3, <2>4, <2>5
<1>14. CASE Cache!SubmitFails
  <2>1. Cache!TypeOK'
    BY <1>14 DEF Cache!SubmitFails, Cache!NoSubmit, Cache!TypeOK, Cache!Statuses, Cache!Copies,
        Cache!Requested, Cache!None, Cache!Home
  <2>2. Cache!Requested'
    BY <1>14 DEF Cache!SubmitFails, Cache!NoSubmit, Cache!Requested, Cache!TypeOK, Cache!Statuses,
        Cache!None, Cache!Home
  <2>3. Cache!EndsShown'
    BY <1>14 DEF Cache!SubmitFails, Cache!NoSubmit, Cache!EndsShown, Cache!TypeOK, Cache!Requested,
        Cache!None, Cache!Home, Cache!Statuses
  <2>4. Cache!Unknown'
    BY <1>14 DEF Cache!SubmitFails, Cache!NoSubmit, Cache!Unknown, Cache!TypeOK, Cache!Requested,
        Cache!Statuses, Cache!Home
  <2>5. Cache!NoBounce'
    BY <1>14 DEF Cache!SubmitFails, Cache!NoSubmit, Cache!NoBounce, Cache!TypeOK, Cache!Requested,
        Cache!EndsShown, Cache!Unknown, Cache!Statuses, Cache!None, Cache!Home
  <2> QED
    BY <2>1, <2>2, <2>3, <2>4, <2>5
<1>15. CASE Cache!Send
  <2>1. Cache!TypeOK'
    BY <1>15 DEF Cache!Send, Cache!TypeOK, Cache!Statuses, Cache!Copies, Cache!Requested, Cache!None,
        Cache!Home
  <2>2. Cache!Requested'
    BY <1>15 DEF Cache!Send, Cache!Requested, Cache!TypeOK, Cache!Statuses, Cache!None, Cache!Home
  <2>3. Cache!EndsShown'
    BY <1>15 DEF Cache!Send, Cache!EndsShown, Cache!TypeOK, Cache!Requested, Cache!NoSubmit,
        Cache!None, Cache!Home, Cache!Statuses
  <2>4. Cache!Unknown'
    BY <1>15 DEF Cache!Send, Cache!Unknown, Cache!TypeOK, Cache!Requested, Cache!Statuses, Cache!Home
  <2>5. Cache!NoBounce'
    BY <1>15 DEF Cache!Send, Cache!NoBounce, Cache!TypeOK, Cache!Requested, Cache!EndsShown,
        Cache!Unknown, Cache!Statuses, Cache!None, Cache!Home
  <2> QED
    BY <2>1, <2>2, <2>3, <2>4, <2>5
<1>16. ASSUME NEW t \in CachedThreads, Cache!Open(t)
       PROVE  Cache!Inv'
  <2>1. Cache!TypeOK'
    BY <1>16 DEF Cache!Open, Cache!Go, Cache!Seeded, Cache!SeededFresh, Cache!MountFetch,
        Cache!NoFetch, Cache!TypeOK, Cache!Statuses, Cache!Copies, Cache!Requested, Cache!None,
        Cache!Home
  <2>2. Cache!Requested'
    BY <1>16 DEF Cache!Open, Cache!Go, Cache!Seeded, Cache!SeededFresh, Cache!MountFetch,
        Cache!NoFetch, Cache!Requested, Cache!TypeOK, Cache!Statuses, Cache!None, Cache!Home
  <2>3. Cache!EndsShown'
    BY <1>16 DEF Cache!Open, Cache!Go, Cache!Seeded, Cache!SeededFresh, Cache!MountFetch,
        Cache!NoFetch, Cache!EndsShown, Cache!TypeOK, Cache!Requested, Cache!NoSubmit, Cache!None,
        Cache!Home, Cache!Statuses
  <2>4. Cache!Unknown'
    BY <1>16 DEF Cache!Open, Cache!Go, Cache!Seeded, Cache!SeededFresh, Cache!MountFetch,
        Cache!NoFetch, Cache!Unknown, Cache!TypeOK, Cache!Requested, Cache!Statuses, Cache!Home
  <2>5. Cache!NoBounce'
    BY <1>16 DEF Cache!Open, Cache!Go, Cache!Seeded, Cache!SeededFresh, Cache!MountFetch,
        Cache!NoFetch, Cache!NoBounce, Cache!TypeOK, Cache!Requested, Cache!EndsShown, Cache!Unknown,
        Cache!Statuses, Cache!None, Cache!Home
  <2> QED
    BY <2>1, <2>2, <2>3, <2>4, <2>5
<1>17. ASSUME NEW t \in CachedThreads, Cache!Expire(t)
       PROVE  Cache!Inv'
  <2>1. Cache!TypeOK'
    BY <1>17 DEF Cache!Expire, Cache!TypeOK, Cache!Statuses, Cache!Copies, Cache!Requested,
        Cache!None, Cache!Home
  <2>2. Cache!Requested'
    BY <1>17 DEF Cache!Expire, Cache!Requested, Cache!TypeOK, Cache!Statuses, Cache!None, Cache!Home
  <2>3. Cache!EndsShown'
    BY <1>17 DEF Cache!Expire, Cache!EndsShown, Cache!TypeOK, Cache!Requested, Cache!NoSubmit,
        Cache!None, Cache!Home, Cache!Statuses
  <2>4. Cache!Unknown'
    BY <1>17 DEF Cache!Expire, Cache!Unknown, Cache!TypeOK, Cache!Requested, Cache!Statuses,
        Cache!Home
  <2>5. Cache!NoBounce'
    BY <1>17 DEF Cache!Expire, Cache!NoBounce, Cache!TypeOK, Cache!Requested, Cache!EndsShown,
        Cache!Unknown, Cache!Statuses, Cache!None, Cache!Home
  <2> QED
    BY <2>1, <2>2, <2>3, <2>4, <2>5
<1>18. ASSUME NEW t \in CachedThreads, Cache!Submit(t)
       PROVE  Cache!Inv'
  <2>1. Cache!TypeOK'
    BY <1>18 DEF Cache!Submit, Cache!NoSubmit, Cache!TypeOK, Cache!Statuses, Cache!Copies,
        Cache!Requested, Cache!None, Cache!Home
  <2>2. Cache!Requested'
    BY <1>18 DEF Cache!Submit, Cache!NoSubmit, Cache!Requested, Cache!TypeOK, Cache!Statuses,
        Cache!None, Cache!Home
  <2>3. Cache!EndsShown'
    BY <1>18 DEF Cache!Submit, Cache!NoSubmit, Cache!EndsShown, Cache!TypeOK, Cache!Requested,
        Cache!None, Cache!Home, Cache!Statuses
  <2>4. Cache!Unknown'
    BY <1>18 DEF Cache!Submit, Cache!NoSubmit, Cache!Unknown, Cache!TypeOK, Cache!Requested,
        Cache!Statuses, Cache!Home
  <2>5. Cache!NoBounce'
    BY <1>18 DEF Cache!Submit, Cache!NoSubmit, Cache!NoBounce, Cache!TypeOK, Cache!Requested,
        Cache!EndsShown, Cache!Unknown, Cache!Statuses, Cache!None, Cache!Home
  <2> QED
    BY <2>1, <2>2, <2>3, <2>4, <2>5
<1>19. ASSUME NEW t \in CachedThreads, Cache!RunEnds(t)
       PROVE  Cache!Inv'
  <2>1. Cache!TypeOK'
    BY <1>19 DEF Cache!RunEnds, Cache!TypeOK, Cache!Statuses, Cache!Copies, Cache!Requested,
        Cache!None, Cache!Home
  <2>2. Cache!Requested'
    BY <1>19 DEF Cache!RunEnds, Cache!Requested, Cache!TypeOK, Cache!Statuses, Cache!None, Cache!Home
  <2>3. Cache!EndsShown'
    BY <1>19 DEF Cache!RunEnds, Cache!EndsShown, Cache!TypeOK, Cache!Requested, Cache!NoSubmit,
        Cache!None, Cache!Home, Cache!Statuses
  <2>4. Cache!Unknown'
    BY <1>19 DEF Cache!RunEnds, Cache!Unknown, Cache!TypeOK, Cache!Requested, Cache!Statuses,
        Cache!Home
  <2>5. Cache!NoBounce'
    BY <1>19 DEF Cache!RunEnds, Cache!NoBounce, Cache!TypeOK, Cache!Requested, Cache!EndsShown,
        Cache!Unknown, Cache!Statuses, Cache!None, Cache!Home
  <2> QED
    BY <2>1, <2>2, <2>3, <2>4, <2>5
<1>20. ASSUME NEW t \in CachedThreads, Cache!ConfirmDelete(t)
       PROVE  Cache!Inv'
  <2>1. Cache!TypeOK'
    BY <1>20 DEF Cache!ConfirmDelete, Cache!TypeOK, Cache!Statuses, Cache!Copies, Cache!Requested,
        Cache!None, Cache!Home
  <2>2. Cache!Requested'
    BY <1>20 DEF Cache!ConfirmDelete, Cache!Requested, Cache!TypeOK, Cache!Statuses, Cache!None,
        Cache!Home
  <2>3. Cache!EndsShown'
    BY <1>20 DEF Cache!ConfirmDelete, Cache!EndsShown, Cache!TypeOK, Cache!Requested, Cache!NoSubmit,
        Cache!None, Cache!Home, Cache!Statuses
  <2>4. Cache!Unknown'
    BY <1>20 DEF Cache!ConfirmDelete, Cache!Unknown, Cache!TypeOK, Cache!Requested, Cache!Statuses,
        Cache!Home
  <2>5. Cache!NoBounce'
    BY <1>20 DEF Cache!ConfirmDelete, Cache!NoBounce, Cache!TypeOK, Cache!Requested, Cache!EndsShown,
        Cache!Unknown, Cache!Statuses, Cache!None, Cache!Home
  <2> QED
    BY <2>1, <2>2, <2>3, <2>4, <2>5
<1>21. CASE UNCHANGED cacheVars
  <2>1. Cache!TypeOK'
    BY <1>21 DEF cacheVars, Cache!TypeOK, Cache!Statuses, Cache!Copies, Cache!Requested, Cache!None,
        Cache!Home
  <2>2. Cache!Requested'
    BY <1>21 DEF cacheVars, Cache!Requested, Cache!TypeOK, Cache!Statuses, Cache!None, Cache!Home
  <2>3. Cache!EndsShown'
    BY <1>21 DEF cacheVars, Cache!EndsShown, Cache!TypeOK, Cache!Requested, Cache!NoSubmit,
        Cache!None, Cache!Home, Cache!Statuses
  <2>4. Cache!Unknown'
    BY <1>21 DEF cacheVars, Cache!Unknown, Cache!TypeOK, Cache!Requested, Cache!Statuses, Cache!Home
  <2>5. Cache!NoBounce'
    BY <1>21 DEF cacheVars, Cache!NoBounce, Cache!TypeOK, Cache!Requested, Cache!EndsShown,
        Cache!Unknown, Cache!Statuses, Cache!None, Cache!Home
  <2> QED
    BY <2>1, <2>2, <2>3, <2>4, <2>5
<1>22. CASE Cache!Stop
  <2>1. Cache!TypeOK'
    BY <1>22 DEF Cache!Stop, Cache!TypeOK, Cache!Statuses, Cache!Copies, Cache!Requested, Cache!None,
        Cache!Home
  <2>2. Cache!Requested'
    BY <1>22 DEF Cache!Stop, Cache!Requested, Cache!TypeOK, Cache!Statuses, Cache!None, Cache!Home
  <2>3. Cache!EndsShown'
    BY <1>22 DEF Cache!Stop, Cache!EndsShown, Cache!TypeOK, Cache!Requested, Cache!NoSubmit,
        Cache!None, Cache!Home, Cache!Statuses
  <2>4. Cache!Unknown'
    BY <1>22 DEF Cache!Stop, Cache!Unknown, Cache!TypeOK, Cache!Requested, Cache!Statuses,
        Cache!Home
  <2>5. Cache!NoBounce'
    BY <1>22 DEF Cache!Stop, Cache!NoBounce, Cache!TypeOK, Cache!Requested, Cache!EndsShown,
        Cache!Unknown, Cache!Statuses, Cache!None, Cache!Home
  <2> QED
    BY <2>1, <2>2, <2>3, <2>4, <2>5
<1>23. CASE Cache!Stopped
  <2>1. Cache!TypeOK'
    <3>1. stopping \in CachedThreads
      BY <1>23 DEF Cache!Stopped, Cache!TypeOK
    <3>2. /\ detail' \in [CachedThreads -> Cache!Copies]
          /\ fresh' \subseteq {u \in CachedThreads : detail'[u] # "absent"}
      <4>1. CASE detail[stopping] # "absent"
        BY <1>23, <3>1, <4>1 DEF Cache!Stopped, Cache!TypeOK, Cache!Copies, Cache!Statuses
      <4>2. CASE detail[stopping] = "absent"
        BY <1>23, <4>2 DEF Cache!Stopped, Cache!TypeOK
      <4> QED
        BY <4>1, <4>2
    <3>3. listFetch' \in [asked : BOOLEAN, answered : BOOLEAN, data : [CachedThreads -> Cache!Statuses \cup {"absent"}]]
      BY <1>23 DEF Cache!Stopped, Cache!AskList, Cache!TypeOK
    <3> QED
      BY <1>23, <3>2, <3>3 DEF Cache!Stopped, Cache!TypeOK
  <2>2. Cache!Requested'
    BY <1>23 DEF Cache!Stopped, Cache!AskList, Cache!Requested, Cache!TypeOK, Cache!Statuses, Cache!None, Cache!Home
  <2>3. Cache!EndsShown'
    BY <1>23 DEF Cache!Stopped, Cache!AskList, Cache!EndsShown, Cache!TypeOK, Cache!Requested, Cache!NoSubmit,
        Cache!None, Cache!Home, Cache!Statuses
  <2>4. Cache!Unknown'
    BY <1>23 DEF Cache!Stopped, Cache!AskList, Cache!Unknown, Cache!TypeOK, Cache!Requested, Cache!Statuses,
        Cache!Home
  <2>5. Cache!NoBounce'
    BY <1>23 DEF Cache!Stopped, Cache!AskList, Cache!NoBounce, Cache!TypeOK, Cache!Requested, Cache!EndsShown,
        Cache!Unknown, Cache!Statuses, Cache!None, Cache!Home
  <2> QED
    BY <2>1, <2>2, <2>3, <2>4, <2>5
<1>24. CASE Cache!RefreshChanges
  <2>1. Cache!TypeOK'
    BY <1>24 DEF Cache!RefreshChanges, Cache!TypeOK, Cache!Statuses, Cache!Copies, Cache!Requested, Cache!None,
        Cache!Home
  <2>2. Cache!Requested'
    BY <1>24 DEF Cache!RefreshChanges, Cache!Requested, Cache!TypeOK, Cache!Statuses, Cache!None, Cache!Home
  <2>3. Cache!EndsShown'
    BY <1>24 DEF Cache!RefreshChanges, Cache!EndsShown, Cache!TypeOK, Cache!Requested, Cache!NoSubmit,
        Cache!None, Cache!Home, Cache!Statuses
  <2>4. Cache!Unknown'
    BY <1>24 DEF Cache!RefreshChanges, Cache!Unknown, Cache!TypeOK, Cache!Requested, Cache!Statuses,
        Cache!Home
  <2>5. Cache!NoBounce'
    BY <1>24 DEF Cache!RefreshChanges, Cache!NoBounce, Cache!TypeOK, Cache!Requested, Cache!EndsShown,
        Cache!Unknown, Cache!Statuses, Cache!None, Cache!Home
  <2> QED
    BY <2>1, <2>2, <2>3, <2>4, <2>5
<1>25. CASE Cache!SnapshotTaken
  <2>1. Cache!TypeOK'
    BY <1>25 DEF Cache!SnapshotTaken, Cache!TypeOK, Cache!Statuses, Cache!Copies, Cache!Requested, Cache!None,
        Cache!Home
  <2>2. Cache!Requested'
    BY <1>25 DEF Cache!SnapshotTaken, Cache!Requested, Cache!TypeOK, Cache!Statuses, Cache!None, Cache!Home
  <2>3. Cache!EndsShown'
    BY <1>25 DEF Cache!SnapshotTaken, Cache!EndsShown, Cache!TypeOK, Cache!Requested, Cache!NoSubmit,
        Cache!None, Cache!Home, Cache!Statuses
  <2>4. Cache!Unknown'
    BY <1>25 DEF Cache!SnapshotTaken, Cache!Unknown, Cache!TypeOK, Cache!Requested, Cache!Statuses,
        Cache!Home
  <2>5. Cache!NoBounce'
    BY <1>25 DEF Cache!SnapshotTaken, Cache!NoBounce, Cache!TypeOK, Cache!Requested, Cache!EndsShown,
        Cache!Unknown, Cache!Statuses, Cache!None, Cache!Home
  <2> QED
    BY <2>1, <2>2, <2>3, <2>4, <2>5
<1>26. CASE Cache!SnapshotFails
  <2>1. Cache!TypeOK'
    BY <1>26 DEF Cache!SnapshotFails, Cache!TypeOK, Cache!Statuses, Cache!Copies, Cache!Requested, Cache!None,
        Cache!Home
  <2>2. Cache!Requested'
    BY <1>26 DEF Cache!SnapshotFails, Cache!Requested, Cache!TypeOK, Cache!Statuses, Cache!None, Cache!Home
  <2>3. Cache!EndsShown'
    BY <1>26 DEF Cache!SnapshotFails, Cache!EndsShown, Cache!TypeOK, Cache!Requested, Cache!NoSubmit,
        Cache!None, Cache!Home, Cache!Statuses
  <2>4. Cache!Unknown'
    BY <1>26 DEF Cache!SnapshotFails, Cache!Unknown, Cache!TypeOK, Cache!Requested, Cache!Statuses,
        Cache!Home
  <2>5. Cache!NoBounce'
    BY <1>26 DEF Cache!SnapshotFails, Cache!NoBounce, Cache!TypeOK, Cache!Requested, Cache!EndsShown,
        Cache!Unknown, Cache!Statuses, Cache!None, Cache!Home
  <2> QED
    BY <2>1, <2>2, <2>3, <2>4, <2>5
<1>27. CASE Cache!ChangesRefreshed
  <2>1. Cache!TypeOK'
    BY <1>27 DEF Cache!ChangesRefreshed, Cache!AskList, Cache!TypeOK, Cache!Statuses, Cache!Copies, Cache!Requested, Cache!None,
        Cache!Home
  <2>2. Cache!Requested'
    BY <1>27 DEF Cache!ChangesRefreshed, Cache!AskList, Cache!Requested, Cache!TypeOK, Cache!Statuses, Cache!None, Cache!Home
  <2>3. Cache!EndsShown'
    BY <1>27 DEF Cache!ChangesRefreshed, Cache!AskList, Cache!EndsShown, Cache!TypeOK, Cache!Requested, Cache!NoSubmit,
        Cache!None, Cache!Home, Cache!Statuses
  <2>4. Cache!Unknown'
    BY <1>27 DEF Cache!ChangesRefreshed, Cache!AskList, Cache!Unknown, Cache!TypeOK, Cache!Requested, Cache!Statuses,
        Cache!Home
  <2>5. Cache!NoBounce'
    BY <1>27 DEF Cache!ChangesRefreshed, Cache!AskList, Cache!NoBounce, Cache!TypeOK, Cache!Requested, Cache!EndsShown,
        Cache!Unknown, Cache!Statuses, Cache!None, Cache!Home
  <2> QED
    BY <2>1, <2>2, <2>3, <2>4, <2>5
<1> QED
  BY <1>1, <1>2, <1>3, <1>4, <1>5, <1>6, <1>7, <1>8, <1>9, <1>10, <1>11, <1>12, <1>13, <1>14, <1>15,
      <1>16, <1>17, <1>18, <1>19, <1>20, <1>21, <1>22, <1>23, <1>24, <1>25, <1>26, <1>27
      DEF Cache!Next, Cache!Client

(* For all threads and any number of requests: the page of a thread that    *)
(* was just created never takes it for one that does not exist.             *)
THEOREM NoBounceEver == Spec => []NoBounce
<1> DEFINE I == focus = "cache" => Cache!Inv
<1>1. Init => I
  BY CacheInit DEF Init
<1>2. I /\ [Next]_vars => I'
  BY OnePart, CacheStep
<1>3. I => NoBounce
  BY DEF NoBounce, Cache!Inv
<1> QED
  BY <1>1, <1>2, <1>3, PTL DEF Spec

----------------------------------------------------------------------------
(* Groups of the sidebar                                                    *)

(* The invariant of the groups of the sidebar holds at first.               *)
LEMMA GroupsInit == Groups!Init => Groups!Inv
<1> SUFFICES ASSUME Groups!Init PROVE Groups!Inv
  OBVIOUS
<1>1. Groups!TypeOK
  BY DEF Groups!Init, Groups!TypeOK, Groups!Entries, Groups!Gone, Groups!Groups, Groups!ToSet
<1>2. Groups!RequestsKnown
  BY DEF Groups!Init, Groups!RequestsKnown, Groups!TypeOK, Groups!Entries, Groups!Gone, Groups!Groups,
      Groups!ToSet
<1> QED
  BY <1>1, <1>2 DEF Groups!Inv

(* Every action of the groups of the sidebar keeps its invariant.           *)
LEMMA GroupsStep ==
    ASSUME Groups!Inv, [Groups!Next]_groupsVars
    PROVE  Groups!Inv'
<1> USE DEF Groups!Inv
<1>1. ASSUME NEW t \in Ids, NEW entry \in Groups!Entries, Groups!Refetch(t, entry)
      PROVE  Groups!Inv'
  <2>1. Groups!TypeOK'
    BY <1>1 DEF Groups!Refetch, Groups!Shown, Groups!Kept, Groups!TypeOK
  <2>2. Groups!RequestsKnown'
    BY <1>1 DEF Groups!Refetch, Groups!Shown, Groups!Kept, Groups!RequestsKnown, Groups!TypeOK
  <2> QED
    BY <2>1, <2>2
<1>2. ASSUME NEW g \in Groups!ToSet(Groups!Groups), Groups!ToggleGroup(g)
      PROVE  Groups!Inv'
  <2>1. Groups!TypeOK'
    BY <1>2 DEF Groups!ToggleGroup, Groups!Shown, Groups!Kept, Groups!TypeOK
  <2>2. Groups!RequestsKnown'
    BY <1>2 DEF Groups!ToggleGroup, Groups!Shown, Groups!Kept, Groups!RequestsKnown, Groups!TypeOK
  <2> QED
    BY <2>1, <2>2
<1>3. ASSUME NEW t \in Ids, Groups!onDelete(t)
      PROVE  Groups!Inv'
  <2>1. Groups!TypeOK'
    BY <1>3 DEF Groups!onDelete, Groups!DeleteButtons, Groups!TypeOK
  <2>2. Groups!RequestsKnown'
    BY <1>3 DEF Groups!onDelete, Groups!DeleteButtons, Groups!RequestsKnown, Groups!TypeOK
  <2> QED
    BY <2>1, <2>2
<1>4. ASSUME NEW t \in Ids, Groups!Cancel(t)
      PROVE  Groups!Inv'
  <2>1. Groups!TypeOK'
    BY <1>4 DEF Groups!Cancel, Groups!TypeOK
  <2>2. Groups!RequestsKnown'
    BY <1>4 DEF Groups!Cancel, Groups!RequestsKnown, Groups!TypeOK
  <2> QED
    BY <2>1, <2>2
<1>5. ASSUME NEW t \in Ids, Groups!onConfirmDelete(t)
      PROVE  Groups!Inv'
  <2>1. Groups!TypeOK'
    BY <1>5 DEF Groups!onConfirmDelete, Groups!TypeOK
  <2>2. Groups!RequestsKnown'
    BY <1>5 DEF Groups!onConfirmDelete, Groups!RequestsKnown, Groups!TypeOK
  <2> QED
    BY <2>1, <2>2
<1>6. ASSUME NEW t \in Ids, NEW ok \in BOOLEAN, Groups!Answered(t, ok)
      PROVE  Groups!Inv'
  <2>1. Groups!TypeOK'
    BY <1>6 DEF Groups!Answered, Groups!TypeOK
  <2>2. Groups!RequestsKnown'
    BY <1>6 DEF Groups!Answered, Groups!RequestsKnown, Groups!TypeOK
  <2> QED
    BY <2>1, <2>2
<1>7. CASE UNCHANGED groupsVars
  <2>1. Groups!TypeOK'
    BY <1>7 DEF groupsVars, Groups!TypeOK
  <2>2. Groups!RequestsKnown'
    BY <1>7 DEF groupsVars, Groups!RequestsKnown, Groups!TypeOK
  <2> QED
    BY <2>1, <2>2
<1> QED
  BY <1>1, <1>2, <1>3, <1>4, <1>5, <1>6, <1>7 DEF Groups!Next

----------------------------------------------------------------------------
(* The rows of the sidebar                                                  *)

(* A list of threads, the last touched first, with each of the set once.    *)
Lists(ts, s, S) ==
    /\ s \in Seq(S) /\ \A t \in S : \E i \in DOMAIN s : s[i] = t
    /\ \A i, j \in DOMAIN s : s[i] = s[j] => i = j
    /\ \A i, j \in DOMAIN s : i < j => ts[s[i]].at >= ts[s[j]].at

(* Of finitely many threads one was touched last: a set with none would     *)
(* have to be larger than one of its parts with none.                       *)
LEMMA LastTouched ==
    ASSUME NEW ts, NEW S \in SUBSET Ids, S # {}, \A t \in S : ts[t].at \in Int
    PROVE  \E t \in S : \A u \in S : ts[t].at >= ts[u].at
<1> DEFINE R == StrictSubsetOrdering(Ids)
           Bad == {T \in SUBSET S : T # {} /\ ~\E t \in T : \A u \in T : ts[t].at >= ts[u].at}
<1>1. IsWellFoundedOn(R, SUBSET Ids)
  BY TimeAssumption, FS_StrictSubsetOrderingWellFounded, FS_FiniteSubsetsOfFinite
<1>2. \A T, U \in SUBSET Ids : T \subseteq U /\ T # U => <<T, U>> \in R
  BY DEF StrictSubsetOrdering
<1> HIDE DEF R
<1>3. SUFFICES ASSUME Bad # {} PROVE FALSE
  OBVIOUS
<1>4. Bad \subseteq SUBSET Ids
  OBVIOUS
<1>5. PICK T \in Bad : \A U \in Bad : ~(<<U, T>> \in R)
  <2> HIDE DEF Bad
  <2> QED
    BY <1>1, <1>3, <1>4, WFMin
<1>6. PICK t \in T : TRUE
  OBVIOUS
<1>7. PICK u \in T : ~(ts[t].at >= ts[u].at)
  BY <1>6
<1>8. T \ {t} \in SUBSET Ids /\ T \ {t} # T /\ T \in SUBSET Ids /\ T \ {t} \in SUBSET S /\ T \in SUBSET S
  BY <1>6
<1>9. T \ {t} \notin Bad
  BY <1>2, <1>5, <1>8
<1>10. u \in T \ {t}
  BY <1>7, <1>8
<1>11. PICK v \in T \ {t} : \A w \in T \ {t} : ts[v].at >= ts[w].at
  BY <1>8, <1>9, <1>10
<1>12. ts[v].at \in Int /\ ts[u].at \in Int /\ ts[t].at \in Int
  BY <1>6, <1>8, <1>10, <1>11
<1>13. ts[v].at >= ts[t].at
  BY <1>7, <1>10, <1>11, <1>12
<1> QED
  BY <1>11, <1>13, <1>8

(* So every set of threads has such a list.                                 *)
LEMMA ListThereIs ==
    ASSUME NEW ts, NEW S \in SUBSET Ids, \A t \in S : ts[t].at \in Int
    PROVE  \E s : Lists(ts, s, S)
<1> DEFINE R == StrictSubsetOrdering(Ids)
           Bad == {T \in SUBSET S : ~\E s : Lists(ts, s, T)}
<1>1. IsWellFoundedOn(R, SUBSET Ids)
  BY TimeAssumption, FS_StrictSubsetOrderingWellFounded, FS_FiniteSubsetsOfFinite
<1>2. \A T, U \in SUBSET Ids : T \subseteq U /\ T # U => <<T, U>> \in R
  BY DEF StrictSubsetOrdering
<1> HIDE DEF R
<1>3. SUFFICES ASSUME Bad # {} PROVE FALSE
  OBVIOUS
<1>4. Bad \subseteq SUBSET Ids
  OBVIOUS
<1>5. PICK T \in Bad : \A U \in Bad : ~(<<U, T>> \in R)
  BY <1>1, <1>3, <1>4, WFMin
<1>6. T # {}
  <2>1. Lists(ts, <<>>, {})
    BY DEF Lists
  <2> QED
    BY <2>1
<1>7. T \in SUBSET S /\ T \in SUBSET Ids
  OBVIOUS
<1>8. PICK t \in T : \A u \in T : ts[t].at >= ts[u].at
  BY <1>6, <1>7, LastTouched
<1>9. T \ {t} \notin Bad
  <2>1. T \ {t} \in SUBSET Ids /\ T \ {t} \subseteq T /\ T \ {t} # T
    BY <1>7, <1>8
  <2> QED
    BY <1>2, <1>5, <1>7, <2>1
<1>10. PICK s : Lists(ts, s, T \ {t})
  BY <1>7, <1>9
<1>11. Lists(ts, <<t>> \o s, T)
  <2> DEFINE r == <<t>> \o s
  <2>1. s \in Seq(T \ {t}) /\ s \in Seq(T) /\ Len(s) \in Nat
    BY <1>10 DEF Lists
  <2>2. r \in Seq(T) /\ Len(r) = Len(s) + 1 /\ r[1] = t /\ \A i \in DOMAIN s : r[i + 1] = s[i]
    BY <1>8, <2>1
  <2>3. DOMAIN r = 1..(Len(s) + 1) /\ DOMAIN s = 1..Len(s)
    BY <2>1, <2>2
  <2> HIDE DEF r
  <2>4. \A i \in DOMAIN r : i # 1 => i - 1 \in DOMAIN s /\ r[i] = s[i - 1]
    BY <2>1, <2>2, <2>3
  <2>5. \A i \in DOMAIN s : s[i] \in T /\ s[i] # t
    BY <2>1
  <2>6. \A u \in T : \E i \in DOMAIN r : r[i] = u
    <3> SUFFICES ASSUME NEW u \in T PROVE \E i \in DOMAIN r : r[i] = u
      OBVIOUS
    <3>1. CASE u = t
      BY <2>1, <2>2, <2>3, <3>1
    <3>2. CASE u # t
      <4>1. PICK i \in DOMAIN s : s[i] = u
        BY <1>10, <3>2 DEF Lists
      <4>2. i + 1 \in DOMAIN r
        BY <2>1, <2>3
      <4> QED
        BY <2>2, <4>1, <4>2
    <3> QED
      BY <3>1, <3>2
  <2>7. \A i, j \in DOMAIN r : r[i] = r[j] => i = j
    <3> SUFFICES ASSUME NEW i \in DOMAIN r, NEW j \in DOMAIN r, r[i] = r[j] PROVE i = j
      OBVIOUS
    <3>1. CASE i = 1 \/ j = 1
      BY <2>2, <2>4, <2>5, <3>1
    <3>2. CASE i # 1 /\ j # 1
      <4>1. i - 1 \in DOMAIN s /\ j - 1 \in DOMAIN s /\ s[i - 1] = s[j - 1]
        BY <2>4, <3>2
      <4>2. i - 1 = j - 1
        BY <1>10, <4>1 DEF Lists
      <4> QED
        BY <2>1, <2>3, <4>2
    <3> QED
      BY <3>1, <3>2
  <2>8. \A i, j \in DOMAIN r : i < j => ts[r[i]].at >= ts[r[j]].at
    <3> SUFFICES ASSUME NEW i \in DOMAIN r, NEW j \in DOMAIN r, i < j PROVE ts[r[i]].at >= ts[r[j]].at
      OBVIOUS
    <3>1. j # 1 /\ i \in Int /\ j \in Int
      BY <2>1, <2>3
    <3>2. r[j] \in T
      BY <2>4, <2>5, <3>1
    <3>3. CASE i = 1
      BY <1>8, <2>2, <3>2, <3>3
    <3>4. CASE i # 1
      <4>1. i - 1 \in DOMAIN s /\ j - 1 \in DOMAIN s /\ i - 1 < j - 1 /\ r[i] = s[i - 1] /\ r[j] = s[j - 1]
        BY <2>4, <3>1, <3>4
      <4> QED
        BY <1>10, <4>1 DEF Lists
    <3> QED
      BY <3>3, <3>4
  <2> QED
    BY <2>2, <2>6, <2>7, <2>8 DEF Lists, r
<1> QED
  BY <1>11

LEMMA SameCardinality == ASSUME NEW S PROVE Groups!Cardinality(S) = Cardinality(S)
BY DEF Groups!Cardinality, Cardinality

(* A group is such a list of its threads.                                   *)
LEMMA LatestLists ==
    ASSUME NEW ts, NEW S \in SUBSET Ids, \A t \in S : ts[t].at \in Int
    PROVE  Lists(ts, Groups!Latest(ts, S), S)
<1> DEFINE n == Cardinality(S)
           Sorted(s) == \A i, j \in DOMAIN s : i < j => ts[s[i]].at >= ts[s[j]].at
           Each(s) == \A i, j \in 1..n : i # j => s[i] # s[j]
           l == Groups!Latest(ts, S)
<1>1. IsFiniteSet(S) /\ n \in Nat
  BY TimeAssumption, FS_Subset, FS_CardinalityType
<1>2. PICK s : Lists(ts, s, S)
  BY ListThereIs
<1>3. s \in [1..n -> S] /\ Each(s)
  <2>1. Len(s) \in Nat /\ DOMAIN s = 1..Len(s) /\ s \in [1..Len(s) -> S]
    BY <1>2 DEF Lists
  <2>2. s \in Bijection(1..Len(s), S)
    BY <1>2, <2>1 DEF Lists, Bijection, Injection, Surjection, IsInjective
  <2>3. n = Len(s)
    BY <2>1, <2>2, FS_CountingElements DEF ExistsBijection
  <2> QED
    BY <1>2, <2>1, <2>3 DEF Lists
<1>4. s \in Groups!SetToSeqs(S) /\ Sorted(s)
  <2>1. Sorted(s)
    BY <1>2 DEF Lists
  <2> QED
    BY <1>3, <2>1, SameCardinality DEF Groups!SetToSeqs
<1>5. l \in Groups!SetToSeqs(S) /\ Sorted(l)
  BY <1>4 DEF Groups!Latest
<1>6. l \in [1..n -> S] /\ Each(l)
  BY <1>5, SameCardinality DEF Groups!SetToSeqs
<1> HIDE DEF n, l
<1>7. IsFiniteSet(1..n) /\ Cardinality(1..n) = Cardinality(S)
  BY <1>1, FS_Interval DEF n
<1>8. l \in Injection(1..n, S)
  BY <1>6 DEF Injection, IsInjective
<1>9. l \in Surjection(1..n, S)
  BY <1>1, <1>7, <1>8, FS_Injection
<1>10. l \in Seq(S)
  BY <1>1, <1>6
<1> QED
  BY <1>5, <1>6, <1>9, <1>10 DEF Lists, Surjection, l

(* Two lists of different threads, those of the first touched later, make   *)
(* one.                                                                     *)
LEMMA ListsJoin ==
    ASSUME NEW ts, NEW S, NEW T, NEW s, NEW r, Lists(ts, s, S), Lists(ts, r, T),
           S \cap T = {}, \A t \in S, u \in T : ts[t].at >= ts[u].at
    PROVE  Lists(ts, s \o r, S \cup T)
<1> DEFINE q == s \o r
<1>1. s \in Seq(S \cup T) /\ r \in Seq(S \cup T) /\ s \in Seq(S) /\ r \in Seq(T)
  BY DEF Lists
<1>2. Len(s) \in Nat /\ Len(r) \in Nat /\ DOMAIN s = 1..Len(s) /\ DOMAIN r = 1..Len(r)
  BY <1>1
<1>3. q \in Seq(S \cup T) /\ DOMAIN q = 1..(Len(s) + Len(r))
  BY <1>1, <1>2
<1>4. \A i \in DOMAIN s : i \in DOMAIN q /\ q[i] = s[i] /\ s[i] \in S
  BY <1>1, <1>2
<1>5. \A i \in DOMAIN r : Len(s) + i \in DOMAIN q /\ q[Len(s) + i] = r[i] /\ r[i] \in T
  BY <1>1, <1>2
<1> HIDE DEF q
<1>6. \A i \in DOMAIN q : i \in Int /\ (i \in DOMAIN s \/ (i > Len(s) /\ i - Len(s) \in DOMAIN r /\ q[i] = r[i - Len(s)]))
  BY <1>2, <1>3, <1>5
<1>7. \A t \in S \cup T : \E i \in DOMAIN q : q[i] = t
  BY <1>4, <1>5 DEF Lists
<1>8. \A i, j \in DOMAIN q : q[i] = q[j] => i = j
  <2> SUFFICES ASSUME NEW i \in DOMAIN q, NEW j \in DOMAIN q, q[i] = q[j] PROVE i = j
    OBVIOUS
  <2>1. CASE i \in DOMAIN s /\ j \in DOMAIN s
    BY <1>4, <2>1 DEF Lists
  <2>2. CASE i \notin DOMAIN s /\ j \notin DOMAIN s
    <3>1. i - Len(s) \in DOMAIN r /\ j - Len(s) \in DOMAIN r /\ r[i - Len(s)] = r[j - Len(s)]
      BY <1>6, <2>2
    <3>2. i - Len(s) = j - Len(s)
      BY <3>1 DEF Lists
    <3> QED
      BY <1>2, <1>6, <3>2
  <2>3. CASE (i \in DOMAIN s) # (j \in DOMAIN s)
    <3>1. (q[i] \in S /\ q[j] \in T) \/ (q[i] \in T /\ q[j] \in S)
      BY <1>4, <1>5, <1>6, <2>3
    <3> QED
      BY <3>1
  <2> QED
    BY <2>1, <2>2, <2>3
<1>9. \A i, j \in DOMAIN q : i < j => ts[q[i]].at >= ts[q[j]].at
  <2> SUFFICES ASSUME NEW i \in DOMAIN q, NEW j \in DOMAIN q, i < j PROVE ts[q[i]].at >= ts[q[j]].at
    OBVIOUS
  <2>1. CASE i \in DOMAIN s /\ j \in DOMAIN s
    BY <1>4, <2>1 DEF Lists
  <2>2. CASE i \notin DOMAIN s /\ j \notin DOMAIN s
    <3>1. i - Len(s) \in DOMAIN r /\ j - Len(s) \in DOMAIN r /\ q[i] = r[i - Len(s)] /\ q[j] = r[j - Len(s)]
      BY <1>6, <2>2
    <3>2. i - Len(s) < j - Len(s)
      BY <1>2, <1>6
    <3> QED
      BY <3>1, <3>2 DEF Lists
  <2>3. CASE i \in DOMAIN s /\ j \notin DOMAIN s
    BY <1>4, <1>5, <1>6, <2>3
  <2>4. CASE i \notin DOMAIN s /\ j \in DOMAIN s
    BY <1>2, <1>6, <2>4
  <2> QED
    BY <2>1, <2>2, <2>3, <2>4
<1> QED
  BY <1>3, <1>7, <1>8, <1>9 DEF Lists, q

(* The four groups divide the threads of the scope among themselves.        *)
LEMMA GroupsListAll ==
    ASSUME Groups!TypeOK
    PROVE  Groups!GroupsComplete
<1> DEFINE V == Groups!visibleThreads(threads)
           Of(g) == {t \in V : Groups!GroupOf(threads[t].at) = g}
           G(g) == Groups!groupThreads(threads)[g]
<1>1. V \in SUBSET Ids /\ \A t \in V : threads[t].at \in Int
  <2>1. V \in SUBSET Ids /\ \A t \in V : threads[t].inScope /\ threads[t] \in Groups!Entries
    BY DEF Groups!TypeOK, Groups!visibleThreads
  <2>2. \A e \in Groups!Entries : e.at \in Int
    <3>1. Groups!Gone.at \in Int
      BY DEF Groups!Gone
    <3>2. \A e \in [at : 0..Now, inScope : {TRUE}] : e.at \in Int
      BY TimeAssumption
    <3> QED
      BY <3>1, <3>2 DEF Groups!Entries
  <2> QED
    BY <2>1, <2>2
<1>2. \A g \in {"today", "last7", "last30", "older"} : Of(g) \in SUBSET Ids /\ \A t \in Of(g) : threads[t].at \in Int
  BY <1>1
<1>3. \A g \in {"today", "last7", "last30", "older"} : G(g) = Groups!Latest(threads, Of(g))
  BY DEF Groups!groupThreads, Groups!ToSet, Groups!Groups
<1>4. \A g \in {"today", "last7", "last30", "older"} : Lists(threads, G(g), Of(g))
  BY <1>2, <1>3, LatestLists
<1>5. Groups!Rows(threads, {}) = G("today") \o G("last7") \o G("last30") \o G("older")
  BY DEF Groups!Rows, Groups!RowsOf
<1> HIDE DEF V, G
<1>6. \A t \in V : Groups!GroupOf(threads[t].at) \in {"today", "last7", "last30", "older"}
  BY DEF Groups!GroupOf
<1>7. /\ \A t \in Of("today"), u \in Of("last7") : threads[t].at >= threads[u].at
      /\ \A t \in Of("today") \cup Of("last7"), u \in Of("last30") : threads[t].at >= threads[u].at
      /\ \A t \in Of("today") \cup Of("last7") \cup Of("last30"), u \in Of("older") : threads[t].at >= threads[u].at
  BY <1>1, TimeAssumption DEF Groups!GroupOf
<1>8. Lists(threads, G("today") \o G("last7"), Of("today") \cup Of("last7"))
  BY <1>4, <1>7, ListsJoin
<1>9. Lists(threads, G("today") \o G("last7") \o G("last30"), Of("today") \cup Of("last7") \cup Of("last30"))
  BY <1>4, <1>7, <1>8, ListsJoin
<1>10. Lists(threads, G("today") \o G("last7") \o G("last30") \o G("older"),
             Of("today") \cup Of("last7") \cup Of("last30") \cup Of("older"))
  BY <1>4, <1>7, <1>9, ListsJoin
<1>11. V = Of("today") \cup Of("last7") \cup Of("last30") \cup Of("older")
  BY <1>6
<1>12. Lists(threads, Groups!Rows(threads, {}), V)
  BY <1>5, <1>10, <1>11
<1> QED
  BY <1>12 DEF V, Lists, Groups!GroupsComplete, Groups!ToSet, Groups!IsInjective

(* For all threads and times: unfolding every group shows each thread of    *)
(* the scope exactly once, the last one touched first, and as long as its   *)
(* row is not moved by a refetch, a thread is not deleted twice at a time.  *)
THEOREM RowsAlwaysComplete == Spec => []RowsComplete
<1> DEFINE I == focus = "groups" => Groups!Inv
<1>1. Init => I
  BY GroupsInit DEF Init
<1>2. I /\ [Next]_vars => I'
  BY OnePart, GroupsStep
<1>3. I => RowsComplete
  BY GroupsListAll DEF RowsComplete, Groups!Inv, Groups!TypeOK, Groups!RequestsKnown, Groups!DeletedOnce
<1> QED
  BY <1>1, <1>2, <1>3, PTL DEF Spec

----------------------------------------------------------------------------
(* Sidebar and home page                                                    *)

(* The invariant of the workspaces holds at first.                          *)
LEMMA SpaceInit == Space!Init => Space!Inv
<1> SUFFICES ASSUME Space!Init PROVE Space!Inv
  OBVIOUS
<1>1. Space!TypeOK
  BY BoundAssumption DEF Space!Init, Space!TypeOK, Space!pages, Space!form, Space!NoSpace, Space!Off
<1>2. Space!ScopesAgree
  BY BoundAssumption DEF Space!Init, Space!ScopesAgree, Space!TypeOK, Space!pages, Space!form,
      Space!NoSpace, Space!Off
<1>3. Space!RunsWellFormed
  BY BoundAssumption DEF Space!Init, Space!RunsWellFormed, Space!TypeOK, Space!pages, Space!form,
      Space!NoSpace
<1> QED
  BY <1>1, <1>2, <1>3 DEF Space!Inv

(* Every action of the workspaces keeps its invariant.                      *)
LEMMA SpaceStep ==
    ASSUME Space!Inv, [Space!Next]_spaceVars
    PROVE  Space!Inv'
<1> USE BoundAssumption DEF Space!Inv, Space!Click
<1>1. ASSUME NEW w \in Tabs, Space!clearWorkspaceSelection(w)
      PROVE  Space!Inv'
  <2>1. Space!TypeOK'
    BY <1>1 DEF Space!clearWorkspaceSelection, Space!ChatScope, Space!Choose, Space!Mounting,
        Space!TypeOK, Space!pages, Space!form, Space!NoSpace, Space!Off
  <2>2. Space!ScopesAgree'
    BY <1>1 DEF Space!clearWorkspaceSelection, Space!ChatScope, Space!Choose, Space!Mounting,
        Space!ScopesAgree, Space!TypeOK, Space!pages, Space!form, Space!NoSpace, Space!Off
  <2>3. Space!RunsWellFormed'
    BY <1>1 DEF Space!clearWorkspaceSelection, Space!ChatScope, Space!Choose, Space!Mounting,
        Space!RunsWellFormed, Space!TypeOK, Space!pages, Space!form, Space!NoSpace
  <2> QED
    BY <2>1, <2>2, <2>3
<1>2. ASSUME NEW w \in Tabs, Space!syncSelectedWorkspace(w)
      PROVE  Space!Inv'
  <2>1. Space!TypeOK'
    BY <1>2 DEF Space!syncSelectedWorkspace, Space!TypeOK, Space!pages, Space!form, Space!NoSpace,
        Space!Off
  <2>2. Space!ScopesAgree'
    BY <1>2 DEF Space!syncSelectedWorkspace, Space!ScopesAgree, Space!TypeOK, Space!pages,
        Space!form, Space!NoSpace, Space!Off
  <2>3. Space!RunsWellFormed'
    BY <1>2 DEF Space!syncSelectedWorkspace, Space!RunsWellFormed, Space!TypeOK, Space!pages,
        Space!form, Space!NoSpace
  <2> QED
    BY <2>1, <2>2, <2>3
<1>3. ASSUME NEW w \in Tabs, Space!OpenThread(w)
      PROVE  Space!Inv'
  <2>1. Space!TypeOK'
    BY <1>3 DEF Space!OpenThread, Space!TypeOK, Space!pages, Space!form, Space!NoSpace, Space!Off
  <2>2. Space!ScopesAgree'
    BY <1>3 DEF Space!OpenThread, Space!ScopesAgree, Space!TypeOK, Space!pages, Space!form,
        Space!NoSpace, Space!Off
  <2>3. Space!RunsWellFormed'
    BY <1>3 DEF Space!OpenThread, Space!RunsWellFormed, Space!TypeOK, Space!pages, Space!form,
        Space!NoSpace
  <2> QED
    BY <2>1, <2>2, <2>3
<1>4. ASSUME NEW w \in Tabs, Space!BackHome(w)
      PROVE  Space!Inv'
  <2>1. Space!TypeOK'
    BY <1>4 DEF Space!BackHome, Space!Mounting, Space!TypeOK, Space!pages, Space!form, Space!NoSpace,
        Space!Off
  <2>2. Space!ScopesAgree'
    BY <1>4 DEF Space!BackHome, Space!Mounting, Space!ScopesAgree, Space!TypeOK, Space!pages,
        Space!form, Space!NoSpace, Space!Off
  <2>3. Space!RunsWellFormed'
    BY <1>4 DEF Space!BackHome, Space!Mounting, Space!RunsWellFormed, Space!TypeOK, Space!pages,
        Space!form, Space!NoSpace
  <2> QED
    BY <2>1, <2>2, <2>3
<1>5. ASSUME NEW w \in Tabs, Space!useWorkspaces(w)
      PROVE  Space!Inv'
  <2>1. Space!TypeOK'
    BY <1>5 DEF Space!useWorkspaces, Space!TypeOK, Space!pages, Space!form, Space!NoSpace, Space!Off
  <2>2. Space!ScopesAgree'
    BY <1>5 DEF Space!useWorkspaces, Space!ScopesAgree, Space!TypeOK, Space!pages, Space!form,
        Space!NoSpace, Space!Off
  <2>3. Space!RunsWellFormed'
    BY <1>5 DEF Space!useWorkspaces, Space!RunsWellFormed, Space!TypeOK, Space!pages, Space!form,
        Space!NoSpace
  <2> QED
    BY <2>1, <2>2, <2>3
<1>6. ASSUME NEW w \in Tabs, Space!onPickWorkspace(w)
      PROVE  Space!Inv'
  <2>1. Space!TypeOK'
    BY <1>6 DEF Space!onPickWorkspace, Space!TypeOK, Space!pages, Space!form, Space!NoSpace,
        Space!Off
  <2>2. Space!ScopesAgree'
    BY <1>6 DEF Space!onPickWorkspace, Space!ScopesAgree, Space!TypeOK, Space!pages, Space!form,
        Space!NoSpace, Space!Off
  <2>3. Space!RunsWellFormed'
    BY <1>6 DEF Space!onPickWorkspace, Space!RunsWellFormed, Space!TypeOK, Space!pages, Space!form,
        Space!NoSpace
  <2> QED
    BY <2>1, <2>2, <2>3
<1>7. ASSUME NEW w \in Tabs, Space!PickFails(w)
      PROVE  Space!Inv'
  <2>1. Space!TypeOK'
    BY <1>7 DEF Space!PickFails, Space!TypeOK, Space!pages, Space!form, Space!NoSpace, Space!Off
  <2>2. Space!ScopesAgree'
    BY <1>7 DEF Space!PickFails, Space!ScopesAgree, Space!TypeOK, Space!pages, Space!form,
        Space!NoSpace, Space!Off
  <2>3. Space!RunsWellFormed'
    BY <1>7 DEF Space!PickFails, Space!RunsWellFormed, Space!TypeOK, Space!pages, Space!form,
        Space!NoSpace
  <2> QED
    BY <2>1, <2>2, <2>3
<1>8. ASSUME NEW w \in Tabs, Space!handleSubmit(w)
      PROVE  Space!Inv'
  <2>1. Space!TypeOK'
    BY <1>8 DEF Space!handleSubmit, Space!TypeOK, Space!pages, Space!form, Space!NoSpace, Space!Off
  <2>2. Space!ScopesAgree'
    BY <1>8 DEF Space!handleSubmit, Space!ScopesAgree, Space!TypeOK, Space!pages, Space!form,
        Space!NoSpace, Space!Off
  <2>3. Space!RunsWellFormed'
    <3>1. Space!selectedWorkspace(w) = Space!NoSpace \/ AllowNonAzure \/ Space!selectedWorkspace(w) \in AzureSpaces
          \/ Space!workspaceNotAzure(w)
      BY DEF Space!workspaceNotAzure, Space!isAzureRemote
    <3>2. started' = started \/ (~Space!workspaceNotAzure(w) /\ started' = started \cup {Space!configurable(w)})
      <4>1. CASE Space!workspaceNotAzure(w)
        BY <1>8, <4>1 DEF Space!handleSubmit
      <4>2. CASE ~Space!workspaceNotAzure(w)
        BY <1>8, <4>2 DEF Space!handleSubmit
      <4> QED
        BY <4>1, <4>2
    <3> DEFINE run == Space!configurable(w)
    <3>3. /\ run.space # Space!NoSpace => ~run.repo /\ run.none /\ run.base = baseMode[w]
          /\ run.space = Space!selectedWorkspace(w)
          /\ run.repo => ~run.none
      BY DEF Space!configurable, Space!repo
    <3>4. baseMode[w] # "unset"
      BY DEF Space!TypeOK
    <3> HIDE DEF run
    <3> QED
      BY <3>1, <3>2, <3>3, <3>4 DEF Space!RunsWellFormed, run
  <2> QED
    BY <2>1, <2>2, <2>3
<1>9. ASSUME NEW w \in Tabs, Space!Minted(w)
      PROVE  Space!Inv'
  <2>1. Space!TypeOK'
    BY <1>9 DEF Space!Minted, Space!TypeOK, Space!pages, Space!form, Space!NoSpace, Space!Off
  <2>2. Space!ScopesAgree'
    BY <1>9 DEF Space!Minted, Space!ScopesAgree, Space!TypeOK, Space!pages, Space!form,
        Space!NoSpace, Space!Off
  <2>3. Space!RunsWellFormed'
    BY <1>9 DEF Space!Minted, Space!RunsWellFormed, Space!TypeOK, Space!pages, Space!form,
        Space!NoSpace
  <2> QED
    BY <2>1, <2>2, <2>3
<1>10. ASSUME NEW w \in Tabs, Space!SubmitFails(w)
       PROVE  Space!Inv'
  <2>1. Space!TypeOK'
    BY <1>10 DEF Space!SubmitFails, Space!TypeOK, Space!pages, Space!form, Space!NoSpace, Space!Off
  <2>2. Space!ScopesAgree'
    BY <1>10 DEF Space!SubmitFails, Space!ScopesAgree, Space!TypeOK, Space!pages, Space!form,
        Space!NoSpace, Space!Off
  <2>3. Space!RunsWellFormed'
    BY <1>10 DEF Space!SubmitFails, Space!RunsWellFormed, Space!TypeOK, Space!pages, Space!form,
        Space!NoSpace
  <2> QED
    BY <2>1, <2>2, <2>3
<1>11. ASSUME NEW w \in Tabs, NEW s \in Spaces, Space!SelectWorkspace(w, s)
       PROVE  Space!Inv'
  <2>1. Space!TypeOK'
    BY <1>11 DEF Space!SelectWorkspace, Space!Choose, Space!Mounting, Space!TypeOK, Space!pages,
        Space!form, Space!NoSpace, Space!Off
  <2>2. Space!ScopesAgree'
    BY <1>11 DEF Space!SelectWorkspace, Space!Choose, Space!Mounting, Space!ScopesAgree,
        Space!TypeOK, Space!pages, Space!form, Space!NoSpace, Space!Off
  <2>3. Space!RunsWellFormed'
    BY <1>11 DEF Space!SelectWorkspace, Space!Choose, Space!Mounting, Space!RunsWellFormed,
        Space!TypeOK, Space!pages, Space!form, Space!NoSpace
  <2> QED
    BY <2>1, <2>2, <2>3
<1>12. ASSUME NEW w \in Tabs, NEW s \in Spaces, Space!Picked(w, s)
       PROVE  Space!Inv'
  <2>1. Space!TypeOK'
    BY <1>12 DEF Space!Picked, Space!TypeOK, Space!pages, Space!form, Space!NoSpace, Space!Off
  <2>2. Space!ScopesAgree'
    BY <1>12 DEF Space!Picked, Space!ScopesAgree, Space!TypeOK, Space!pages, Space!form,
        Space!NoSpace, Space!Off
  <2>3. Space!RunsWellFormed'
    BY <1>12 DEF Space!Picked, Space!RunsWellFormed, Space!TypeOK, Space!pages, Space!form,
        Space!NoSpace
  <2> QED
    BY <2>1, <2>2, <2>3
<1>13. ASSUME NEW w \in Tabs, NEW r \in {"none", "repo"}, Space!SetRepo(w, r)
       PROVE  Space!Inv'
  <2>1. Space!TypeOK'
    BY <1>13 DEF Space!SetRepo, Space!TypeOK, Space!pages, Space!form, Space!NoSpace, Space!Off
  <2>2. Space!ScopesAgree'
    BY <1>13 DEF Space!SetRepo, Space!ScopesAgree, Space!TypeOK, Space!pages, Space!form,
        Space!NoSpace, Space!Off
  <2>3. Space!RunsWellFormed'
    BY <1>13 DEF Space!SetRepo, Space!RunsWellFormed, Space!TypeOK, Space!pages, Space!form,
        Space!NoSpace
  <2> QED
    BY <2>1, <2>2, <2>3
<1>14. ASSUME NEW w \in Tabs, NEW mode \in {"integration", "local_branch"}, Space!SetBaseMode(w, mode)
       PROVE  Space!Inv'
  <2>1. Space!TypeOK'
    BY <1>14 DEF Space!SetBaseMode, Space!TypeOK, Space!pages, Space!form, Space!NoSpace, Space!Off
  <2>2. Space!ScopesAgree'
    BY <1>14 DEF Space!SetBaseMode, Space!ScopesAgree, Space!TypeOK, Space!pages, Space!form,
        Space!NoSpace, Space!Off
  <2>3. Space!RunsWellFormed'
    BY <1>14 DEF Space!SetBaseMode, Space!RunsWellFormed, Space!TypeOK, Space!pages, Space!form,
        Space!NoSpace
  <2> QED
    BY <2>1, <2>2, <2>3
<1>15. CASE UNCHANGED spaceVars
  <2>1. Space!TypeOK'
    BY <1>15 DEF spaceVars, Space!TypeOK, Space!pages, Space!form, Space!NoSpace, Space!Off
  <2>2. Space!ScopesAgree'
    BY <1>15 DEF spaceVars, Space!ScopesAgree, Space!TypeOK, Space!pages, Space!form, Space!NoSpace,
        Space!Off
  <2>3. Space!RunsWellFormed'
    BY <1>15 DEF spaceVars, Space!RunsWellFormed, Space!TypeOK, Space!pages, Space!form,
        Space!NoSpace
  <2> QED
    BY <2>1, <2>2, <2>3
<1> QED
  BY <1>1, <1>2, <1>3, <1>4, <1>5, <1>6, <1>7, <1>8, <1>9, <1>10, <1>11, <1>12, <1>13, <1>14, <1>15 DEF
      Space!Next

(* A run of the home page goes to the workspace that the page has chosen,   *)
(* when that is one it knows: which is the sidebar's, once both follow the  *)
(* stored choice.                                                           *)
LEMMA RunsFit ==
    ASSUME Space!TypeOK, Space!ScopesAgree
    PROVE  Space!RunFitsScope
<1> SUFFICES ASSUME NEW w \in Tabs, home[w] # Space!Off, w \notin notice,
                    home[w] \in Space!WorkspaceLinks(w) \cup {Space!NoSpace}
             PROVE  Space!configurable(w).space = side[w]
  BY DEF Space!RunFitsScope
<1>1. home[w] = side[w]
  BY DEF Space!ScopesAgree
<1>2. Space!configurable(w).space = home[w]
  BY DEF Space!configurable, Space!selectedWorkspace
<1> QED
  BY <1>1, <1>2

(* For all tabs and workspaces: once a tab has heard of every change, its   *)
(* sidebar and home page hold the stored choice, and runs are started for   *)
(* the workspace on display.                                                *)
THEOREM ScopeAlwaysKept == Spec => []ScopeKept
<1> DEFINE I == focus = "space" => Space!Inv
<1>1. Init => I
  BY SpaceInit DEF Init
<1>2. I /\ [Next]_vars => I'
  BY OnePart, SpaceStep
<1>3. I => ScopeKept
  <2> SUFFICES ASSUME focus = "space", Space!Inv PROVE Space!RunFitsScope
    BY DEF ScopeKept, Space!Inv
  <2> QED
    BY RunsFit DEF Space!Inv
<1> QED
  BY <1>1, <1>2, <1>3, PTL DEF Spec

----------------------------------------------------------------------------
(* The page of a thread                                                     *)

(* What the two effects leave: bubbles that go are in the transcript.       *)
LEMMA EffectsKeep ==
    ASSUME NEW t, NEW ms, NEW v, NEW bs, View!Effects(t, ms, v, bs)
    PROVE  /\ bubbles' \subseteq bs /\ view' \subseteq v
           /\ \A m \in bs : Text[m] # NoText => m \in bubbles' \/ Text[m] \in View!Texts(ms)
BY DEF View!Effects, View!Pruned, View!Uncommitted, View!Texts

(* A longer transcript has the texts of a shorter one.                      *)
LEMMA TextsGrow ==
    ASSUME NEW S, NEW T, S \subseteq T
    PROVE  View!Texts(S) \subseteq View!Texts(T)
BY DEF View!Texts

(* So directed messages stay bubbles until the transcript has them.         *)
LEMMA BubblesStay ==
    ASSUME View!Bubbled, NEW ms, NEW v, NEW bs, View!Effects(thread, ms, v, bs), bubbles \subseteq bs,
           committed'[thread] = ms, committed[thread] \subseteq ms, thread' = thread,
           \A m \in directed' \ rolledBack' : m \in directed \ rolledBack \/ Text[m] = NoText \/ m \in bs
    PROVE  View!Bubbled'
<1>1. /\ \A m \in bs : Text[m] # NoText => m \in bubbles' \/ Text[m] \in View!Texts(ms)
      /\ View!Texts(committed[thread]) \subseteq View!Texts(ms)
  BY EffectsKeep, TextsGrow
<1>2. View!Texts(ms) = View!Texts(committed'[thread'])
  OBVIOUS
<1> SUFFICES ASSUME NEW m \in directed' \ rolledBack', Text[m] # NoText
             PROVE  m \in bubbles' \/ Text[m] \in View!Texts(committed'[thread'])
  BY DEF View!Bubbled, View!Texts
<1>3. CASE m \in bs
  BY <1>1, <1>2, <1>3
<1>4. CASE m \notin bs
  <2>1. m \in directed \ rolledBack
    BY <1>4
  <2>2. Text[m] \in View!Texts(committed[thread])
    BY <1>4, <2>1 DEF View!Bubbled
  <2> QED
    BY <1>1, <1>2, <2>2
<1> QED
  BY <1>3, <1>4

(* A request of the page is one, and stays one while the thread is shown.   *)
LEMMA CallFits ==
    ASSUME View!TypeOK, NEW m \in Messages \cup {View!NoMsg},
           NEW k \in {"load", "refresh", "clear", "discard", "direct", "send"},
           k = "send" => m \in View!Own(thread)
    PROVE  View!RequestOK(View!Call(k, m))
BY DEF View!TypeOK, View!Call, View!RequestOK, View!Own

(* Requests stay ones when one is added or some go.                         *)
LEMMA CallsFit ==
    ASSUME View!Requested, thread' = thread, NEW c, View!RequestOK(c), calls' \subseteq calls \cup {c}
    PROVE  View!Requested'
BY DEF View!Requested, View!RequestOK

(* What the API does with a request: queues lose messages, or gain the one  *)
(* that was sent; transcripts grow; the request is answered with messages   *)
(* of its thread, and the page's copies change only by its effects.         *)
LEMMA ServeFacts ==
    ASSUME View!TypeOK, View!Queues, View!Requested, NEW c \in calls, View!Serve(c)
    PROVE  /\ View!Queues'
           /\ injecting' \subseteq Messages
           /\ View!Requested'
           /\ \/ UNCHANGED <<committed, view, bubbles>>
              \/ /\ c.thread # thread /\ UNCHANGED <<view, bubbles>>
                 /\ committed'[thread] = committed[thread]
              \/ /\ View!Effects(thread, committed'[thread], view, bubbles)
                 /\ committed[thread] \subseteq committed'[thread]
<1> DEFINE t == c.thread
           Answer(r, q) == [c EXCEPT !.done = TRUE, !.result = r, !.data = q]
           done(r, q) == calls' = (calls \ {c}) \cup {Answer(r, q)}
           Own(u) == View!Own(u)
<1>1. /\ View!RequestOK(c) /\ t \in ViewedThreads
      /\ c.kind = "send" => c.msg \in Own(t)
      /\ c.msg \in Messages \cup {View!NoMsg}
  BY DEF View!Requested, View!RequestOK
<1>2. \A q \in SUBSET Own(t), r \in {"ok", "queued", "started", "empty", "directed"} :
          View!RequestOK(Answer(r, q))
  BY <1>1 DEF View!RequestOK, View!Own
<1>3. thread' = thread
  BY DEF View!Serve
<1>4. \A q \in SUBSET Own(t), r \in {"ok", "queued", "started", "empty", "directed"} :
          done(r, q) => View!Requested'
  <2> SUFFICES ASSUME NEW q \in SUBSET Own(t), NEW r \in {"ok", "queued", "started", "empty", "directed"},
                      done(r, q)
               PROVE  View!Requested'
    OBVIOUS
  <2>1. calls' \subseteq calls \cup {Answer(r, q)}
    OBVIOUS
  <2>2. View!RequestOK(Answer(r, q))
    BY <1>2
  <2> HIDE DEF Answer
  <2> QED
    BY <1>3, <2>1, <2>2, CallsFit
<1> HIDE DEF Answer
<1>5. /\ queue[t] \in SUBSET Own(t) /\ {} \in SUBSET Own(t) /\ queue[t] \ {c.msg} \in SUBSET Own(t)
      /\ c.kind = "send" => queue[t] \cup {c.msg} \in SUBSET Own(t)
  BY <1>1 DEF View!Queues
<1>6. Own(t) \subseteq Messages
  BY DEF View!Own
<1>7. ASSUME NEW q \in SUBSET Own(t), queue' = [queue EXCEPT ![t] = q], UNCHANGED committed
      PROVE  View!Queues' /\ queue'[t] = q
  BY <1>1, <1>6, <1>7 DEF View!Queues
<1>8. UNCHANGED <<queue, committed>> => View!Queues'
  BY DEF View!Queues
<1> DEFINE Still == UNCHANGED <<committed, view, bubbles>>
<1>10. CASE c.kind \in {"load", "refresh"} /\ done("ok", queue[t]) /\ UNCHANGED <<View!server, View!local>>
  BY <1>4, <1>5, <1>8, <1>10 DEF View!server, View!local, View!TypeOK
<1>11. CASE /\ c.kind = "clear"
            /\ queue' = [queue EXCEPT ![t] = {}]
            /\ done("ok", {})
            /\ UNCHANGED <<committed, injecting, status, asked, lingering, View!local>>
  <2>1. View!Queues'
    BY <1>5, <1>7, <1>11
  <2>2. View!Requested'
    BY <1>4, <1>5, <1>11
  <2> QED
    BY <1>11, <2>1, <2>2 DEF View!local, View!TypeOK
<1>12. CASE /\ c.kind = "discard"
            /\ queue' = [queue EXCEPT ![t] = @ \ {c.msg}]
            /\ done("ok", queue'[t])
            /\ UNCHANGED <<committed, injecting, status, asked, lingering, View!local>>
  <2>1. View!Queues' /\ queue'[t] = queue[t] \ {c.msg}
    BY <1>5, <1>7, <1>12
  <2>2. View!Requested'
    BY <1>4, <1>5, <1>12, <2>1
  <2> QED
    BY <1>12, <2>1, <2>2 DEF View!local, View!TypeOK
<1>13. CASE /\ c.kind = "send" /\ status[t] = "running"
            /\ queue' = [queue EXCEPT ![t] = @ \cup {c.msg}]
            /\ done("queued", queue'[t])
            /\ UNCHANGED <<committed, injecting, status, asked, lingering, View!local>>
  <2>1. View!Queues' /\ queue'[t] = queue[t] \cup {c.msg}
    BY <1>5, <1>7, <1>13
  <2>2. View!Requested'
    BY <1>4, <1>5, <1>13, <2>1
  <2> QED
    BY <1>13, <2>1, <2>2 DEF View!local, View!TypeOK
<1>14. CASE /\ c.kind = "send" /\ status[t] # "running"
            /\ status' = [status EXCEPT ![t] = "running"]
            /\ committed' = [committed EXCEPT ![t] = @ \cup {c.msg}]
            /\ done("started", {})
            /\ IF t = thread THEN View!Effects(t, committed'[t], view, bubbles) ELSE UNCHANGED <<view, bubbles>>
            /\ UNCHANGED <<queue, injecting, asked, lingering, resolved, snapshot>>
  <2>1. c.msg \in Messages
    BY <1>1, <1>6, <1>14
  <2>2. View!Queues' /\ committed[thread] \subseteq committed'[thread]
        /\ (t # thread => committed'[thread] = committed[thread])
    BY <1>1, <1>14, <2>1 DEF View!Queues, View!TypeOK
  <2>3. View!Requested'
    BY <1>4, <1>5, <1>14
  <2>4. CASE t = thread
    BY <1>14, <2>2, <2>3, <2>4 DEF View!TypeOK
  <2>5. CASE t # thread
    BY <1>14, <2>2, <2>3, <2>5 DEF View!TypeOK
  <2> QED
    BY <2>4, <2>5
<1>15. CASE c.kind = "direct" /\ done("empty", queue[t]) /\ UNCHANGED <<View!server, View!local>>
  BY <1>4, <1>5, <1>8, <1>15 DEF View!server, View!local, View!TypeOK
<1>16. CASE /\ c.kind = "direct" /\ c.msg \in queue[t]
            /\ queue' = [queue EXCEPT ![t] = @ \ {c.msg}]
            /\ injecting' = injecting \cup {c.msg}
            /\ done("directed", queue'[t]) \/ done("started", queue'[t])
            /\ UNCHANGED <<committed, View!local>>
  <2>1. View!Queues' /\ queue'[t] = queue[t] \ {c.msg}
    BY <1>5, <1>7, <1>16
  <2>2. View!Requested'
    BY <1>4, <1>5, <1>16, <2>1
  <2>3. c.msg \in Messages
    BY <1>5, <1>6, <1>16
  <2> QED
    BY <1>16, <2>1, <2>2, <2>3 DEF View!local, View!TypeOK
<1> HIDE DEF done
<1> QED
  <2> USE DEF done, Answer
  <2> QED
    BY <1>10, <1>11, <1>12, <1>13, <1>14, <1>15, <1>16 DEF View!Serve

(* The invariant of the page of a thread holds at first.                    *)
LEMMA ViewInit == View!Init => View!Inv
<1> SUFFICES ASSUME View!Init PROVE View!Inv
  OBVIOUS
<1>1. View!TypeOK
  <2>1. resolved \in 0..2 /\ viewClicks \in 0..MaxClicks
    BY BoundAssumption DEF View!Init
  <2> QED
    BY <2>1, ViewAssumption DEF View!Init, View!TypeOK
<1>2. View!Queues
  BY BoundAssumption, ViewAssumption DEF View!Init, View!Queues, View!TypeOK, View!Own
<1>3. View!Requested
  BY BoundAssumption, ViewAssumption DEF View!Init, View!Requested, View!RequestOK
<1>4. View!QueueIsOwn
  BY BoundAssumption, ViewAssumption DEF View!Init, View!QueueIsOwn, View!TypeOK
<1>5. View!Bubbled
  BY BoundAssumption, ViewAssumption DEF View!Init, View!Bubbled
<1>6. View!Counted
  <2>1. 0 \in Nat /\ 0 \in 0..2
    OBVIOUS
  <2> QED
    BY <2>1 DEF View!Init, View!Counted
<1>7. View!Remembered
  BY BoundAssumption, ViewAssumption DEF View!Init, View!Remembered, View!TypeOK, View!Counted
<1> QED
  BY <1>1, <1>2, <1>3, <1>4, <1>5, <1>6, <1>7 DEF View!Inv

(* Every action of the page of a thread keeps its invariant.                *)
LEMMA ViewStep ==
    ASSUME View!Inv, [View!Next]_viewVars
    PROVE  View!Inv'
<1> USE BoundAssumption, ViewAssumption DEF View!Inv, View!Click, View!server, View!local, View!ghosts
<1>1. CASE View!handleClearQueuedFollowUps
  <2>1. View!TypeOK'
    BY <1>1 DEF View!handleClearQueuedFollowUps, View!Request, View!Call, View!TypeOK, View!Queues,
        View!Counted
  <2>2. View!Queues'
    BY <1>1 DEF View!handleClearQueuedFollowUps, View!Request, View!Call, View!Queues, View!TypeOK,
        View!Own
  <2>3. View!Requested'
    <3>1. calls' \subseteq calls \cup {View!Call("clear", View!NoMsg)} /\ thread' = thread
      BY <1>1 DEF View!handleClearQueuedFollowUps, View!Request
    <3>2. View!RequestOK(View!Call("clear", View!NoMsg))
      BY CallFits DEF View!NoMsg
    <3> QED
      BY <3>1, <3>2, CallsFit
  <2>4. View!QueueIsOwn'
    BY <1>1 DEF View!handleClearQueuedFollowUps, View!Request, View!Call, View!QueueIsOwn,
        View!TypeOK
  <2>5. View!Bubbled'
    BY <1>1 DEF View!handleClearQueuedFollowUps, View!Request, View!Call, View!Bubbled
  <2>6. View!Counted'
    BY <1>1 DEF View!handleClearQueuedFollowUps, View!Request, View!Call, View!Counted, View!TypeOK
  <2>7. View!Remembered'
    BY <1>1 DEF View!handleClearQueuedFollowUps, View!Request, View!Call, View!Remembered,
        View!TypeOK, View!Counted
  <2> QED
    BY <2>1, <2>2, <2>3, <2>4, <2>5, <2>6, <2>7
<1>2. CASE View!handleApproval
  <2>1. View!TypeOK'
    BY <1>2 DEF View!handleApproval, View!ApprovalCard, View!showApproval, View!TypeOK, View!Queues,
        View!Counted
  <2>2. View!Queues'
    BY <1>2 DEF View!handleApproval, View!ApprovalCard, View!showApproval, View!Queues, View!TypeOK,
        View!Own
  <2>3. View!Requested'
    BY <1>2 DEF View!handleApproval, View!ApprovalCard, View!showApproval, View!Requested,
        View!RequestOK
  <2>4. View!QueueIsOwn'
    BY <1>2 DEF View!handleApproval, View!ApprovalCard, View!showApproval, View!QueueIsOwn,
        View!TypeOK
  <2>5. View!Bubbled'
    BY <1>2 DEF View!handleApproval, View!ApprovalCard, View!showApproval, View!Bubbled
  <2>6. View!Counted'
    BY <1>2 DEF View!handleApproval, View!ApprovalCard, View!showApproval, View!Counted, View!TypeOK
  <2>7. View!Remembered'
    BY <1>2 DEF View!handleApproval, View!ApprovalCard, View!showApproval, View!Remembered,
        View!TypeOK, View!Counted
  <2> QED
    BY <2>1, <2>2, <2>3, <2>4, <2>5, <2>6, <2>7
<1>3. CASE View!handleRefreshChanges
  <2>1. View!TypeOK'
    BY <1>3 DEF View!handleRefreshChanges, View!RefreshButton, View!TypeOK, View!Queues, View!Counted
  <2>2. View!Queues'
    BY <1>3 DEF View!handleRefreshChanges, View!RefreshButton, View!Queues, View!TypeOK, View!Own
  <2>3. View!Requested'
    BY <1>3 DEF View!handleRefreshChanges, View!RefreshButton, View!Requested, View!RequestOK
  <2>4. View!QueueIsOwn'
    BY <1>3 DEF View!handleRefreshChanges, View!RefreshButton, View!QueueIsOwn, View!TypeOK
  <2>5. View!Bubbled'
    BY <1>3 DEF View!handleRefreshChanges, View!RefreshButton, View!Bubbled
  <2>6. View!Counted'
    BY <1>3 DEF View!handleRefreshChanges, View!RefreshButton, View!Counted, View!TypeOK
  <2>7. View!Remembered'
    BY <1>3 DEF View!handleRefreshChanges, View!RefreshButton, View!Remembered, View!TypeOK,
        View!Counted
  <2> QED
    BY <2>1, <2>2, <2>3, <2>4, <2>5, <2>6, <2>7
<1>4. ASSUME NEW ok \in BOOLEAN, View!Snapshot(ok)
      PROVE  View!Inv'
  <2>1. View!TypeOK'
    BY <1>4 DEF View!Snapshot, View!TypeOK, View!Queues, View!Counted
  <2>2. View!Queues'
    BY <1>4 DEF View!Snapshot, View!Queues, View!TypeOK, View!Own
  <2>3. View!Requested'
    BY <1>4 DEF View!Snapshot, View!Requested, View!RequestOK
  <2>4. View!QueueIsOwn'
    BY <1>4 DEF View!Snapshot, View!QueueIsOwn, View!TypeOK
  <2>5. View!Bubbled'
    BY <1>4 DEF View!Snapshot, View!Bubbled
  <2>6. View!Counted'
    BY <1>4 DEF View!Snapshot, View!Counted, View!TypeOK
  <2>7. View!Remembered'
    BY <1>4 DEF View!Snapshot, View!Remembered, View!TypeOK, View!Counted
  <2> QED
    BY <2>1, <2>2, <2>3, <2>4, <2>5, <2>6, <2>7
<1>5. ASSUME NEW t \in ViewedThreads, View!Open(t)
      PROVE  View!Inv'
  <2>1. View!TypeOK'
    BY <1>5 DEF View!Open, View!Call, View!Uncommitted, View!NoMsg, View!TypeOK, View!Queues,
        View!Counted
  <2>2. View!Queues'
    BY <1>5 DEF View!Open, View!Call, View!Uncommitted, View!NoMsg, View!Queues, View!TypeOK,
        View!Own
  <2>3. View!Requested'
    <3> SUFFICES ASSUME NEW d \in calls' PROVE View!RequestOK(d)'
      BY DEF View!Requested
    <3>1. CASE d \in calls /\ d.kind # "load"
      BY <3>1 DEF View!Requested, View!RequestOK
    <3>2. CASE d = [View!Call("load", View!NoMsg) EXCEPT !.thread = t]
      BY <1>5, <3>2 DEF View!Open, View!Call, View!RequestOK, View!NoMsg, View!Own
    <3> QED
      BY <1>5, <3>1, <3>2 DEF View!Open
  <2>4. View!QueueIsOwn'
    BY <1>5 DEF View!Open, View!Call, View!Uncommitted, View!NoMsg, View!QueueIsOwn, View!TypeOK
  <2>5. View!Bubbled'
    BY <1>5 DEF View!Open, View!Call, View!Uncommitted, View!NoMsg, View!Bubbled
  <2>6. View!Counted'
    BY <1>5 DEF View!Open, View!Call, View!Uncommitted, View!NoMsg, View!Counted, View!TypeOK
  <2>7. View!Remembered'
    BY <1>5 DEF View!Open, View!Call, View!Uncommitted, View!NoMsg, View!Remembered, View!TypeOK,
        View!Counted
  <2> QED
    BY <2>1, <2>2, <2>3, <2>4, <2>5, <2>6, <2>7
<1>6. ASSUME NEW t \in ViewedThreads, View!Pauses(t)
      PROVE  View!Inv'
  <2>1. View!TypeOK'
    BY <1>6 DEF View!Pauses, View!TypeOK, View!Queues, View!Counted
  <2>2. View!Queues'
    BY <1>6 DEF View!Pauses, View!Queues, View!TypeOK, View!Own
  <2>3. View!Requested'
    BY <1>6 DEF View!Pauses, View!Requested, View!RequestOK
  <2>4. View!QueueIsOwn'
    BY <1>6 DEF View!Pauses, View!QueueIsOwn, View!TypeOK
  <2>5. View!Bubbled'
    BY <1>6 DEF View!Pauses, View!Bubbled
  <2>6. View!Counted'
    BY <1>6 DEF View!Pauses, View!Counted, View!TypeOK
  <2>7. View!Remembered'
    BY <1>6 DEF View!Pauses, View!Remembered, View!TypeOK, View!Counted
  <2> QED
    BY <2>1, <2>2, <2>3, <2>4, <2>5, <2>6, <2>7
<1>7. ASSUME NEW t \in ViewedThreads, NEW how \in {"idle", "error"}, View!RunEnds(t, how)
      PROVE  View!Inv'
  <2>1. View!TypeOK'
    <3>1. bubbles' \subseteq bubbles /\ view' \subseteq view
      BY <1>7, EffectsKeep DEF View!RunEnds
    <3> QED
      BY <1>7, <3>1 DEF View!RunEnds, View!TypeOK
  <2>2. View!Queues'
    BY <1>7 DEF View!RunEnds, View!Queues, View!TypeOK, View!Own
  <2>3. View!Requested'
    BY <1>7 DEF View!RunEnds, View!Requested, View!RequestOK
  <2>4. View!QueueIsOwn'
    <3>1. view' \subseteq view
      BY <1>7, EffectsKeep DEF View!RunEnds
    <3> QED
      BY <1>7, <3>1 DEF View!RunEnds, View!QueueIsOwn
  <2>5. View!Bubbled'
    <3>1. CASE UNCHANGED <<committed, bubbles>>
      BY <1>7, <3>1 DEF View!RunEnds, View!Bubbled
    <3>2. CASE committed' = [committed EXCEPT ![t] = @ \cup queue[t]]
      <4>1. CASE t = thread
        <5>1. View!Effects(thread, committed'[thread], {}, bubbles) \/ UNCHANGED <<committed, bubbles>>
          BY <1>7, <4>1 DEF View!RunEnds
        <5>2. committed[thread] \subseteq committed'[thread]
          BY <3>2, <4>1 DEF View!Queues, View!TypeOK
        <5>3. UNCHANGED <<thread, directed, rolledBack>>
          BY <1>7 DEF View!RunEnds
        <5> QED
          BY <3>1, <5>1, <5>2, <5>3, BubblesStay
      <4>2. CASE t # thread
        BY <1>7, <3>2, <4>2 DEF View!RunEnds, View!Bubbled, View!Queues, View!TypeOK
      <4> QED
        BY <4>1, <4>2
    <3> QED
      BY <1>7, <3>1, <3>2 DEF View!RunEnds
  <2>6. View!Counted'
    BY <1>7 DEF View!RunEnds, View!Counted, View!TypeOK
  <2>7. View!Remembered'
    BY <1>7 DEF View!RunEnds, View!Remembered, View!TypeOK, View!Counted
  <2> QED
    BY <2>1, <2>2, <2>3, <2>4, <2>5, <2>6, <2>7
<1>8. ASSUME NEW m \in Messages, View!Send(m)
      PROVE  View!Inv'
  <2>1. View!TypeOK'
    BY <1>8 DEF View!Send, View!Call, View!TypeOK, View!Queues, View!Counted
  <2>2. View!Queues'
    BY <1>8 DEF View!Send, View!Call, View!Queues, View!TypeOK, View!Own
  <2>3. View!Requested'
    <3>1. calls' \subseteq calls \cup {View!Call("send", m)} /\ thread' = thread
      BY <1>8 DEF View!Send
    <3>2. View!RequestOK(View!Call("send", m))
      BY <1>8, CallFits DEF View!Own, View!Send
    <3> QED
      BY <3>1, <3>2, CallsFit
  <2>4. View!QueueIsOwn'
    BY <1>8 DEF View!Send, View!Call, View!QueueIsOwn, View!TypeOK
  <2>5. View!Bubbled'
    BY <1>8 DEF View!Send, View!Call, View!Bubbled
  <2>6. View!Counted'
    BY <1>8 DEF View!Send, View!Call, View!Counted, View!TypeOK
  <2>7. View!Remembered'
    BY <1>8 DEF View!Send, View!Call, View!Remembered, View!TypeOK, View!Counted
  <2> QED
    BY <2>1, <2>2, <2>3, <2>4, <2>5, <2>6, <2>7
<1>9. ASSUME NEW m \in Messages, View!handleRetry(m)
      PROVE  View!Inv'
  <2>1. View!TypeOK'
    BY <1>9 DEF View!handleRetry, View!Send, View!Call, View!TypeOK, View!Queues, View!Counted
  <2>2. View!Queues'
    BY <1>9 DEF View!handleRetry, View!Send, View!Call, View!Queues, View!TypeOK, View!Own
  <2>3. View!Requested'
    <3>1. calls' \subseteq calls \cup {View!Call("send", m)} /\ thread' = thread
      BY <1>9 DEF View!handleRetry, View!Send
    <3>2. View!RequestOK(View!Call("send", m))
      BY <1>9, CallFits DEF View!Own, View!handleRetry, View!Send
    <3> QED
      BY <3>1, <3>2, CallsFit
  <2>4. View!QueueIsOwn'
    BY <1>9 DEF View!handleRetry, View!Send, View!Call, View!QueueIsOwn, View!TypeOK
  <2>5. View!Bubbled'
    BY <1>9 DEF View!handleRetry, View!Send, View!Call, View!Bubbled
  <2>6. View!Counted'
    BY <1>9 DEF View!handleRetry, View!Send, View!Call, View!Counted, View!TypeOK
  <2>7. View!Remembered'
    BY <1>9 DEF View!handleRetry, View!Send, View!Call, View!Remembered, View!TypeOK, View!Counted
  <2> QED
    BY <2>1, <2>2, <2>3, <2>4, <2>5, <2>6, <2>7
<1>10. ASSUME NEW m \in Messages, View!handleDiscardQueuedFollowUp(m)
       PROVE  View!Inv'
  <2>1. View!TypeOK'
    BY <1>10 DEF View!handleDiscardQueuedFollowUp, View!Request, View!Call, View!TypeOK, View!Queues,
        View!Counted
  <2>2. View!Queues'
    BY <1>10 DEF View!handleDiscardQueuedFollowUp, View!Request, View!Call, View!Queues, View!TypeOK,
        View!Own
  <2>3. View!Requested'
    <3>1. calls' \subseteq calls \cup {View!Call("discard", m)} /\ thread' = thread
      BY <1>10 DEF View!handleDiscardQueuedFollowUp, View!Request
    <3>2. View!RequestOK(View!Call("discard", m))
      BY CallFits DEF View!Own
    <3> QED
      BY <3>1, <3>2, CallsFit
  <2>4. View!QueueIsOwn'
    BY <1>10 DEF View!handleDiscardQueuedFollowUp, View!Request, View!Call, View!QueueIsOwn,
        View!TypeOK
  <2>5. View!Bubbled'
    BY <1>10 DEF View!handleDiscardQueuedFollowUp, View!Request, View!Call, View!Bubbled
  <2>6. View!Counted'
    BY <1>10 DEF View!handleDiscardQueuedFollowUp, View!Request, View!Call, View!Counted, View!TypeOK
  <2>7. View!Remembered'
    BY <1>10 DEF View!handleDiscardQueuedFollowUp, View!Request, View!Call, View!Remembered,
        View!TypeOK, View!Counted
  <2> QED
    BY <2>1, <2>2, <2>3, <2>4, <2>5, <2>6, <2>7
<1>11. ASSUME NEW m \in Messages, View!handleDirectQueuedFollowUp(m)
       PROVE  View!Inv'
  <2>1. View!TypeOK'
    <3> DEFINE bs == IF Text[m] = NoText THEN bubbles ELSE bubbles \cup {m}
    <3>1. bubbles' \subseteq bs /\ view' \subseteq view
      BY <1>11, EffectsKeep DEF View!handleDirectQueuedFollowUp
    <3>2. \A c \in calls' : c.kind \in {"load", "refresh", "clear", "discard", "direct", "send"}
      BY <1>11 DEF View!handleDirectQueuedFollowUp, View!Request, View!Call, View!TypeOK
    <3> QED
      BY <1>11, <3>1, <3>2 DEF View!handleDirectQueuedFollowUp, View!TypeOK
  <2>2. View!Queues'
    BY <1>11 DEF View!handleDirectQueuedFollowUp, View!Request, View!Call, View!Queues, View!TypeOK,
        View!Own
  <2>3. View!Requested'
    <3>1. calls' \subseteq calls \cup {View!Call("direct", m)} /\ thread' = thread
      BY <1>11 DEF View!handleDirectQueuedFollowUp, View!Request
    <3>2. View!RequestOK(View!Call("direct", m))
      BY CallFits DEF View!Own
    <3> QED
      BY <3>1, <3>2, CallsFit
  <2>4. View!QueueIsOwn'
    <3>1. view' \subseteq view
      BY <1>11, EffectsKeep DEF View!handleDirectQueuedFollowUp
    <3> QED
      BY <1>11, <3>1 DEF View!handleDirectQueuedFollowUp, View!QueueIsOwn
  <2>5. View!Bubbled'
    <3> DEFINE bs == IF Text[m] = NoText THEN bubbles ELSE bubbles \cup {m}
    <3>1. View!Effects(thread, committed[thread], view, bs) /\ UNCHANGED <<committed, thread>>
          /\ directed' = directed \cup {m} /\ rolledBack' = rolledBack \ {m}
      BY <1>11 DEF View!handleDirectQueuedFollowUp
    <3>2. bubbles \subseteq bs /\ (Text[m] = NoText \/ m \in bs)
      OBVIOUS
    <3> HIDE DEF bs
    <3> QED
      BY <3>1, <3>2, BubblesStay
  <2>6. View!Counted'
    BY <1>11 DEF View!handleDirectQueuedFollowUp, View!Request, View!Call, View!Counted, View!TypeOK
  <2>7. View!Remembered'
    BY <1>11 DEF View!handleDirectQueuedFollowUp, View!Request, View!Call, View!Remembered,
        View!TypeOK, View!Counted
  <2> QED
    BY <2>1, <2>2, <2>3, <2>4, <2>5, <2>6, <2>7
<1>12. ASSUME NEW m \in Messages, View!Take(m)
       PROVE  View!Inv'
  <2>1. View!TypeOK'
    <3>1. bubbles' \subseteq bubbles /\ view' \subseteq view
      BY <1>12, EffectsKeep DEF View!Take
    <3> QED
      BY <1>12, <3>1 DEF View!Take, View!TypeOK, View!Queues
  <2>2. View!Queues'
    BY <1>12 DEF View!Take, View!Queues, View!TypeOK, View!Own
  <2>3. View!Requested'
    BY <1>12 DEF View!Take, View!Requested, View!RequestOK
  <2>4. View!QueueIsOwn'
    <3>1. view' \subseteq view
      BY <1>12, EffectsKeep DEF View!Take
    <3> QED
      BY <1>12, <3>1 DEF View!Take, View!QueueIsOwn
  <2>5. View!Bubbled'
    <3> DEFINE t == ThreadOf[m]
    <3>1. committed' = [committed EXCEPT ![t] = @ \cup {m}] /\ UNCHANGED <<thread, directed, rolledBack>>
      BY <1>12 DEF View!Take
    <3>2. CASE t = thread
      <4>1. View!Effects(thread, committed'[thread], view, bubbles)
        BY <1>12, <3>2 DEF View!Take
      <4>2. committed[thread] \subseteq committed'[thread]
        BY <3>1, <3>2 DEF View!Queues, View!TypeOK
      <4> QED
        BY <3>1, <4>1, <4>2, BubblesStay
    <3>3. CASE t # thread
      <4>1. committed'[thread] = committed[thread] /\ bubbles' = bubbles
        BY <1>12, <3>1, <3>3 DEF View!Take, View!Queues, View!TypeOK
      <4> QED
        BY <3>1, <4>1 DEF View!Bubbled
    <3> QED
      BY <3>2, <3>3
  <2>6. View!Counted'
    BY <1>12 DEF View!Take, View!Counted, View!TypeOK
  <2>7. View!Remembered'
    BY <1>12 DEF View!Take, View!Remembered, View!TypeOK, View!Counted
  <2> QED
    BY <2>1, <2>2, <2>3, <2>4, <2>5, <2>6, <2>7
<1>13. ASSUME NEW c \in calls, View!Serve(c)
       PROVE  View!Inv'
  <2>1. View!TypeOK'
    <3>1. View!Queues' /\ injecting' \subseteq Messages /\ View!Requested'
      BY <1>13, ServeFacts
    <3>2. view' \subseteq view /\ bubbles' \subseteq bubbles
      BY <1>13, ServeFacts, EffectsKeep
    <3>3. UNCHANGED <<thread, resolved, snapshot, sending, viewClicks>>
      BY <1>13 DEF View!Serve
    <3> QED
      BY <3>1, <3>2, <3>3 DEF View!TypeOK, View!Queues, View!Requested, View!RequestOK
  <2>2. View!Queues'
    BY <1>13, ServeFacts
  <2>3. View!Requested'
    BY <1>13, ServeFacts
  <2>4. View!QueueIsOwn'
    <3>1. view' \subseteq view
      BY <1>13, ServeFacts, EffectsKeep
    <3>2. UNCHANGED <<thread, foreign>>
      BY <1>13 DEF View!Serve
    <3> QED
      BY <3>1, <3>2 DEF View!QueueIsOwn
  <2>5. View!Bubbled'
    <3>1. UNCHANGED <<thread, directed, rolledBack>>
      BY <1>13 DEF View!Serve
    <3>2. CASE committed'[thread] = committed[thread] /\ bubbles' = bubbles
      BY <3>1, <3>2 DEF View!Bubbled
    <3>3. CASE /\ View!Effects(thread, committed'[thread], view, bubbles)
               /\ committed[thread] \subseteq committed'[thread]
      BY <3>1, <3>3, BubblesStay
    <3> QED
      BY <1>13, <3>2, <3>3, ServeFacts
  <2>6. View!Counted'
    BY <1>13 DEF View!Serve, View!Counted, View!TypeOK
  <2>7. View!Remembered'
    BY <1>13 DEF View!Serve, View!Remembered, View!TypeOK, View!Counted
  <2> QED
    BY <2>1, <2>2, <2>3, <2>4, <2>5, <2>6, <2>7
<1>14. ASSUME NEW c \in calls, View!Applied(c)
       PROVE  View!Inv'
  <2>1. View!TypeOK'
    <3>1. View!RequestOK(c)
      BY DEF View!Requested
    <3>2. view' \subseteq Messages /\ bubbles' \subseteq bubbles
      <4>1. CASE \E v \in SUBSET Messages : View!Effects(thread, committed[thread], v, bubbles)
        BY <4>1, EffectsKeep
      <4>2. CASE UNCHANGED View!local
        BY <4>2 DEF View!TypeOK
      <4> QED
        BY <1>14, <3>1, <4>1, <4>2 DEF View!Applied, View!Shows, View!RequestOK
    <3>3. \A d \in calls' : d.kind \in {"load", "refresh", "clear", "discard", "direct", "send"}
      BY <1>14 DEF View!Applied, View!TypeOK, View!Call
    <3>4. UNCHANGED <<queue, committed, injecting, thread, viewClicks>> /\ sending' \in BOOLEAN /\ resolved' = resolved
          /\ snapshot' = snapshot
      BY <1>14 DEF View!Applied, View!Shows, View!TypeOK
    <3> QED
      BY <3>2, <3>3, <3>4 DEF View!TypeOK
  <2>2. View!Queues'
    BY <1>14 DEF View!Applied, View!Shows, View!Call, View!Queues, View!TypeOK, View!Own
  <2>3. View!Requested'
    <3> DEFINE again == [View!Call("refresh", c.msg) EXCEPT !.thread = c.thread]
               refresh == View!Call("refresh", View!NoMsg)
    <3>1. View!RequestOK(c)
      BY DEF View!Requested
    <3>2. View!RequestOK(again) /\ View!RequestOK(refresh)
      BY <3>1 DEF View!RequestOK, View!Call, View!NoMsg, View!TypeOK, View!Own
    <3>3. \/ calls' \subseteq calls \cup {again} \/ calls' \subseteq calls \cup {refresh}
      BY <1>14 DEF View!Applied
    <3>4. thread' = thread
      BY <1>14 DEF View!Applied
    <3> HIDE DEF again, refresh
    <3> QED
      BY <3>2, <3>3, <3>4, CallsFit
  <2>4. View!QueueIsOwn'
    <3>1. View!RequestOK(c)
      BY DEF View!Requested
    <3>2. CASE \E v \in SUBSET c.data : View!Shows(c, v) /\ c.kind # "send"
      <4>1. view' \subseteq c.data
        BY <3>2, EffectsKeep DEF View!Shows
      <4>2. foreign' \/ c.thread = thread
        BY <3>1, <3>2 DEF View!Shows, View!RequestOK, View!Counted
      <4>3. thread' = thread
        BY <1>14 DEF View!Applied
      <4> QED
        BY <3>1, <4>1, <4>2, <4>3 DEF View!QueueIsOwn, View!RequestOK, View!Own
    <3>3. CASE UNCHANGED <<view, foreign, thread>>
      BY <3>3 DEF View!QueueIsOwn
    <3> QED
      BY <1>14, <3>2, <3>3 DEF View!Applied
  <2>5. View!Bubbled'
    <3>1. UNCHANGED <<thread, directed, rolledBack, committed>>
      BY <1>14 DEF View!Applied
    <3>2. CASE \E v : View!Effects(thread, committed[thread], v, bubbles)
      BY <3>1, <3>2, BubblesStay
    <3>3. CASE UNCHANGED bubbles
      BY <3>1, <3>3 DEF View!Bubbled
    <3> QED
      BY <1>14, <3>2, <3>3 DEF View!Applied, View!Shows
  <2>6. View!Counted'
    BY <1>14 DEF View!Applied, View!Shows, View!Call, View!Counted, View!TypeOK
  <2>7. View!Remembered'
    BY <1>14 DEF View!Applied, View!Shows, View!Call, View!Remembered, View!TypeOK, View!Counted
  <2> QED
    BY <2>1, <2>2, <2>3, <2>4, <2>5, <2>6, <2>7
<1>15. ASSUME NEW c \in calls, View!Fails(c)
       PROVE  View!Inv'
  <2>1. View!TypeOK'
    BY <1>15 DEF View!Fails, View!Directs, View!TypeOK, View!Queues, View!Counted
  <2>2. View!Queues'
    BY <1>15 DEF View!Fails, View!Queues, View!TypeOK, View!Own
  <2>3. View!Requested'
    BY <1>15 DEF View!Fails, View!Requested, View!RequestOK
  <2>4. View!QueueIsOwn'
    BY <1>15 DEF View!Fails, View!QueueIsOwn, View!TypeOK
  <2>5. View!Bubbled'
    BY <1>15 DEF View!Fails, View!Bubbled, View!Directs
  <2>6. View!Counted'
    BY <1>15 DEF View!Fails, View!Counted, View!TypeOK
  <2>7. View!Remembered'
    BY <1>15 DEF View!Fails, View!Remembered, View!TypeOK, View!Counted
  <2> QED
    BY <2>1, <2>2, <2>3, <2>4, <2>5, <2>6, <2>7
<1>16. CASE UNCHANGED viewVars
  <2>1. View!TypeOK'
    BY <1>16 DEF viewVars, View!TypeOK, View!Queues, View!Counted
  <2>2. View!Queues'
    BY <1>16 DEF viewVars, View!Queues, View!TypeOK, View!Own
  <2>3. View!Requested'
    BY <1>16 DEF viewVars, View!Requested, View!RequestOK
  <2>4. View!QueueIsOwn'
    BY <1>16 DEF viewVars, View!QueueIsOwn, View!TypeOK
  <2>5. View!Bubbled'
    BY <1>16 DEF viewVars, View!Bubbled
  <2>6. View!Counted'
    BY <1>16 DEF viewVars, View!Counted, View!TypeOK
  <2>7. View!Remembered'
    BY <1>16 DEF viewVars, View!Remembered, View!TypeOK, View!Counted
  <2> QED
    BY <2>1, <2>2, <2>3, <2>4, <2>5, <2>6, <2>7
<1> QED
  BY <1>1, <1>2, <1>3, <1>4, <1>5, <1>6, <1>7, <1>8, <1>9, <1>10, <1>11, <1>12, <1>13, <1>14, <1>15,
      <1>16 DEF View!Next

(* A message that is a bubble or in the transcript is among those shown.    *)
LEMMA BubblesAreShown ==
    ASSUME View!Bubbled
    PROVE  View!DirectedStaysVisible
<1> SUFFICES ASSUME NEW m \in directed \ rolledBack, Text[m] # NoText
             PROVE  Text[m] \in View!Texts(view \cup View!baseMessages)
  BY DEF View!DirectedStaysVisible, View!Visible
<1>1. CASE Text[m] \in View!Texts(committed[thread])
  BY <1>1 DEF View!Texts, View!baseMessages
<1>2. CASE m \in bubbles /\ Text[m] \notin View!Texts(committed[thread])
  <2>1. m \in View!baseMessages
    BY <1>2 DEF View!baseMessages, View!pending
  <2> QED
    BY <2>1 DEF View!Texts
<1> QED
  BY <1>1, <1>2 DEF View!Bubbled

(* For all threads and follow-ups: a directed follow-up stays on the page,  *)
(* the queue on display is of the thread, and a pause is answered once.     *)
THEOREM PageAlwaysTells == Spec => []PageTellsTheThread
<1> DEFINE I == focus = "view" => View!Inv
<1>1. Init => I
  BY ViewInit DEF Init
<1>2. I /\ [Next]_vars => I'
  BY OnePart, ViewStep
<1>3. I => PageTellsTheThread
  <2> SUFFICES ASSUME focus = "view", View!Inv
               PROVE  View!DirectedStaysVisible /\ View!QueueIsOwn /\ View!AnsweredOnce
    BY DEF PageTellsTheThread
  <2>1. View!DirectedStaysVisible
    BY BubblesAreShown DEF View!Inv
  <2>2. View!AnsweredOnce
    BY ViewAssumption DEF View!Inv, View!Remembered, View!Counted, View!TypeOK, View!AnsweredOnce
  <2> QED
    BY <2>1, <2>2 DEF View!Inv
<1> QED
  BY <1>1, <1>2, <1>3, PTL DEF Spec

----------------------------------------------------------------------------
(* All four.                                                               *)

(* For all threads, workspaces, tabs and follow-ups: every part keeps its   *)
(* types.                                                                   *)
THEOREM TypeCorrect == Spec => []TypeOK
<1> DEFINE I == /\ focus = "cache" => Cache!Inv
                /\ focus = "groups" => Groups!Inv
                /\ focus = "space" => Space!Inv
                /\ focus = "view" => View!Inv
<1>1. Init => I
  BY CacheInit, GroupsInit, SpaceInit, ViewInit DEF Init
<1>2. I /\ [Next]_vars => I'
  <2> SUFFICES ASSUME I, [Next]_vars PROVE I'
    OBVIOUS
  <2>1. focus = "cache" => Cache!Inv'
    BY OnePart, CacheStep
  <2>2. focus = "groups" => Groups!Inv'
    BY OnePart, GroupsStep
  <2>3. focus = "space" => Space!Inv'
    BY OnePart, SpaceStep
  <2>4. focus = "view" => View!Inv'
    BY OnePart, ViewStep
  <2> QED
    BY <2>1, <2>2, <2>3, <2>4, OnePart
<1>3. I => TypeOK
  BY DEF TypeOK, Cache!Inv, Groups!Inv, Space!Inv, View!Inv
<1> QED
  BY <1>1, <1>2, <1>3, PTL DEF Spec

=============================================================================
