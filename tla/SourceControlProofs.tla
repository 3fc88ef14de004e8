------------------------ MODULE SourceControlProofs ------------------------
(***************************************************************************)
(* Proofs about SourceControl for any projects, files and number of        *)
(* promises in flight.                                                     *)
(***************************************************************************)
EXTENDS SourceControl, TLAPS

(* The records that the handlers put in place of a promise.                 *)
LEMMA Records ==
    ASSUME TypeOK, NEW c \in Calls
    PROVE  /\ call[c] \in CallRecords /\ call[c].path \in Paths
           /\ call[c].status \in [Files -> Statuses] /\ call[c].sync \in Syncs /\ call[c].op \in Ops
           /\ NoCall \in CallRecords /\ NoCall.op = "idle"
           /\ \A op \in Ops, p \in Paths : Ask(op, p) \in CallRecords /\ Ask(op, p).op = op
           /\ \A a \in {"failed", "rejected"} :
                [call[c] EXCEPT !.answer = a] \in CallRecords /\ [call[c] EXCEPT !.answer = a].op = call[c].op
           /\ [call[c] EXCEPT !.op = "diffs"] \in CallRecords /\ [call[c] EXCEPT !.op = "diffs"].op = "diffs"
<1>1. call[c] \in CallRecords BY DEF TypeOK
<1>2. NoEntries \in [Files -> Statuses] BY DEF NoEntries, Statuses
<1>3. (CHOOSE p \in Paths : TRUE) \in Paths BY DEF TypeOK
<1>4. NoCall \in CallRecords /\ NoCall.op = "idle" BY <1>2, <1>3 DEF NoCall, CallRecords, Ops, Answers, Syncs
<1>5. \A op \in Ops, p \in Paths : Ask(op, p) \in CallRecords /\ Ask(op, p).op = op
  BY <1>2 DEF Ask, CallRecords, Ops, Answers, Syncs
<1>6. \A a \in {"failed", "rejected"} :
        [call[c] EXCEPT !.answer = a] \in CallRecords /\ [call[c] EXCEPT !.answer = a].op = call[c].op
  BY <1>1 DEF CallRecords, Answers
<1>7. [call[c] EXCEPT !.op = "diffs"] \in CallRecords /\ [call[c] EXCEPT !.op = "diffs"].op = "diffs"
  BY <1>1 DEF CallRecords, Ops
<1> QED BY <1>1, <1>4, <1>5, <1>6, <1>7 DEF CallRecords

LEMMA PutTyped ==
    ASSUME TypeOK, NEW c \in Calls, NEW k \in CallRecords, Put(c, k)
    PROVE  call' \in [Calls -> CallRecords]
BY DEF TypeOK, Put

LEMMA ShowTyped ==
    ASSUME TypeOK, ShowStatus PROVE toast' \in 1..2 /\ toast' \in 0..2 /\ armed' = {toast'} /\ armed' \subseteq 1..2
BY DEF TypeOK, ShowStatus

LEMMA TypeInit == Init => TypeOK
<1> SUFFICES ASSUME Init PROVE TypeOK OBVIOUS
<1>1. NoEntries \in [Files -> Statuses] BY DEF NoEntries, Statuses
<1>2. path \in Paths /\ (CHOOSE p \in Paths : TRUE) \in Paths BY DEF Init
<1>3. NoCall \in CallRecords BY <1>1, <1>2 DEF NoCall, CallRecords, Ops, Answers, Syncs
<1>4. Ask("refresh", path) \in CallRecords BY <1>1, <1>2 DEF Ask, CallRecords, Ops, Answers, Syncs
<1>5. call \in [Calls -> CallRecords] BY <1>3, <1>4 DEF Init
<1>6. work \in [Paths -> [Files -> Statuses]] BY DEF Init, Statuses
<1>7. sync \in [Paths -> Syncs] /\ syncStatus \in Syncs \cup {"none"} /\ busy \subseteq Flags BY DEF Init, Syncs, Flags
<1>8. moves \in 0..MaxMoves BY BoundsAreNat DEF Init
<1>9. entries \in [Files -> Statuses] BY <1>1 DEF Init
<1>10. dialog \in {"none", "commit", "branch"} /\ toast \in 0..2 /\ armed \subseteq 1..2 BY DEF Init
<1>11. menu \in BOOLEAN BY Zenon DEF Init
<1>12. rejected \subseteq {"commit", "push", "pull"} BY DEF Init
<1> QED BY <1>2, <1>5, <1>6, <1>7, <1>8, <1>9, <1>10, <1>11, <1>12 DEF TypeOK

(* What each promise becomes, and what that does to the panel.              *)
LEMMA TypeStep == TypeOK /\ [Next]_vars => TypeOK'
<1> SUFFICES ASSUME TypeOK, [Next]_vars PROVE TypeOK' OBVIOUS
<1>n. NoEntries \in [Files -> Statuses] BY DEF NoEntries, Statuses
<1>m. Move => moves' \in 0..MaxMoves BY BoundsAreNat DEF Move, TypeOK
<1>f. \A op : Flag(op) \in Flags BY DEF Flag, Flags
<1>g. "loading" \in Flags /\ "committing" \in Flags BY DEF Flags
<1>o. Ops = {"idle", "refresh", "diffs", "poll", "stageAll", "discardAll", "unstageAll",
             "commit", "push", "pull", "createPR", "createBranch"} BY DEF Ops
<1>1. ASSUME NEW c \in Calls, User(c) \/ Poll(c) PROVE TypeOK'
  <2>1. PICK op \in Ops, p \in Paths : Put(c, Ask(op, p)) \/ UNCHANGED call
    BY <1>1, <1>o DEF User, Poll, Refresh, CreatePR, Commit, CreateBranch, BarClick, PushOrPull, SwitchPath, TypeOK
  <2>2. call' \in [Calls -> CallRecords]
    <3>1. Ask(op, p) \in CallRecords BY Records
    <3>2. Put(c, Ask(op, p)) => call' \in [Calls -> CallRecords] BY <3>1, PutTyped
    <3> QED BY <2>1, <3>2 DEF TypeOK
  <2>3. CASE Refresh(c) BY <1>g, <1>m, <2>2, <2>3 DEF TypeOK, Refresh, Click, repos, panel, form, notice
  <2>4. CASE CreatePR(c) BY <1>m, <2>2, <2>4 DEF TypeOK, CreatePR, Click, repos, panel, form, notice
  <2>5. CASE Commit(c)
    BY <1>g, <1>m, <2>2, <2>5, ShowTyped DEF TypeOK, Commit, repos, panel, form, notice
  <2>6. CASE CreateBranch(c) BY <1>m, <2>2, <2>6 DEF TypeOK, CreateBranch, repos, panel, form, notice
  <2>7. CASE \E x \in {"stageAll", "discardAll", "unstageAll"} : BarClick(c, x)
    BY <1>m, <2>2, <2>7 DEF TypeOK, BarClick, Click, repos, panel, form, notice
  <2>8. CASE \E x \in {"push", "pull"} : PushOrPull(c, x)
    BY <1>f, <1>m, <2>2, <2>8 DEF TypeOK, PushOrPull, Click, repos, panel, form, notice
  <2>9. CASE \E q \in Paths : SwitchPath(c, q)
    BY <1>g, <1>m, <2>2, <2>9 DEF TypeOK, SwitchPath, repos, panel, form, notice
  <2>10. CASE Poll(c) BY <2>2, <2>10 DEF TypeOK, Poll, repos, panel, form, notice
  <2> QED BY <1>1, <2>3, <2>4, <2>5, <2>6, <2>7, <2>8, <2>9, <2>10 DEF User
<1>2. ASSUME NEW c \in Calls, Resolve(c) PROVE TypeOK'
  <2>0. /\ call[c].path \in Paths /\ call[c].status \in [Files -> Statuses] /\ call[c].sync \in Syncs
        /\ "refresh" \in Ops
    BY <1>o, Records
  <2>1. PICK k \in CallRecords : Put(c, k)
    <3>1. NoCall \in CallRecords /\ Ask("refresh", call[c].path) \in CallRecords
          /\ [call[c] EXCEPT !.op = "diffs"] \in CallRecords
      BY <2>0, Records
    <3>2. \/ Put(c, NoCall) \/ Put(c, Ask("refresh", call[c].path)) \/ Put(c, [call[c] EXCEPT !.op = "diffs"])
      BY <1>2 DEF Resolve, RefreshStatus, RefreshDiffs, Polled, BarDone, PushOrPullDone, CreatePRDone, CommitDone,
                  CreateBranchDone, Abandoned
    <3> QED BY <3>1, <3>2
  <2>2. call' \in [Calls -> CallRecords] BY <2>1, PutTyped
  <2>3. CASE RefreshStatus(c)
    BY <1>n, <2>0, <2>2, <2>3 DEF TypeOK, RefreshStatus, repos, form, notice
  <2>4. CASE RefreshDiffs(c) BY <2>2, <2>4 DEF TypeOK, RefreshDiffs, repos, panel, form, notice
  <2>5. CASE Polled(c) BY <2>0, <2>2, <2>5 DEF TypeOK, Polled, repos, form, notice
  <2>6. CASE BarDone(c) BY <1>g, <2>2, <2>6, ShowTyped DEF TypeOK, BarDone, repos, panel, form, notice
  <2>7. CASE PushOrPullDone(c)
    BY <1>g, <2>2, <2>7, ShowTyped DEF TypeOK, PushOrPullDone, CloseMenu, repos, panel, form
  <2>8. CASE CreatePRDone(c) BY <2>2, <2>8, ShowTyped DEF TypeOK, CreatePRDone, CloseMenu, repos, panel
  <2>9. CASE CommitDone(c) BY <1>g, <2>2, <2>9, ShowTyped DEF TypeOK, CommitDone, repos, panel
  <2>10. CASE CreateBranchDone(c)
    BY <1>g, <2>2, <2>10, ShowTyped DEF TypeOK, CreateBranchDone, repos, panel, form
  <2>11. CASE Abandoned(c) BY <2>2, <2>11 DEF TypeOK, Abandoned, repos, panel, form, notice
  <2> QED BY <1>2, <2>3, <2>4, <2>5, <2>6, <2>7, <2>8, <2>9, <2>10, <2>11 DEF Resolve
<1>e. ASSUME NEW c \in Calls, Effect(call[c].op, call[c].path)
      PROVE  work' \in [Paths -> [Files -> Statuses]] /\ sync' \in [Paths -> Syncs]
  <2>1. call[c].path \in Paths BY Records
  <2>2. \A from : \A to \in Statuses : Become(call[c].path, from, to) \in [Paths -> [Files -> Statuses]]
    BY <2>1 DEF Become, TypeOK
  <2>3. \A p \in Paths, x \in Syncs : [sync EXCEPT ![p] = x] \in [Paths -> Syncs] BY DEF TypeOK
  <2>4. {"clean", "staged", "changed"} \subseteq Statuses /\ {"ahead", "even"} \subseteq Syncs BY DEF Statuses, Syncs
  <2> QED BY <1>e, <2>1, <2>2, <2>3, <2>4 DEF Effect, repos, TypeOK
<1>3. ASSUME NEW c \in Calls, Answer(c) PROVE TypeOK'
  <2> DEFINE k == [op |-> call[c].op, path |-> call[c].path, answer |-> "ok",
                   status |-> work[call[c].path], sync |-> sync[call[c].path]]
  <2>1. call[c].op \in Ops /\ call[c].path \in Paths BY Records
  <2>2. k \in CallRecords /\ Put(c, k) BY <1>3, <2>1 DEF TypeOK, CallRecords, Answer, Answers
  <2> HIDE DEF k
  <2>3. call' \in [Calls -> CallRecords] BY <2>2, PutTyped
  <2>4. work' \in [Paths -> [Files -> Statuses]] /\ sync' \in [Paths -> Syncs] BY <1>3, <1>e DEF Answer
  <2> QED BY <1>3, <2>3, <2>4 DEF TypeOK, Answer, panel, form, notice
<1>4. ASSUME NEW c \in Calls, Fail(c) PROVE TypeOK'
  <2>1. [call[c] EXCEPT !.answer = "failed"] \in CallRecords BY Records
  <2>2. call' \in [Calls -> CallRecords] BY <1>4, <2>1, PutTyped DEF Fail
  <2>3. moves' \in 0..MaxMoves BY <1>4, <1>m DEF Fail, TypeOK
  <2> QED BY <1>4, <2>2, <2>3 DEF TypeOK, Fail, repos, panel, form, notice
<1>9. ASSUME NEW c \in Calls, Reject(c) PROVE TypeOK'
  <2>1. [call[c] EXCEPT !.answer = "rejected"] \in CallRecords BY Records
  <2>2. call' \in [Calls -> CallRecords] BY <1>9, <2>1, PutTyped DEF Reject
  <2>3. moves' \in 0..MaxMoves BY <1>9, <1>m DEF Reject, TypeOK
  <2>4. work' \in [Paths -> [Files -> Statuses]] /\ sync' \in [Paths -> Syncs]
    BY <1>9, <1>e DEF Reject, repos, TypeOK
  <2> QED BY <1>9, <2>2, <2>3, <2>4 DEF TypeOK, Reject, panel, form, notice
<1>5. CASE ToggleMenu \/ CloseDialog \/ \E d \in {"commit", "branch"} : OpenDialog(d)
  BY <1>5 DEF TypeOK, ToggleMenu, CloseDialog, OpenDialog, repos, panel, notice
<1>6. CASE \E n \in {1, 2} : ClearStatus(n) BY <1>6 DEF TypeOK, ClearStatus, repos, panel, form
<1>7. CASE \E p \in Paths, f \in Files, s \in Statuses : Edit(p, f, s)
  BY <1>m, <1>7 DEF TypeOK, Edit, panel, form, notice
<1>8. CASE UNCHANGED vars BY <1>8 DEF TypeOK, vars, repos, panel, form, notice
<1> QED BY <1>1, <1>2, <1>3, <1>4, <1>5, <1>6, <1>7, <1>8, <1>9 DEF Next

(* The panel, its dialogs and its promises keep their types.                *)
THEOREM TypeCorrect == Spec => []TypeOK
BY TypeInit, TypeStep, PTL DEF Spec
----------------------------------------------------------------------------
(* The promise of c becomes one of another operation.                       *)
LEMMA OpsMove ==
    ASSUME TypeOK, NEW c \in Calls, NEW k, Put(c, k)
    PROVE  /\ \A op : InFlight(op)' <=> (k.op = op \/ \E d \in Calls \ {c} : call[d].op = op)
           /\ \A op : InFlight(op) <=> (call[c].op = op \/ \E d \in Calls \ {c} : call[d].op = op)
           /\ \A op : One(op) /\ (k.op # op \/ call[c].op = op \/ ~InFlight(op)) => One(op)'
<1>1. call'[c] = k /\ \A d \in Calls \ {c} : call'[d] = call[d] BY DEF TypeOK, Put
<1>2. \A op : InFlight(op)' <=> (k.op = op \/ \E d \in Calls \ {c} : call[d].op = op) BY <1>1 DEF InFlight
<1>3. \A op : InFlight(op) <=> (call[c].op = op \/ \E d \in Calls \ {c} : call[d].op = op) BY DEF InFlight
<1>4. ASSUME NEW op, One(op), k.op # op \/ call[c].op = op \/ ~InFlight(op) PROVE One(op)'
  <2> SUFFICES ASSUME NEW d \in Calls, NEW e \in Calls, call'[d].op = op, call'[e].op = op PROVE d = e BY DEF One
  <2>1. CASE k.op # op
    <3>1. d # c /\ e # c BY <1>1, <2>1
    <3>2. call[d].op = op /\ call[e].op = op BY <1>1, <3>1
    <3> QED BY <1>4, <3>2 DEF One
  <2>2. CASE call[c].op = op
    <3>1. call[d].op = op /\ call[e].op = op BY <1>1, <2>2
    <3> QED BY <1>4, <3>1 DEF One
  <2>3. CASE ~InFlight(op)
    <3>1. \A g \in Calls : call[g].op # op BY <2>3 DEF InFlight
    <3>2. d = c /\ e = c BY <1>1, <3>1
    <3> QED BY <3>2
  <2> QED BY <1>4, <2>1, <2>2, <2>3
<1> QED BY <1>2, <1>3, <1>4

LEMMA FlagsInit == Init => FlagsHonest
<1> SUFFICES ASSUME Init PROVE FlagsHonest OBVIOUS
<1>1. 1 \in Calls BY BoundsAreNat DEF Calls
<1>2. \A c \in Calls : call[c].op = IF c = 1 THEN "refresh" ELSE "idle" BY DEF Init, Ask, NoCall
<1>3. InFlight("refresh") /\ ~InFlight("push") /\ ~InFlight("pull") BY <1>1, <1>2 DEF InFlight
<1>4. One("push") /\ One("pull") BY <1>2 DEF One
<1>5. busy = {"loading"} /\ rejected = {} BY DEF Init
<1> QED BY <1>3, <1>4, <1>5 DEF FlagsHonest, Flag

LEMMA FlagsStep == TypeOK /\ FlagsHonest /\ [Next]_vars => FlagsHonest'
<1> SUFFICES ASSUME TypeOK, FlagsHonest, [Next]_vars PROVE FlagsHonest' OBVIOUS
<1>0. ASSUME call' = call, busy' = busy, rejected' = rejected PROVE FlagsHonest' BY <1>0 DEF FlagsHonest, InFlight, One, Flag
<1>1. ASSUME NEW c \in Calls, User(c) \/ Resolve(c) \/ Poll(c) \/ Answer(c) \/ Fail(c) \/ Reject(c) PROVE FlagsHonest'
  <2> DEFINE other(op) == \E d \in Calls \ {c} : call[d].op = op
             was == call[c].op
  <2>r. /\ NoCall.op = "idle" /\ \A op \in Ops, p \in Paths : Ask(op, p).op = op
        /\ [call[c] EXCEPT !.answer = "failed"].op = was /\ [call[c] EXCEPT !.answer = "rejected"].op = was
        /\ [call[c] EXCEPT !.op = "diffs"].op = "diffs"
        /\ path \in Paths /\ call[c].path \in Paths
    BY Records DEF TypeOK
  <2>o. {"refresh", "poll", "stageAll", "discardAll", "unstageAll", "commit", "push", "pull", "createPR",
         "createBranch"} \subseteq Ops BY DEF Ops
  (* A call to the host, and what it sets.                                  *)
  <2>1. ASSUME NEW op, NEW k, Put(c, k), k.op = op, was = "idle", op # "idle",
               \/ op = "refresh" /\ busy' = busy \cup {"loading"}
               \/ op = "commit" /\ busy' = busy \cup {"committing"}
               \/ op = "push" /\ busy' = busy \cup {"pushing"} /\ "pushing" \notin busy
               \/ op = "pull" /\ busy' = busy \cup {"pulling"} /\ "pulling" \notin busy
               \/ op \notin {"refresh", "diffs", "commit", "push", "pull"} /\ busy' = busy,
               rejected' = rejected
        PROVE  FlagsHonest'
    <3>1. \A x : InFlight(x)' <=> (op = x \/ other(x)) BY <2>1, OpsMove
    <3>2. \A x : InFlight(x) <=> (was = x \/ other(x)) BY <2>1, OpsMove
    <3>3. \A x : One(x) /\ (op # x \/ was = x \/ ~InFlight(x)) => One(x)' BY <2>1, OpsMove
    <3> HIDE DEF other, was
    <3> QED BY <2>1, <3>1, <3>2, <3>3 DEF FlagsHonest, Flag
  (* A call that is over, or followed by a refresh.                         *)
  <2>2. ASSUME NEW k, Put(c, k), was # "idle", was \in Ops, k.op \in {"idle", "refresh", "diffs"}, NEW base,
               \/ was = "commit" /\ base = busy \ {"committing"}
               \/ was = "push" /\ base = busy \ {"pushing"}
               \/ was = "pull" /\ base = busy \ {"pulling"}
               \/ was \notin {"refresh", "diffs", "commit", "push", "pull"} /\ base = busy
               \/ was \in {"refresh", "diffs"} /\ base = busy,
               \/ k.op = "idle" /\ was \notin {"refresh", "diffs"} /\ busy' = base
               \/ k.op = "idle" /\ was \in {"refresh", "diffs"} /\ busy' = base \ {"loading"}
               \/ k.op = "refresh" /\ busy' = base \cup {"loading"}
               \/ k.op = "diffs" /\ busy' = base,
               rejected' = rejected
        PROVE  FlagsHonest'
    <3>1. \A x : InFlight(x)' <=> (k.op = x \/ other(x)) BY <2>2, OpsMove
    <3>2. \A x : InFlight(x) <=> (was = x \/ other(x)) BY <2>2, OpsMove
    <3>3. \A x : One(x) /\ (k.op # x \/ was = x \/ ~InFlight(x)) => One(x)' BY <2>2, OpsMove
    <3>4. was = "push" => ~other("push")
      BY DEF FlagsHonest, One
    <3>5. was = "pull" => ~other("pull")
      BY DEF FlagsHonest, One
    <3>6. One("push")' /\ One("pull")' BY <2>2, <3>3 DEF FlagsHonest
    <3> HIDE DEF other, was
    <3>7. "loading" \in busy' => InFlight("refresh")' \/ InFlight("diffs")' BY <2>2, <3>1, <3>2 DEF FlagsHonest
    <3>8. "committing" \in busy' => InFlight("commit")' \/ "commit" \in rejected'
      BY <2>2, <3>1, <3>2 DEF FlagsHonest
    <3>9. /\ "pushing" \in busy' <=> InFlight("push")' \/ "push" \in rejected'
          /\ ~(InFlight("push")' /\ "push" \in rejected')
      BY <2>2, <3>1, <3>2, <3>4 DEF FlagsHonest, Flag
    <3>10. /\ "pulling" \in busy' <=> InFlight("pull")' \/ "pull" \in rejected'
           /\ ~(InFlight("pull")' /\ "pull" \in rejected')
      BY <2>2, <3>1, <3>2, <3>5 DEF FlagsHonest, Flag
    <3> QED BY <3>6, <3>7, <3>8, <3>9, <3>10 DEF FlagsHonest, Flag
  (* The host's answer leaves the operation and the flags.                  *)
  <2>3. ASSUME NEW k, Put(c, k), k.op = was, busy' = busy, rejected' = rejected PROVE FlagsHonest'
    <3>1. \A x : InFlight(x)' <=> InFlight(x) BY <2>3, OpsMove
    <3>2. \A x : One(x) => One(x)' BY <2>3, OpsMove
    <3> QED BY <2>3, <3>1, <3>2 DEF FlagsHonest, Flag
  <2>i. was \in Ops BY Records
  <2>4. CASE Refresh(c) BY <2>1, <2>4, <2>r, <2>o DEF Refresh, Click, Free
  <2>5. CASE CreatePR(c) BY <2>1, <2>5, <2>r, <2>o DEF CreatePR, Click, Free
  <2>6. CASE Commit(c)
    <3>1. CASE stagedEntries = {} BY <1>0, <2>6, <3>1 DEF Commit
    <3>2. CASE stagedEntries # {} BY <2>1, <2>6, <2>r, <2>o, <3>2 DEF Commit, Free
    <3> QED BY <3>1, <3>2
  <2>7. CASE CreateBranch(c) BY <2>1, <2>7, <2>r, <2>o DEF CreateBranch, Free
  <2>8. ASSUME NEW op \in {"stageAll", "discardAll", "unstageAll"}, BarClick(c, op) PROVE FlagsHonest'
    BY <2>1, <2>8, <2>r, <2>o DEF BarClick, Click, Free
  <2>9. ASSUME NEW op \in {"push", "pull"}, PushOrPull(c, op) PROVE FlagsHonest'
    BY <2>1, <2>9, <2>r, <2>o DEF PushOrPull, Click, Free, Flag
  <2>10. ASSUME NEW p \in Paths, SwitchPath(c, p) PROVE FlagsHonest'
    BY <2>1, <2>10, <2>r, <2>o DEF SwitchPath, Free
  <2>11. CASE Poll(c) BY <2>1, <2>11, <2>r, <2>o DEF Poll, Free
  <2>12. CASE Answer(c) BY <2>3, <2>12 DEF Answer
  <2>13. CASE Fail(c) BY <2>3, <2>13, <2>r DEF Fail
  <2>14. CASE RefreshStatus(c)
    <3>1. CASE call[c].answer = "ok" BY <2>2, <2>14, <2>i, <2>r, <3>1 DEF RefreshStatus
    <3>2. CASE call[c].answer # "ok" BY <2>2, <2>14, <2>i, <2>r, <3>2 DEF RefreshStatus
    <3> QED BY <3>1, <3>2
  <2>15. CASE RefreshDiffs(c) BY <2>2, <2>15, <2>i, <2>r DEF RefreshDiffs
  <2>16. CASE Polled(c) BY <2>2, <2>16, <2>i, <2>r DEF Polled
  <2>17. CASE BarDone(c)
    <3>1. CASE call[c].answer = "ok" BY <2>2, <2>17, <2>i, <2>r, <2>o, <3>1 DEF BarDone
    <3>2. CASE call[c].answer # "ok" BY <2>2, <2>17, <2>i, <2>r, <3>2 DEF BarDone
    <3> QED BY <3>1, <3>2
  <2>18. CASE PushOrPullDone(c)
    <3>1. CASE call[c].answer = "ok"
      <4> DEFINE k == Ask("refresh", call[c].path)
                 base == busy \ {Flag(was)}
      <4>1. Put(c, k) /\ k.op = "refresh" /\ busy' = base \cup {"loading"} /\ was \in {"push", "pull"}
           /\ rejected' = rejected
        BY <2>18, <2>r, <2>o, <3>1 DEF PushOrPullDone
      <4>2. (was = "push" /\ base = busy \ {"pushing"}) \/ (was = "pull" /\ base = busy \ {"pulling"})
        BY <4>1 DEF Flag
      <4> HIDE DEF k, base
      <4> QED BY <2>2, <2>i, <4>1, <4>2
    <3>2. CASE call[c].answer # "ok" BY <2>2, <2>18, <2>i, <2>r, <3>2 DEF PushOrPullDone, Flag
    <3> QED BY <3>1, <3>2
  <2>19. CASE CreatePRDone(c) BY <2>2, <2>19, <2>i, <2>r DEF CreatePRDone
  <2>20. CASE CommitDone(c)
    <3>1. CASE call[c].answer = "ok"
      <4> DEFINE k == Ask("refresh", call[c].path)
                 base == busy \ {"committing"}
      <4>1. Put(c, k) /\ k.op = "refresh" /\ busy' = base \cup {"loading"} /\ was = "commit"
           /\ rejected' = rejected
        BY <2>20, <2>r, <2>o, <3>1 DEF CommitDone
      <4>2. base = busy \ {"committing"} OBVIOUS
      <4> HIDE DEF k, base
      <4> QED BY <2>2, <2>i, <4>1, <4>2
    <3>2. CASE call[c].answer # "ok" BY <2>2, <2>20, <2>i, <2>r, <3>2 DEF CommitDone
    <3> QED BY <3>1, <3>2
  <2>21. CASE CreateBranchDone(c)
    <3>1. CASE call[c].answer = "ok" BY <2>2, <2>21, <2>i, <2>r, <2>o, <3>1 DEF CreateBranchDone
    <3>2. CASE call[c].answer # "ok" BY <2>2, <2>21, <2>i, <2>r, <3>2 DEF CreateBranchDone
    <3> QED BY <3>1, <3>2
  <2>22. CASE Reject(c) BY <2>3, <2>22, <2>r DEF Reject
  (* A handler that never goes on: its flag stays, and is now on record.    *)
  <2>23. CASE Abandoned(c)
    <3>1. \A x : InFlight(x)' <=> ("idle" = x \/ other(x)) BY <2>23, <2>r, OpsMove DEF Abandoned
    <3>2. \A x : InFlight(x) <=> (was = x \/ other(x)) BY <2>23, OpsMove DEF Abandoned
    <3>3. \A x : One(x) /\ x # "idle" => One(x)' BY <2>23, <2>r, OpsMove DEF Abandoned
    <3>4. (was = "push" => ~other("push")) /\ (was = "pull" => ~other("pull")) BY DEF FlagsHonest, One
    <3>5. /\ was # "refresh" /\ was # "diffs" /\ busy' = busy
          /\ rejected' = rejected \cup ({was} \cap {"commit", "push", "pull"})
      BY <2>23 DEF Abandoned
    <3> HIDE DEF other, was
    <3>6. "loading" \in busy' => InFlight("refresh")' \/ InFlight("diffs")' BY <3>1, <3>2, <3>5 DEF FlagsHonest
    <3>7. "committing" \in busy' => InFlight("commit")' \/ "commit" \in rejected'
      BY <3>1, <3>2, <3>5 DEF FlagsHonest
    <3>8. /\ "pushing" \in busy' <=> InFlight("push")' \/ "push" \in rejected'
          /\ ~(InFlight("push")' /\ "push" \in rejected') /\ One("push")'
      BY <3>1, <3>2, <3>3, <3>4, <3>5 DEF FlagsHonest, Flag
    <3>9. /\ "pulling" \in busy' <=> InFlight("pull")' \/ "pull" \in rejected'
          /\ ~(InFlight("pull")' /\ "pull" \in rejected') /\ One("pull")'
      BY <3>1, <3>2, <3>3, <3>4, <3>5 DEF FlagsHonest, Flag
    <3> QED BY <3>6, <3>7, <3>8, <3>9 DEF FlagsHonest, Flag
  <2> QED BY <1>1, <2>4, <2>5, <2>6, <2>7, <2>8, <2>9, <2>10, <2>11, <2>12, <2>13, <2>14, <2>15, <2>16, <2>17, <2>18,
             <2>19, <2>20, <2>21, <2>22, <2>23 DEF User, Resolve
<1>2. ASSUME ~(\E c \in Calls : User(c) \/ Resolve(c) \/ Poll(c) \/ Answer(c) \/ Fail(c) \/ Reject(c)) PROVE FlagsHonest'
  <2>1. call' = call /\ busy' = busy /\ rejected' = rejected
    BY <1>2 DEF Next, ToggleMenu, CloseDialog, OpenDialog, ClearStatus, Edit, vars
  <2> QED BY <1>0, <2>1
<1> QED BY <1>1, <1>2

(* Whatever calls overlap, fail, reject or are for another path, a flag     *)
(* outlives the calls of its kind only when a promise of that kind rejected *)
(* (then Push or Pull stays disabled for ever), and neither Push nor Pull   *)
(* is ever sent twice at a time.                                            *)
THEOREM FlagsAlwaysHonest == Spec => []FlagsHonest
<1>1. TypeOK /\ FlagsHonest /\ [Next]_vars => (TypeOK /\ FlagsHonest)' BY TypeStep, FlagsStep
<1>2. Init => TypeOK /\ FlagsHonest BY TypeInit, FlagsInit
<1> QED BY <1>1, <1>2, PTL DEF Spec

LEMMA ToastStep == ToastLasts /\ [Next]_vars => ToastLasts'
<1> SUFFICES ASSUME ToastLasts, [Next]_vars PROVE ToastLasts' OBVIOUS
<1>1. CASE ShowStatus BY <1>1 DEF ShowStatus, ToastLasts
<1>2. CASE UNCHANGED notice BY <1>2 DEF notice, ToastLasts
<1>3. CASE toast' = 0 BY <1>3 DEF ToastLasts
<1>4. ASSUME NEW c \in Calls, User(c) \/ Poll(c) \/ Answer(c) \/ Fail(c) \/ Reject(c) PROVE ShowStatus \/ UNCHANGED notice
  BY <1>4 DEF User, Poll, Answer, Fail, Reject, Refresh, CreatePR, Commit, CreateBranch, BarClick, PushOrPull, SwitchPath
<1>5. ASSUME NEW c \in Calls, Resolve(c) PROVE ShowStatus \/ UNCHANGED notice
  BY <1>5 DEF Resolve, RefreshStatus, RefreshDiffs, Polled, BarDone, PushOrPullDone, CreatePRDone, CommitDone,
              CreateBranchDone, Abandoned
<1>6. CASE ToggleMenu \/ CloseDialog \/ (\E d \in {"commit", "branch"} : OpenDialog(d)) \/ UNCHANGED vars
          \/ (\E p \in Paths, f \in Files, s \in Statuses : Edit(p, f, s))
  <2>1. UNCHANGED notice BY <1>6 DEF ToggleMenu, CloseDialog, OpenDialog, Edit, vars
  <2> QED BY <1>2, <2>1
<1>7. CASE \E n \in {1, 2} : ClearStatus(n) BY <1>3, <1>7 DEF ClearStatus
<1> QED BY <1>1, <1>2, <1>4, <1>5, <1>6, <1>7 DEF Next

(* A message on the screen is only ever waiting for its own timeout.        *)
THEOREM ToastAlwaysLasts == Spec => []ToastLasts
<1>1. Init => ToastLasts BY DEF Init, ToastLasts
<1> QED BY <1>1, ToastStep, PTL DEF Spec

=============================================================================
