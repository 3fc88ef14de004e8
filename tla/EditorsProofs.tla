---------------------------- MODULE EditorsProofs ---------------------------
(***************************************************************************)
(* Proofs about three more parts of the dashboard's pages, laid out like   *)
(* those of PagesProofs: the prompt bar of the desktop, the editor of      *)
(* automations and what the transcript shows of a thread's messages.  The  *)
(* types of all parts together are at the end.                             *)
(***************************************************************************)
EXTENDS PagesProofs

(* The part that a behaviour exercises stays the same, and each step is one *)
(* of that part.                                                            *)
LEMMA OneEditor ==
    ASSUME [Next]_vars
    PROVE  /\ focus' = focus
           /\ focus = "auto" => [Automation!Next]_autoVars
           /\ focus = "bar" => [Bar!Next]_barVars
           /\ focus = "transcript" => [Turns!Next]_transcriptVars
BY DEF Next, vars

----------------------------------------------------------------------------
(* The desktop prompt bar                                                   *)

(* The invariant of the desktop's prompt bar holds at first.                *)
LEMMA BarInit == Bar!Init => Bar!Inv
<1> SUFFICES ASSUME Bar!Init PROVE Bar!Inv
  OBVIOUS
<1>1. Bar!TypeOK
  <2>1. barSession \in Sessions /\ drafts \in [Sessions -> Bar!Drafts]
    BY DEF Bar!Init, Bar!Drafts
  <2>2. approvalSelectedIndex = 0 /\ barMenu = "none" /\ barClicks = 0
    BY Zenon DEF Bar!Init
  <2>3. approvalSelectedIndex \in 0..2 /\ barMenu \in {"none", "model", "permission"}
    BY <2>2
  <2>4. barClicks \in 0..MaxBarClicks
    BY <2>2, BoundAssumption
  <2> QED
    BY <2>1, <2>3, <2>4 DEF Bar!TypeOK
<1>2. Bar!Requested
  <2>1. barSession \in Sessions
    BY Zenon DEF Bar!Init
  <2>2. barPending = [s \in Sessions |-> 0] /\ barAsked = 0
    BY Zenon DEF Bar!Init
  <2>3. filesLoading = (ProjectOf[barSession] # NoFolder)
    BY Zenon DEF Bar!Init
  <2>4. listing \subseteq {[project |-> ProjectOf[barSession], cancelled |-> FALSE, n |-> 0]}
    BY Zenon DEF Bar!Init
  <2>5. barPending \in [Sessions -> Nat] /\ barAsked \in Nat
    BY <2>2
  <2>6. filesLoading \in BOOLEAN
    BY <2>3, Zenon
  <2>7. listing \subseteq [project : {ProjectOf[s] : s \in Sessions}, cancelled : BOOLEAN, n : Nat]
    <3> DEFINE Projs == {ProjectOf[s] : s \in Sessions}
    <3>1. ProjectOf[barSession] \in Projs
      BY <2>1
    <3> HIDE DEF Projs
    <3>2. [project |-> ProjectOf[barSession], cancelled |-> FALSE, n |-> 0] \in [project : Projs, cancelled : BOOLEAN, n : Nat]
      BY <3>1
    <3> QED
      BY <2>4, <3>2 DEF Projs
  <2> QED
    BY <2>5, <2>6, <2>7, Zenon DEF Bar!Requested
<1>3. Bar!ListedIsShown
  <2>1. listing \subseteq {[project |-> ProjectOf[barSession], cancelled |-> FALSE, n |-> 0]}
    BY Zenon DEF Bar!Init
  <2> QED
    BY <2>1 DEF Bar!ListedIsShown
<1>4. Bar!FilesOfProject
  BY BoundAssumption DEF Bar!Init, Bar!FilesOfProject, Bar!ListedIsShown, Bar!Requested
<1>5. Bar!SelectionIsOwn
  BY BoundAssumption DEF Bar!Init, Bar!SelectionIsOwn, Bar!TypeOK, Bar!Requested,
      Bar!hasPendingApproval
<1> QED
  BY <1>1, <1>2, <1>3, <1>4, <1>5 DEF Bar!Inv

(* Every action of the desktop's prompt bar keeps its invariant.            *)
LEMMA BarStep ==
    ASSUME Bar!Inv, [Bar!Next]_barVars
    PROVE  Bar!Inv'
<1> USE BoundAssumption DEF Bar!Inv, Bar!Click, Bar!files, Bar!approvals, Bar!menus
<1>1. CASE Bar!ApprovalEnter
  <2>1. Bar!TypeOK'
    <3>1. (barSession \in Sessions /\ drafts \in [Sessions -> Bar!Drafts])'
      BY <1>1 DEF Bar!ApprovalEnter, Bar!submitApprovalDecision, Bar!TypeOK, Bar!Drafts
    <3>2. (approvalSelectedIndex \in 0..2)'
      BY <1>1 DEF Bar!ApprovalEnter, Bar!submitApprovalDecision, Bar!TypeOK
    <3>3. (barMenu \in {"none", "model", "permission"})'
      BY <1>1 DEF Bar!ApprovalEnter, Bar!submitApprovalDecision, Bar!TypeOK
    <3>4. (barClicks \in 0..MaxBarClicks)'
      BY <1>1 DEF Bar!ApprovalEnter, Bar!submitApprovalDecision, Bar!TypeOK
    <3> QED
      BY <3>1, <3>2, <3>3, <3>4 DEF Bar!TypeOK
  <2>2. Bar!Requested'
    BY <1>1 DEF Bar!ApprovalEnter, Bar!submitApprovalDecision, Bar!Requested, Bar!TypeOK
  <2>3. Bar!ListedIsShown'
    BY <1>1 DEF Bar!ApprovalEnter, Bar!submitApprovalDecision, Bar!ListedIsShown, Bar!Requested
  <2>4. Bar!FilesOfProject'
    BY <1>1 DEF Bar!ApprovalEnter, Bar!submitApprovalDecision, Bar!FilesOfProject, Bar!ListedIsShown,
        Bar!Requested
  <2>5. Bar!SelectionIsOwn'
    BY <1>1 DEF Bar!ApprovalEnter, Bar!submitApprovalDecision, Bar!SelectionIsOwn, Bar!TypeOK,
        Bar!Requested, Bar!hasPendingApproval
  <2> QED
    BY <2>1, <2>2, <2>3, <2>4, <2>5
<1>2. CASE Bar!Reject
  <2>1. Bar!TypeOK'
    <3>1. (barSession \in Sessions /\ drafts \in [Sessions -> Bar!Drafts])'
      BY <1>2 DEF Bar!Reject, Bar!submitApprovalDecision, Bar!TypeOK, Bar!Drafts
    <3>2. (approvalSelectedIndex \in 0..2)'
      BY <1>2 DEF Bar!Reject, Bar!submitApprovalDecision, Bar!TypeOK
    <3>3. (barMenu \in {"none", "model", "permission"})'
      BY <1>2 DEF Bar!Reject, Bar!submitApprovalDecision, Bar!TypeOK
    <3>4. (barClicks \in 0..MaxBarClicks)'
      BY <1>2 DEF Bar!Reject, Bar!submitApprovalDecision, Bar!TypeOK
    <3> QED
      BY <3>1, <3>2, <3>3, <3>4 DEF Bar!TypeOK
  <2>2. Bar!Requested'
    BY <1>2 DEF Bar!Reject, Bar!submitApprovalDecision, Bar!Requested, Bar!TypeOK
  <2>3. Bar!ListedIsShown'
    BY <1>2 DEF Bar!Reject, Bar!submitApprovalDecision, Bar!ListedIsShown, Bar!Requested
  <2>4. Bar!FilesOfProject'
    BY <1>2 DEF Bar!Reject, Bar!submitApprovalDecision, Bar!FilesOfProject, Bar!ListedIsShown,
        Bar!Requested
  <2>5. Bar!SelectionIsOwn'
    BY <1>2 DEF Bar!Reject, Bar!submitApprovalDecision, Bar!SelectionIsOwn, Bar!TypeOK,
        Bar!Requested, Bar!hasPendingApproval
  <2> QED
    BY <2>1, <2>2, <2>3, <2>4, <2>5
<1>3. CASE Bar!CommandTab
  <2>1. Bar!TypeOK'
    <3>1. (barSession \in Sessions /\ drafts \in [Sessions -> Bar!Drafts])'
      BY <1>3 DEF Bar!CommandTab, Bar!setQuery, Bar!ResetIndices, Bar!query, Bar!Box, Bar!TypeOK,
          Bar!Drafts
    <3>2. (approvalSelectedIndex \in 0..2)'
      BY <1>3 DEF Bar!CommandTab, Bar!setQuery, Bar!ResetIndices, Bar!query, Bar!Box, Bar!TypeOK
    <3>3. (barMenu \in {"none", "model", "permission"})'
      BY <1>3 DEF Bar!CommandTab, Bar!setQuery, Bar!ResetIndices, Bar!query, Bar!Box, Bar!TypeOK
    <3>4. (barClicks \in 0..MaxBarClicks)'
      <4>1. barClicks < MaxBarClicks /\ barClicks' = barClicks + 1
        BY <1>3, Zenon DEF Bar!CommandTab
      <4> QED
        BY <4>1 DEF Bar!TypeOK
    <3> QED
      BY <3>1, <3>2, <3>3, <3>4 DEF Bar!TypeOK
  <2>2. Bar!Requested'
    BY <1>3 DEF Bar!CommandTab, Bar!setQuery, Bar!ResetIndices, Bar!query, Bar!Box, Bar!Requested,
        Bar!TypeOK
  <2>3. Bar!ListedIsShown'
    BY <1>3 DEF Bar!CommandTab, Bar!setQuery, Bar!ResetIndices, Bar!query, Bar!Box,
        Bar!ListedIsShown, Bar!Requested
  <2>4. Bar!FilesOfProject'
    BY <1>3 DEF Bar!CommandTab, Bar!setQuery, Bar!ResetIndices, Bar!query, Bar!Box,
        Bar!FilesOfProject, Bar!ListedIsShown, Bar!Requested
  <2>5. Bar!SelectionIsOwn'
    BY <1>3 DEF Bar!CommandTab, Bar!setQuery, Bar!ResetIndices, Bar!query, Bar!Box,
        Bar!SelectionIsOwn, Bar!TypeOK, Bar!Requested, Bar!hasPendingApproval
  <2> QED
    BY <2>1, <2>2, <2>3, <2>4, <2>5
<1>4. CASE Bar!CommandEscape
  <2>1. Bar!TypeOK'
    <3>1. (barSession \in Sessions /\ drafts \in [Sessions -> Bar!Drafts])'
      BY <1>4 DEF Bar!CommandEscape, Bar!setQuery, Bar!ResetIndices, Bar!query, Bar!Box,
          Bar!TypeOK, Bar!Drafts
    <3>2. (approvalSelectedIndex \in 0..2)'
      BY <1>4 DEF Bar!CommandEscape, Bar!setQuery, Bar!ResetIndices, Bar!query, Bar!Box, Bar!TypeOK
    <3>3. (barMenu \in {"none", "model", "permission"})'
      BY <1>4 DEF Bar!CommandEscape, Bar!setQuery, Bar!ResetIndices, Bar!query, Bar!Box, Bar!TypeOK
    <3>4. (barClicks \in 0..MaxBarClicks)'
      <4>1. barClicks < MaxBarClicks /\ barClicks' = barClicks + 1
        BY <1>4, Zenon DEF Bar!CommandEscape
      <4> QED
        BY <4>1 DEF Bar!TypeOK
    <3> QED
      BY <3>1, <3>2, <3>3, <3>4 DEF Bar!TypeOK
  <2>2. Bar!Requested'
    BY <1>4 DEF Bar!CommandEscape, Bar!setQuery, Bar!ResetIndices, Bar!query, Bar!Box, Bar!Requested,
        Bar!TypeOK
  <2>3. Bar!ListedIsShown'
    BY <1>4 DEF Bar!CommandEscape, Bar!setQuery, Bar!ResetIndices, Bar!query, Bar!Box,
        Bar!ListedIsShown, Bar!Requested
  <2>4. Bar!FilesOfProject'
    BY <1>4 DEF Bar!CommandEscape, Bar!setQuery, Bar!ResetIndices, Bar!query, Bar!Box,
        Bar!FilesOfProject, Bar!ListedIsShown, Bar!Requested
  <2>5. Bar!SelectionIsOwn'
    BY <1>4 DEF Bar!CommandEscape, Bar!setQuery, Bar!ResetIndices, Bar!query, Bar!Box,
        Bar!SelectionIsOwn, Bar!TypeOK, Bar!Requested, Bar!hasPendingApproval
  <2> QED
    BY <2>1, <2>2, <2>3, <2>4, <2>5
<1>5. CASE Bar!CommandEnter
  <2>1. Bar!TypeOK'
    <3>1. (barSession \in Sessions /\ drafts \in [Sessions -> Bar!Drafts])'
      BY <1>5 DEF Bar!CommandEnter, Bar!setQuery, Bar!ResetIndices, Bar!query, Bar!Box, Bar!TypeOK,
          Bar!Drafts
    <3>2. (approvalSelectedIndex \in 0..2)'
      BY <1>5 DEF Bar!CommandEnter, Bar!setQuery, Bar!ResetIndices, Bar!query, Bar!Box, Bar!TypeOK
    <3>3. (barMenu \in {"none", "model", "permission"})'
      BY <1>5 DEF Bar!CommandEnter, Bar!setQuery, Bar!ResetIndices, Bar!query, Bar!Box, Bar!TypeOK
    <3>4. (barClicks \in 0..MaxBarClicks)'
      <4>1. barClicks < MaxBarClicks /\ barClicks' = barClicks + 1
        BY <1>5, Zenon DEF Bar!CommandEnter
      <4> QED
        BY <4>1 DEF Bar!TypeOK
    <3> QED
      BY <3>1, <3>2, <3>3, <3>4 DEF Bar!TypeOK
  <2>2. Bar!Requested'
    BY <1>5 DEF Bar!CommandEnter, Bar!setQuery, Bar!ResetIndices, Bar!query, Bar!Box, Bar!Requested,
        Bar!TypeOK
  <2>3. Bar!ListedIsShown'
    BY <1>5 DEF Bar!CommandEnter, Bar!setQuery, Bar!ResetIndices, Bar!query, Bar!Box,
        Bar!ListedIsShown, Bar!Requested
  <2>4. Bar!FilesOfProject'
    BY <1>5 DEF Bar!CommandEnter, Bar!setQuery, Bar!ResetIndices, Bar!query, Bar!Box,
        Bar!FilesOfProject, Bar!ListedIsShown, Bar!Requested
  <2>5. Bar!SelectionIsOwn'
    BY <1>5 DEF Bar!CommandEnter, Bar!setQuery, Bar!ResetIndices, Bar!query, Bar!Box,
        Bar!SelectionIsOwn, Bar!TypeOK, Bar!Requested, Bar!hasPendingApproval
  <2> QED
    BY <2>1, <2>2, <2>3, <2>4, <2>5
<1>6. CASE Bar!handleFileSelect
  <2>1. Bar!TypeOK'
    <3>1. (barSession \in Sessions /\ drafts \in [Sessions -> Bar!Drafts])'
      BY <1>6 DEF Bar!handleFileSelect, Bar!setQuery, Bar!ResetIndices, Bar!query, Bar!Box,
          Bar!TypeOK, Bar!Drafts
    <3>2. (approvalSelectedIndex \in 0..2)'
      BY <1>6 DEF Bar!handleFileSelect, Bar!setQuery, Bar!ResetIndices, Bar!query, Bar!Box,
          Bar!TypeOK
    <3>3. (barMenu \in {"none", "model", "permission"})'
      BY <1>6 DEF Bar!handleFileSelect, Bar!setQuery, Bar!ResetIndices, Bar!query, Bar!Box,
          Bar!TypeOK
    <3>4. (barClicks \in 0..MaxBarClicks)'
      BY <1>6 DEF Bar!handleFileSelect, Bar!setQuery, Bar!ResetIndices, Bar!query, Bar!Box,
          Bar!TypeOK
    <3> QED
      BY <3>1, <3>2, <3>3, <3>4 DEF Bar!TypeOK
  <2>2. Bar!Requested'
    BY <1>6 DEF Bar!handleFileSelect, Bar!setQuery, Bar!ResetIndices, Bar!query, Bar!Box,
        Bar!Requested, Bar!TypeOK
  <2>3. Bar!ListedIsShown'
    BY <1>6 DEF Bar!handleFileSelect, Bar!setQuery, Bar!ResetIndices, Bar!query, Bar!Box,
        Bar!ListedIsShown, Bar!Requested
  <2>4. Bar!FilesOfProject'
    BY <1>6 DEF Bar!handleFileSelect, Bar!setQuery, Bar!ResetIndices, Bar!query, Bar!Box,
        Bar!FilesOfProject, Bar!ListedIsShown, Bar!Requested
  <2>5. Bar!SelectionIsOwn'
    BY <1>6 DEF Bar!handleFileSelect, Bar!setQuery, Bar!ResetIndices, Bar!query, Bar!Box,
        Bar!SelectionIsOwn, Bar!TypeOK, Bar!Requested, Bar!hasPendingApproval
  <2> QED
    BY <2>1, <2>2, <2>3, <2>4, <2>5
<1>7. CASE Bar!FileEscape
  <2>1. Bar!TypeOK'
    <3>1. (barSession \in Sessions /\ drafts \in [Sessions -> Bar!Drafts])'
      BY <1>7 DEF Bar!FileEscape, Bar!setQuery, Bar!ResetIndices, Bar!query, Bar!Box, Bar!TypeOK,
          Bar!Drafts
    <3>2. (approvalSelectedIndex \in 0..2)'
      BY <1>7 DEF Bar!FileEscape, Bar!setQuery, Bar!ResetIndices, Bar!query, Bar!Box, Bar!TypeOK
    <3>3. (barMenu \in {"none", "model", "permission"})'
      BY <1>7 DEF Bar!FileEscape, Bar!setQuery, Bar!ResetIndices, Bar!query, Bar!Box, Bar!TypeOK
    <3>4. (barClicks \in 0..MaxBarClicks)'
      <4>1. barClicks < MaxBarClicks /\ barClicks' = barClicks + 1
        BY <1>7, Zenon DEF Bar!FileEscape
      <4> QED
        BY <4>1 DEF Bar!TypeOK
    <3> QED
      BY <3>1, <3>2, <3>3, <3>4 DEF Bar!TypeOK
  <2>2. Bar!Requested'
    BY <1>7 DEF Bar!FileEscape, Bar!setQuery, Bar!ResetIndices, Bar!query, Bar!Box, Bar!Requested,
        Bar!TypeOK
  <2>3. Bar!ListedIsShown'
    BY <1>7 DEF Bar!FileEscape, Bar!setQuery, Bar!ResetIndices, Bar!query, Bar!Box,
        Bar!ListedIsShown, Bar!Requested
  <2>4. Bar!FilesOfProject'
    BY <1>7 DEF Bar!FileEscape, Bar!setQuery, Bar!ResetIndices, Bar!query, Bar!Box,
        Bar!FilesOfProject, Bar!ListedIsShown, Bar!Requested
  <2>5. Bar!SelectionIsOwn'
    BY <1>7 DEF Bar!FileEscape, Bar!setQuery, Bar!ResetIndices, Bar!query, Bar!Box,
        Bar!SelectionIsOwn, Bar!TypeOK, Bar!Requested, Bar!hasPendingApproval
  <2> QED
    BY <2>1, <2>2, <2>3, <2>4, <2>5
<1>8. CASE Bar!Submit
  <2>1. Bar!TypeOK'
    <3>1. (barSession \in Sessions /\ drafts \in [Sessions -> Bar!Drafts])'
      BY <1>8 DEF Bar!Submit, Bar!setQuery, Bar!ResetIndices, Bar!query, Bar!Box, Bar!TypeOK,
          Bar!Drafts
    <3>2. (approvalSelectedIndex \in 0..2)'
      BY <1>8 DEF Bar!Submit, Bar!setQuery, Bar!ResetIndices, Bar!query, Bar!Box, Bar!TypeOK
    <3>3. (barMenu \in {"none", "model", "permission"})'
      BY <1>8 DEF Bar!Submit, Bar!setQuery, Bar!ResetIndices, Bar!query, Bar!Box, Bar!TypeOK
    <3>4. (barClicks \in 0..MaxBarClicks)'
      <4>1. barClicks < MaxBarClicks /\ barClicks' = barClicks + 1
        BY <1>8, Zenon DEF Bar!Submit
      <4> QED
        BY <4>1 DEF Bar!TypeOK
    <3> QED
      BY <3>1, <3>2, <3>3, <3>4 DEF Bar!TypeOK
  <2>2. Bar!Requested'
    BY <1>8 DEF Bar!Submit, Bar!setQuery, Bar!ResetIndices, Bar!query, Bar!Box, Bar!Requested,
        Bar!TypeOK
  <2>3. Bar!ListedIsShown'
    BY <1>8 DEF Bar!Submit, Bar!setQuery, Bar!ResetIndices, Bar!query, Bar!Box, Bar!ListedIsShown,
        Bar!Requested
  <2>4. Bar!FilesOfProject'
    BY <1>8 DEF Bar!Submit, Bar!setQuery, Bar!ResetIndices, Bar!query, Bar!Box, Bar!FilesOfProject,
        Bar!ListedIsShown, Bar!Requested
  <2>5. Bar!SelectionIsOwn'
    BY <1>8 DEF Bar!Submit, Bar!setQuery, Bar!ResetIndices, Bar!query, Bar!Box, Bar!SelectionIsOwn,
        Bar!TypeOK, Bar!Requested, Bar!hasPendingApproval
  <2> QED
    BY <2>1, <2>2, <2>3, <2>4, <2>5
<1>9. CASE Bar!handleModelSelect
  <2>1. Bar!TypeOK'
    <3>1. (barSession \in Sessions /\ drafts \in [Sessions -> Bar!Drafts])'
      BY <1>9 DEF Bar!handleModelSelect, Bar!TypeOK, Bar!Drafts
    <3>2. (approvalSelectedIndex \in 0..2)'
      BY <1>9 DEF Bar!handleModelSelect, Bar!TypeOK
    <3>3. (barMenu \in {"none", "model", "permission"})'
      BY <1>9 DEF Bar!handleModelSelect, Bar!TypeOK
    <3>4. (barClicks \in 0..MaxBarClicks)'
      BY <1>9 DEF Bar!handleModelSelect, Bar!TypeOK
    <3> QED
      BY <3>1, <3>2, <3>3, <3>4 DEF Bar!TypeOK
  <2>2. Bar!Requested'
    BY <1>9 DEF Bar!handleModelSelect, Bar!Requested, Bar!TypeOK
  <2>3. Bar!ListedIsShown'
    BY <1>9 DEF Bar!handleModelSelect, Bar!ListedIsShown, Bar!Requested
  <2>4. Bar!FilesOfProject'
    BY <1>9 DEF Bar!handleModelSelect, Bar!FilesOfProject, Bar!ListedIsShown, Bar!Requested
  <2>5. Bar!SelectionIsOwn'
    BY <1>9 DEF Bar!handleModelSelect, Bar!SelectionIsOwn, Bar!TypeOK, Bar!Requested,
        Bar!hasPendingApproval
  <2> QED
    BY <2>1, <2>2, <2>3, <2>4, <2>5
<1>10. CASE Bar!TogglePermission
  <2>1. Bar!TypeOK'
    <3>1. (barSession \in Sessions /\ drafts \in [Sessions -> Bar!Drafts])'
      BY <1>10 DEF Bar!TogglePermission, Bar!TypeOK, Bar!Drafts
    <3>2. (approvalSelectedIndex \in 0..2)'
      BY <1>10 DEF Bar!TogglePermission, Bar!TypeOK
    <3>3. (barMenu \in {"none", "model", "permission"})'
      BY <1>10 DEF Bar!TogglePermission, Bar!TypeOK
    <3>4. (barClicks \in 0..MaxBarClicks)'
      BY <1>10 DEF Bar!TogglePermission, Bar!TypeOK
    <3> QED
      BY <3>1, <3>2, <3>3, <3>4 DEF Bar!TypeOK
  <2>2. Bar!Requested'
    BY <1>10 DEF Bar!TogglePermission, Bar!Requested, Bar!TypeOK
  <2>3. Bar!ListedIsShown'
    BY <1>10 DEF Bar!TogglePermission, Bar!ListedIsShown, Bar!Requested
  <2>4. Bar!FilesOfProject'
    BY <1>10 DEF Bar!TogglePermission, Bar!FilesOfProject, Bar!ListedIsShown, Bar!Requested
  <2>5. Bar!SelectionIsOwn'
    BY <1>10 DEF Bar!TogglePermission, Bar!SelectionIsOwn, Bar!TypeOK, Bar!Requested,
        Bar!hasPendingApproval
  <2> QED
    BY <2>1, <2>2, <2>3, <2>4, <2>5
<1>11. ASSUME NEW s \in Sessions, Bar!Show(s)
       PROVE  Bar!Inv'
  <2>1. Bar!TypeOK'
    <3>1. (barSession \in Sessions /\ drafts \in [Sessions -> Bar!Drafts])'
      BY <1>11 DEF Bar!Show, Bar!ResetIndices, Bar!ResetApproval, Bar!LoadFiles, Bar!TypeOK,
          Bar!Drafts
    <3>2. (approvalSelectedIndex \in 0..2)'
      BY <1>11 DEF Bar!Show, Bar!ResetIndices, Bar!ResetApproval, Bar!LoadFiles, Bar!TypeOK
    <3>3. (barMenu \in {"none", "model", "permission"})'
      BY <1>11 DEF Bar!Show, Bar!ResetIndices, Bar!ResetApproval, Bar!LoadFiles, Bar!TypeOK
    <3>4. (barClicks \in 0..MaxBarClicks)'
      BY <1>11 DEF Bar!Show, Bar!ResetIndices, Bar!ResetApproval, Bar!LoadFiles, Bar!TypeOK
    <3> QED
      BY <3>1, <3>2, <3>3, <3>4 DEF Bar!TypeOK
  <2>2. Bar!Requested'
    <3> DEFINE Projs == {ProjectOf[t] : t \in Sessions}
               Calls == [project : Projs, cancelled : BOOLEAN, n : Nat]
               Cancelled == {[l EXCEPT !.cancelled = TRUE] : l \in listing}
               Asks == [project |-> ProjectOf[s], cancelled |-> FALSE, n |-> barClicks]
    <3>1. UNCHANGED <<barPending, barAsked>> /\ filesLoading' \in BOOLEAN
      BY <1>11 DEF Bar!Show, Bar!LoadFiles, Bar!Requested
    <3>2. listing' = listing \/ listing' = Cancelled \/ listing' = Cancelled \cup {Asks}
      BY <1>11 DEF Bar!Show, Bar!LoadFiles
    <3>3. listing \subseteq Calls
      BY DEF Bar!Requested
    <3>4. ProjectOf[s] \in Projs /\ barClicks \in Nat
      BY <1>11 DEF Bar!TypeOK
    <3> HIDE DEF Projs
    <3>5. Cancelled \subseteq Calls
      BY <3>3
    <3>6. Asks \in Calls
      BY <3>4
    <3> HIDE DEF Calls, Cancelled, Asks
    <3>7. listing' \subseteq Calls
      BY <3>2, <3>3, <3>5, <3>6
    <3> QED
      BY <3>1, <3>7 DEF Bar!Requested, Calls, Projs
  <2>3. Bar!ListedIsShown'
    BY <1>11 DEF Bar!Show, Bar!ResetIndices, Bar!ResetApproval, Bar!LoadFiles, Bar!ListedIsShown,
        Bar!Requested
  <2>4. Bar!FilesOfProject'
    BY <1>11 DEF Bar!Show, Bar!ResetIndices, Bar!ResetApproval, Bar!LoadFiles, Bar!FilesOfProject,
        Bar!ListedIsShown, Bar!Requested
  <2>5. Bar!SelectionIsOwn'
    BY <1>11 DEF Bar!Show, Bar!ResetIndices, Bar!ResetApproval, Bar!LoadFiles, Bar!SelectionIsOwn,
        Bar!TypeOK, Bar!Requested, Bar!hasPendingApproval
  <2> QED
    BY <2>1, <2>2, <2>3, <2>4, <2>5
<1>12. ASSUME NEW s \in Sessions, Bar!Ask(s)
       PROVE  Bar!Inv'
  <2>1. Bar!TypeOK'
    <3>1. (barSession \in Sessions /\ drafts \in [Sessions -> Bar!Drafts])'
      BY <1>12 DEF Bar!Ask, Bar!ResetApproval, Bar!TypeOK, Bar!Drafts
    <3>2. (approvalSelectedIndex \in 0..2)'
      BY <1>12 DEF Bar!Ask, Bar!ResetApproval, Bar!TypeOK
    <3>3. (barMenu \in {"none", "model", "permission"})'
      BY <1>12 DEF Bar!Ask, Bar!ResetApproval, Bar!TypeOK
    <3>4. (barClicks \in 0..MaxBarClicks)'
      BY <1>12 DEF Bar!Ask, Bar!ResetApproval, Bar!TypeOK
    <3> QED
      BY <3>1, <3>2, <3>3, <3>4 DEF Bar!TypeOK
  <2>2. Bar!Requested'
    BY <1>12 DEF Bar!Ask, Bar!ResetApproval, Bar!Requested, Bar!TypeOK
  <2>3. Bar!ListedIsShown'
    BY <1>12 DEF Bar!Ask, Bar!ResetApproval, Bar!ListedIsShown, Bar!Requested
  <2>4. Bar!FilesOfProject'
    BY <1>12 DEF Bar!Ask, Bar!ResetApproval, Bar!FilesOfProject, Bar!ListedIsShown, Bar!Requested
  <2>5. Bar!SelectionIsOwn'
    BY <1>12 DEF Bar!Ask, Bar!ResetApproval, Bar!SelectionIsOwn, Bar!TypeOK, Bar!Requested,
        Bar!hasPendingApproval
  <2> QED
    BY <2>1, <2>2, <2>3, <2>4, <2>5
<1>13. ASSUME NEW l \in listing, NEW ok \in BOOLEAN, Bar!FilesListed(l, ok)
       PROVE  Bar!Inv'
  <2>1. Bar!TypeOK'
    <3>1. (barSession \in Sessions /\ drafts \in [Sessions -> Bar!Drafts])'
      BY <1>13 DEF Bar!FilesListed, Bar!TypeOK, Bar!Drafts
    <3>2. (approvalSelectedIndex \in 0..2)'
      BY <1>13 DEF Bar!FilesListed, Bar!TypeOK
    <3>3. (barMenu \in {"none", "model", "permission"})'
      BY <1>13 DEF Bar!FilesListed, Bar!TypeOK
    <3>4. (barClicks \in 0..MaxBarClicks)'
      BY <1>13 DEF Bar!FilesListed, Bar!TypeOK
    <3> QED
      BY <3>1, <3>2, <3>3, <3>4 DEF Bar!TypeOK
  <2>2. Bar!Requested'
    BY <1>13 DEF Bar!FilesListed, Bar!Requested, Bar!TypeOK
  <2>3. Bar!ListedIsShown'
    BY <1>13 DEF Bar!FilesListed, Bar!ListedIsShown, Bar!Requested
  <2>4. Bar!FilesOfProject'
    BY <1>13 DEF Bar!FilesListed, Bar!FilesOfProject, Bar!ListedIsShown, Bar!Requested
  <2>5. Bar!SelectionIsOwn'
    BY <1>13 DEF Bar!FilesListed, Bar!SelectionIsOwn, Bar!TypeOK, Bar!Requested,
        Bar!hasPendingApproval
  <2> QED
    BY <2>1, <2>2, <2>3, <2>4, <2>5
<1>14. ASSUME NEW d \in decided, Bar!Settle(d)
       PROVE  Bar!Inv'
  <2>1. Bar!TypeOK'
    <3>1. (barSession \in Sessions /\ drafts \in [Sessions -> Bar!Drafts])'
      BY <1>14 DEF Bar!Settle, Bar!ResetApproval, Bar!TypeOK, Bar!Drafts
    <3>2. (approvalSelectedIndex \in 0..2)'
      BY <1>14 DEF Bar!Settle, Bar!ResetApproval, Bar!TypeOK
    <3>3. (barMenu \in {"none", "model", "permission"})'
      BY <1>14 DEF Bar!Settle, Bar!ResetApproval, Bar!TypeOK
    <3>4. (barClicks \in 0..MaxBarClicks)'
      BY <1>14 DEF Bar!Settle, Bar!ResetApproval, Bar!TypeOK
    <3> QED
      BY <3>1, <3>2, <3>3, <3>4 DEF Bar!TypeOK
  <2>2. Bar!Requested'
    BY <1>14 DEF Bar!Settle, Bar!ResetApproval, Bar!Requested, Bar!TypeOK
  <2>3. Bar!ListedIsShown'
    BY <1>14 DEF Bar!Settle, Bar!ResetApproval, Bar!ListedIsShown, Bar!Requested
  <2>4. Bar!FilesOfProject'
    BY <1>14 DEF Bar!Settle, Bar!ResetApproval, Bar!FilesOfProject, Bar!ListedIsShown, Bar!Requested
  <2>5. Bar!SelectionIsOwn'
    BY <1>14 DEF Bar!Settle, Bar!ResetApproval, Bar!SelectionIsOwn, Bar!TypeOK, Bar!Requested,
        Bar!hasPendingApproval
  <2> QED
    BY <2>1, <2>2, <2>3, <2>4, <2>5
<1>15. ASSUME NEW step \in {-1, 1}, Bar!ApprovalArrow(step)
       PROVE  Bar!Inv'
  <2>1. Bar!TypeOK'
    <3>1. (barSession \in Sessions /\ drafts \in [Sessions -> Bar!Drafts])'
      BY <1>15 DEF Bar!ApprovalArrow, Bar!TypeOK, Bar!Drafts
    <3>2. (approvalSelectedIndex \in 0..2)'
      BY <1>15 DEF Bar!ApprovalArrow, Bar!TypeOK
    <3>3. (barMenu \in {"none", "model", "permission"})'
      BY <1>15 DEF Bar!ApprovalArrow, Bar!TypeOK
    <3>4. (barClicks \in 0..MaxBarClicks)'
      BY <1>15 DEF Bar!ApprovalArrow, Bar!TypeOK
    <3> QED
      BY <3>1, <3>2, <3>3, <3>4 DEF Bar!TypeOK
  <2>2. Bar!Requested'
    BY <1>15 DEF Bar!ApprovalArrow, Bar!Requested, Bar!TypeOK
  <2>3. Bar!ListedIsShown'
    BY <1>15 DEF Bar!ApprovalArrow, Bar!ListedIsShown, Bar!Requested
  <2>4. Bar!FilesOfProject'
    BY <1>15 DEF Bar!ApprovalArrow, Bar!FilesOfProject, Bar!ListedIsShown, Bar!Requested
  <2>5. Bar!SelectionIsOwn'
    BY <1>15 DEF Bar!ApprovalArrow, Bar!SelectionIsOwn, Bar!TypeOK, Bar!Requested,
        Bar!hasPendingApproval
  <2> QED
    BY <2>1, <2>2, <2>3, <2>4, <2>5
<1>16. ASSUME NEW step \in {-1, 1}, Bar!CommandArrow(step)
       PROVE  Bar!Inv'
  <2>1. Bar!TypeOK'
    <3>1. (barSession \in Sessions /\ drafts \in [Sessions -> Bar!Drafts])'
      BY <1>16 DEF Bar!CommandArrow, Bar!Box, Bar!TypeOK, Bar!Drafts
    <3>2. (approvalSelectedIndex \in 0..2)'
      BY <1>16 DEF Bar!CommandArrow, Bar!Box, Bar!TypeOK
    <3>3. (barMenu \in {"none", "model", "permission"})'
      BY <1>16 DEF Bar!CommandArrow, Bar!Box, Bar!TypeOK
    <3>4. (barClicks \in 0..MaxBarClicks)'
      BY <1>16 DEF Bar!CommandArrow, Bar!Box, Bar!TypeOK
    <3> QED
      BY <3>1, <3>2, <3>3, <3>4 DEF Bar!TypeOK
  <2>2. Bar!Requested'
    BY <1>16 DEF Bar!CommandArrow, Bar!Box, Bar!Requested, Bar!TypeOK
  <2>3. Bar!ListedIsShown'
    BY <1>16 DEF Bar!CommandArrow, Bar!Box, Bar!ListedIsShown, Bar!Requested
  <2>4. Bar!FilesOfProject'
    BY <1>16 DEF Bar!CommandArrow, Bar!Box, Bar!FilesOfProject, Bar!ListedIsShown, Bar!Requested
  <2>5. Bar!SelectionIsOwn'
    BY <1>16 DEF Bar!CommandArrow, Bar!Box, Bar!SelectionIsOwn, Bar!TypeOK, Bar!Requested,
        Bar!hasPendingApproval
  <2> QED
    BY <2>1, <2>2, <2>3, <2>4, <2>5
<1>17. ASSUME NEW step \in {-1, 1}, Bar!FileArrow(step)
       PROVE  Bar!Inv'
  <2>1. Bar!TypeOK'
    <3>1. (barSession \in Sessions /\ drafts \in [Sessions -> Bar!Drafts])'
      BY <1>17 DEF Bar!FileArrow, Bar!Box, Bar!TypeOK, Bar!Drafts
    <3>2. (approvalSelectedIndex \in 0..2)'
      BY <1>17 DEF Bar!FileArrow, Bar!Box, Bar!TypeOK
    <3>3. (barMenu \in {"none", "model", "permission"})'
      BY <1>17 DEF Bar!FileArrow, Bar!Box, Bar!TypeOK
    <3>4. (barClicks \in 0..MaxBarClicks)'
      BY <1>17 DEF Bar!FileArrow, Bar!Box, Bar!TypeOK
    <3> QED
      BY <3>1, <3>2, <3>3, <3>4 DEF Bar!TypeOK
  <2>2. Bar!Requested'
    BY <1>17 DEF Bar!FileArrow, Bar!Box, Bar!Requested, Bar!TypeOK
  <2>3. Bar!ListedIsShown'
    BY <1>17 DEF Bar!FileArrow, Bar!Box, Bar!ListedIsShown, Bar!Requested
  <2>4. Bar!FilesOfProject'
    BY <1>17 DEF Bar!FileArrow, Bar!Box, Bar!FilesOfProject, Bar!ListedIsShown, Bar!Requested
  <2>5. Bar!SelectionIsOwn'
    BY <1>17 DEF Bar!FileArrow, Bar!Box, Bar!SelectionIsOwn, Bar!TypeOK, Bar!Requested,
        Bar!hasPendingApproval
  <2> QED
    BY <2>1, <2>2, <2>3, <2>4, <2>5
<1>18. ASSUME NEW index \in 0..2, Bar!OptionButton(index)
       PROVE  Bar!Inv'
  <2>1. Bar!TypeOK'
    <3>1. (barSession \in Sessions /\ drafts \in [Sessions -> Bar!Drafts])'
      BY <1>18 DEF Bar!OptionButton, Bar!submitApprovalDecision, Bar!TypeOK, Bar!Drafts
    <3>2. (approvalSelectedIndex \in 0..2)'
      BY <1>18 DEF Bar!OptionButton, Bar!submitApprovalDecision, Bar!TypeOK
    <3>3. (barMenu \in {"none", "model", "permission"})'
      BY <1>18 DEF Bar!OptionButton, Bar!submitApprovalDecision, Bar!TypeOK
    <3>4. (barClicks \in 0..MaxBarClicks)'
      BY <1>18 DEF Bar!OptionButton, Bar!submitApprovalDecision, Bar!TypeOK
    <3> QED
      BY <3>1, <3>2, <3>3, <3>4 DEF Bar!TypeOK
  <2>2. Bar!Requested'
    BY <1>18 DEF Bar!OptionButton, Bar!submitApprovalDecision, Bar!Requested, Bar!TypeOK
  <2>3. Bar!ListedIsShown'
    BY <1>18 DEF Bar!OptionButton, Bar!submitApprovalDecision, Bar!ListedIsShown, Bar!Requested
  <2>4. Bar!FilesOfProject'
    BY <1>18 DEF Bar!OptionButton, Bar!submitApprovalDecision, Bar!FilesOfProject, Bar!ListedIsShown,
        Bar!Requested
  <2>5. Bar!SelectionIsOwn'
    BY <1>18 DEF Bar!OptionButton, Bar!submitApprovalDecision, Bar!SelectionIsOwn, Bar!TypeOK,
        Bar!Requested, Bar!hasPendingApproval
  <2> QED
    BY <2>1, <2>2, <2>3, <2>4, <2>5
<1>19. ASSUME NEW q \in {"text", "/", "/x", "@"}, Bar!handleInputChange(q)
       PROVE  Bar!Inv'
  <2>1. Bar!TypeOK'
    <3>1. (barSession \in Sessions /\ drafts \in [Sessions -> Bar!Drafts])'
      BY <1>19 DEF Bar!handleInputChange, Bar!setQuery, Bar!ResetIndices, Bar!query, Bar!Box,
          Bar!TypeOK, Bar!Drafts
    <3>2. (approvalSelectedIndex \in 0..2)'
      BY <1>19 DEF Bar!handleInputChange, Bar!setQuery, Bar!ResetIndices, Bar!query, Bar!Box,
          Bar!TypeOK
    <3>3. (barMenu \in {"none", "model", "permission"})'
      BY <1>19 DEF Bar!handleInputChange, Bar!setQuery, Bar!ResetIndices, Bar!query, Bar!Box,
          Bar!TypeOK
    <3>4. (barClicks \in 0..MaxBarClicks)'
      BY <1>19 DEF Bar!handleInputChange, Bar!setQuery, Bar!ResetIndices, Bar!query, Bar!Box,
          Bar!TypeOK
    <3> QED
      BY <3>1, <3>2, <3>3, <3>4 DEF Bar!TypeOK
  <2>2. Bar!Requested'
    BY <1>19 DEF Bar!handleInputChange, Bar!setQuery, Bar!ResetIndices, Bar!query, Bar!Box,
        Bar!Requested, Bar!TypeOK
  <2>3. Bar!ListedIsShown'
    BY <1>19 DEF Bar!handleInputChange, Bar!setQuery, Bar!ResetIndices, Bar!query, Bar!Box,
        Bar!ListedIsShown, Bar!Requested
  <2>4. Bar!FilesOfProject'
    BY <1>19 DEF Bar!handleInputChange, Bar!setQuery, Bar!ResetIndices, Bar!query, Bar!Box,
        Bar!FilesOfProject, Bar!ListedIsShown, Bar!Requested
  <2>5. Bar!SelectionIsOwn'
    BY <1>19 DEF Bar!handleInputChange, Bar!setQuery, Bar!ResetIndices, Bar!query, Bar!Box,
        Bar!SelectionIsOwn, Bar!TypeOK, Bar!Requested, Bar!hasPendingApproval
  <2> QED
    BY <2>1, <2>2, <2>3, <2>4, <2>5
<1>20. ASSUME NEW m \in {"model", "permission"}, Bar!ToggleMenu(m)
       PROVE  Bar!Inv'
  <2>1. Bar!TypeOK'
    <3>1. (barSession \in Sessions /\ drafts \in [Sessions -> Bar!Drafts])'
      BY <1>20 DEF Bar!ToggleMenu, Bar!TypeOK, Bar!Drafts
    <3>2. (approvalSelectedIndex \in 0..2)'
      BY <1>20 DEF Bar!ToggleMenu, Bar!TypeOK
    <3>3. (barMenu \in {"none", "model", "permission"})'
      BY <1>20 DEF Bar!ToggleMenu, Bar!TypeOK
    <3>4. (barClicks \in 0..MaxBarClicks)'
      BY <1>20 DEF Bar!ToggleMenu, Bar!TypeOK
    <3> QED
      BY <3>1, <3>2, <3>3, <3>4 DEF Bar!TypeOK
  <2>2. Bar!Requested'
    BY <1>20 DEF Bar!ToggleMenu, Bar!Requested, Bar!TypeOK
  <2>3. Bar!ListedIsShown'
    BY <1>20 DEF Bar!ToggleMenu, Bar!ListedIsShown, Bar!Requested
  <2>4. Bar!FilesOfProject'
    BY <1>20 DEF Bar!ToggleMenu, Bar!FilesOfProject, Bar!ListedIsShown, Bar!Requested
  <2>5. Bar!SelectionIsOwn'
    BY <1>20 DEF Bar!ToggleMenu, Bar!SelectionIsOwn, Bar!TypeOK, Bar!Requested,
        Bar!hasPendingApproval
  <2> QED
    BY <2>1, <2>2, <2>3, <2>4, <2>5
<1>21. ASSUME NEW mode \in {"default", "full"}, Bar!PickPermission(mode)
       PROVE  Bar!Inv'
  <2>1. Bar!TypeOK'
    <3>1. (barSession \in Sessions /\ drafts \in [Sessions -> Bar!Drafts])'
      BY <1>21 DEF Bar!PickPermission, Bar!TypeOK, Bar!Drafts
    <3>2. (approvalSelectedIndex \in 0..2)'
      BY <1>21 DEF Bar!PickPermission, Bar!TypeOK
    <3>3. (barMenu \in {"none", "model", "permission"})'
      BY <1>21 DEF Bar!PickPermission, Bar!TypeOK
    <3>4. (barClicks \in 0..MaxBarClicks)'
      BY <1>21 DEF Bar!PickPermission, Bar!TypeOK
    <3> QED
      BY <3>1, <3>2, <3>3, <3>4 DEF Bar!TypeOK
  <2>2. Bar!Requested'
    BY <1>21 DEF Bar!PickPermission, Bar!Requested, Bar!TypeOK
  <2>3. Bar!ListedIsShown'
    BY <1>21 DEF Bar!PickPermission, Bar!ListedIsShown, Bar!Requested
  <2>4. Bar!FilesOfProject'
    BY <1>21 DEF Bar!PickPermission, Bar!FilesOfProject, Bar!ListedIsShown, Bar!Requested
  <2>5. Bar!SelectionIsOwn'
    BY <1>21 DEF Bar!PickPermission, Bar!SelectionIsOwn, Bar!TypeOK, Bar!Requested,
        Bar!hasPendingApproval
  <2> QED
    BY <2>1, <2>2, <2>3, <2>4, <2>5
<1>22. CASE UNCHANGED barVars
  <2>1. Bar!TypeOK'
    <3>1. (barSession \in Sessions /\ drafts \in [Sessions -> Bar!Drafts])'
      BY <1>22 DEF barVars, Bar!TypeOK, Bar!Drafts
    <3>2. (approvalSelectedIndex \in 0..2)'
      BY <1>22 DEF barVars, Bar!TypeOK
    <3>3. (barMenu \in {"none", "model", "permission"})'
      BY <1>22 DEF barVars, Bar!TypeOK
    <3>4. (barClicks \in 0..MaxBarClicks)'
      BY <1>22 DEF barVars, Bar!TypeOK
    <3> QED
      BY <3>1, <3>2, <3>3, <3>4 DEF Bar!TypeOK
  <2>2. Bar!Requested'
    BY <1>22 DEF barVars, Bar!Requested, Bar!TypeOK
  <2>3. Bar!ListedIsShown'
    BY <1>22 DEF barVars, Bar!ListedIsShown, Bar!Requested
  <2>4. Bar!FilesOfProject'
    BY <1>22 DEF barVars, Bar!FilesOfProject, Bar!ListedIsShown, Bar!Requested
  <2>5. Bar!SelectionIsOwn'
    BY <1>22 DEF barVars, Bar!SelectionIsOwn, Bar!TypeOK, Bar!Requested, Bar!hasPendingApproval
  <2> QED
    BY <2>1, <2>2, <2>3, <2>4, <2>5
<1> QED
  BY <1>1, <1>2, <1>3, <1>4, <1>5, <1>6, <1>7, <1>8, <1>9, <1>10, <1>11, <1>12, <1>13, <1>14, <1>15,
      <1>16, <1>17, <1>18, <1>19, <1>20, <1>21, <1>22 DEF Bar!Next

(* For all sessions and projects: the files and the selected decision       *)
(* belong to the session on display.                                        *)
THEOREM BarAlwaysOfSession == Spec => []BarIsOfSession
<1> DEFINE I == focus = "bar" => Bar!Inv
<1>1. Init => I
  BY BarInit DEF Init
<1>2. I /\ [Next]_vars => I'
  BY OneEditor, BarStep
<1>3. I => BarIsOfSession
  BY DEF BarIsOfSession, Bar!Inv
<1> QED
  BY <1>1, <1>2, <1>3, PTL DEF Spec

----------------------------------------------------------------------------
(* Automations                                                              *)

(* The empty expression is no trigger and no repository.                    *)
LEMMA EmptyIsNone ==
    /\ Automation!Empty \notin Automation!Crons /\ Automation!Empty \notin Repos /\ Automation!Empty # Null
    /\ Null \notin Automation!Crons /\ Null \notin Repos /\ Null \notin Supported /\ Null \notin Ids
BY AutomationAssumption, Zenon DEF Automation!Empty, Automation!Crons

(* A record without a schedule is a record.                                 *)
LEMMA AbsentIsRecord == Automation!Absent \in Automation!Schedules
<1>1. Daily \in Automation!Crons
  BY AutomationAssumption DEF Automation!Crons
<1> QED
  BY <1>1 DEF Automation!Absent, Automation!Schedules

(* An editor that is opened has fields, and its trigger can be read or      *)
(* typed.                                                                   *)
LEMMA OpensWithFields ==
    ASSUME NEW rec \in Automation!Schedules
    PROVE  /\ Automation!FormOf(rec) \in Automation!Forms
           /\ Automation!FormOf(rec).customMode => Automation!FormOf(rec).cron # Null
           /\ Automation!FormOf(rec).cron # Null /\ ~Automation!FormOf(rec).customMode => Automation!FormOf(rec).cron \in Presets
<1>1. /\ rec.text \in 0..1 /\ rec.cron \in Automation!Crons /\ rec.repo \in Repos \cup {Null} /\ rec.enabled \in BOOLEAN
      /\ rec.on \in BOOLEAN
  BY DEF Automation!Schedules
<1> DEFINE cron == IF rec.on THEN rec.cron ELSE Null
           mode == rec.on /\ Automation!IsCustom(rec.cron)
<1>2. cron \in Automation!Crons \cup {Null, Automation!Empty}
  BY <1>1
<1>3. mode \in BOOLEAN
  OBVIOUS
<1>4. (mode => cron # Null) /\ (cron # Null /\ ~mode => cron \in Presets)
  BY <1>1, EmptyIsNone DEF Automation!IsCustom
<1>5. Automation!FormOf(rec) = [text |-> rec.text, cron |-> cron, customMode |-> mode, repo |-> rec.repo,
                                enabled |-> rec.enabled, override |-> Null]
  BY DEF Automation!FormOf
<1> HIDE DEF cron, mode
<1>6. Automation!FormOf(rec).cron = cron /\ Automation!FormOf(rec).customMode = mode
  BY <1>5
<1>7. Automation!FormOf(rec) \in Automation!Forms
  BY <1>1, <1>2, <1>3, <1>5 DEF Automation!Forms
<1> QED
  BY <1>4, <1>6, <1>7

(* The editor that is mounted by a navigation is one of these.              *)
LEMMA MountsEditor ==
    ASSUME Automation!Listed, NEW p, NEW id \in Ids \cup {Null}, Automation!GoTo(p, id)
    PROVE  autoForm' \in Automation!Forms /\ Automation!TriggerEditable'
<1> DEFINE rec == IF id = Null THEN Automation!Absent ELSE autoList[id]
<1>1. rec \in Automation!Schedules
  BY AbsentIsRecord DEF Automation!Listed
<1>2. autoForm' = Automation!FormOf(rec)
  BY DEF Automation!GoTo
<1> HIDE DEF rec
<1> QED
  BY <1>1, <1>2, OpensWithFields DEF Automation!TriggerEditable, Automation!HasTrigger

(* The model that is shown is offered, or there is none yet.                *)
LEMMA ShownIsOffered ==
    ASSUME Automation!Fields
    PROVE  Automation!activeSelection \in Supported \cup {Null}
<1>1. autoForm.override \in Supported \cup {Null}
  BY DEF Automation!Fields, Automation!Forms
<1>2. Automation!scheduleToSelection(Automation!Record) \in Supported \cup {Null}
  BY DEF Automation!scheduleToSelection
<1>3. Automation!defaultSelection \in Supported \cup {Null}
  BY AutomationAssumption DEF Automation!defaultSelection, Automation!toSupportedSelection, Automation!Or
<1> QED
  BY <1>1, <1>2, <1>3 DEF Automation!activeSelection, Automation!Or

(* What a call carries.                                                     *)
LEMMA CallCarries ==
    ASSUME Automation!Fields, NEW kind \in {"create", "update", "delete", "toggle"}, NEW id \in Ids \cup {Null},
           NEW repo \in Repos \cup {Null, Automation!Empty}, NEW on \in BOOLEAN
    PROVE  /\ Automation!Body(kind, id, repo, on) \in Automation!Calls
           /\ Automation!Body(kind, id, repo, on).kind = kind
           /\ Automation!Body(kind, id, repo, on).text = autoForm.text
           /\ Automation!Body(kind, id, repo, on).cron = autoForm.cron
           /\ Automation!Body(kind, id, repo, on).repo = repo
           /\ Automation!Body(kind, id, repo, on).enabled = on
           /\ Automation!Body(kind, id, repo, on).shown = autoForm
           /\ Automation!Body(kind, id, repo, on).model \in Supported \cup {Null}
<1> DEFINE model == IF Automation!modelIsReal THEN Automation!activeSelection ELSE Null
<1>1. model \in Supported \cup {Null}
  BY ShownIsOffered
<1>2. Automation!Body(kind, id, repo, on) =
        [kind |-> kind, id |-> id, text |-> autoForm.text, cron |-> autoForm.cron, repo |-> repo, enabled |-> on,
         model |-> model, shown |-> autoForm, here |-> TRUE]
  BY DEF Automation!Body
<1>3. autoForm \in Automation!Forms /\ autoForm.text \in 0..1 /\ autoForm.cron \in Automation!Crons \cup {Null, Automation!Empty}
  BY DEF Automation!Fields, Automation!Forms
<1> HIDE DEF model
<1>4. Automation!Body(kind, id, repo, on) \in Automation!Calls
  BY <1>1, <1>2, <1>3 DEF Automation!Calls
<1> QED
  BY <1>1, <1>2, <1>4

(* A call that is added to those on their way keeps what is known of them.  *)
LEMMA SendsCall ==
    ASSUME Automation!Fields, Automation!SaysWhatWasShown, Automation!SavedModelSupported, UNCHANGED autoForm,
           NEW c \in Automation!Calls, Automation!Mutate(c), c.model \in Supported \cup {Null},
           c.kind \in {"create", "update"} =>
               /\ c.text = c.shown.text /\ c.cron = c.shown.cron /\ c.cron \in Automation!Crons
               /\ c.repo = IF c.shown.repo = Null /\ c.kind = "update" THEN Automation!Empty ELSE c.shown.repo
               /\ c.kind = "update" => c.enabled = c.shown.enabled
    PROVE  Automation!Fields' /\ Automation!SaysWhatWasShown' /\ Automation!SavedModelSupported'
<1>1. autoCalls' = autoCalls \cup {c}
  BY DEF Automation!Mutate
<1>2. Automation!Fields'
  BY <1>1 DEF Automation!Fields
<1>3. Automation!SaysWhatWasShown'
  BY <1>1 DEF Automation!SaysWhatWasShown
<1>4. Automation!SavedModelSupported'
  BY <1>1 DEF Automation!SavedModelSupported
<1> QED
  BY <1>2, <1>3, <1>4

(* Deleting, pausing and saving send a call that says what was shown.       *)
LEMMA DeleteSends ==
    ASSUME Automation!TypeOK, Automation!Fields, Automation!SaysWhatWasShown, Automation!SavedModelSupported, Automation!handleDelete
    PROVE  Automation!Fields' /\ Automation!SaysWhatWasShown' /\ Automation!SavedModelSupported'
<1> DEFINE call == Automation!Body("delete", editing, Null, autoForm.enabled)
<1>1. autoForm.enabled \in BOOLEAN /\ editing \in Ids \cup {Null}
  BY DEF Automation!Fields, Automation!Forms, Automation!TypeOK
<1>2. call \in Automation!Calls /\ call.kind = "delete" /\ call.model \in Supported \cup {Null}
  BY <1>1, CallCarries
<1>3. Automation!Mutate(call) /\ UNCHANGED autoForm
  BY DEF Automation!handleDelete
<1> HIDE DEF call
<1> QED
  BY <1>2, <1>3, SendsCall

(* The pause button of a row.                                               *)
LEMMA ToggleSends ==
    ASSUME Automation!Fields, Automation!SaysWhatWasShown, Automation!SavedModelSupported, NEW id \in Ids, Automation!onToggle(id)
    PROVE  Automation!Fields' /\ Automation!SaysWhatWasShown' /\ Automation!SavedModelSupported'
<1> DEFINE on == ~autoList[id].enabled
           call == Automation!Body("toggle", id, Null, on)
<1>1. on \in BOOLEAN
  OBVIOUS
<1>2. Automation!Mutate(call) /\ UNCHANGED autoForm
  BY DEF Automation!onToggle
<1> HIDE DEF on
<1>3. call \in Automation!Calls /\ call.kind = "toggle" /\ call.model \in Supported \cup {Null}
  BY <1>1, CallCarries
<1> HIDE DEF call
<1> QED
  BY <1>2, <1>3, SendsCall

(* The save button.                                                         *)
LEMMA SaveSends ==
    ASSUME Automation!TypeOK, Automation!Fields, Automation!SaysWhatWasShown, Automation!SavedModelSupported, Automation!handleSave
    PROVE  Automation!Fields' /\ Automation!SaysWhatWasShown' /\ Automation!SavedModelSupported'
<1> DEFINE on == TRUE
           new == Automation!Body("create", Null, autoForm.repo, on)
           repo == IF autoForm.repo = Null THEN Automation!Empty ELSE autoForm.repo
           old == Automation!Body("update", editing, repo, autoForm.enabled)
<1>1. /\ autoForm.enabled \in BOOLEAN /\ autoForm.repo \in Repos \cup {Null} /\ editing \in Ids \cup {Null}
      /\ autoForm.cron \in Automation!Crons
  BY DEF Automation!handleSave, Automation!canSave, Automation!HasTrigger, Automation!Fields, Automation!Forms, Automation!TypeOK
<1>2. repo \in Repos \cup {Null, Automation!Empty} /\ on \in BOOLEAN
  BY <1>1
<1>3. Automation!Mutate(IF autoPage = "new" THEN new ELSE old) /\ UNCHANGED autoForm
  BY DEF Automation!handleSave
<1> HIDE DEF repo, on
<1>4. /\ new \in Automation!Calls /\ new.kind = "create" /\ new.model \in Supported \cup {Null} /\ new.shown = autoForm
      /\ new.text = autoForm.text /\ new.cron = autoForm.cron /\ new.repo = autoForm.repo
  BY <1>1, <1>2, CallCarries
<1>5. /\ old \in Automation!Calls /\ old.kind = "update" /\ old.model \in Supported \cup {Null} /\ old.shown = autoForm
      /\ old.text = autoForm.text /\ old.cron = autoForm.cron /\ old.repo = repo /\ old.enabled = autoForm.enabled
  BY <1>1, <1>2, CallCarries
<1> HIDE DEF new, old
<1>6. CASE autoPage = "new"
  BY <1>1, <1>3, <1>4, <1>6, SendsCall
<1>7. CASE autoPage # "new"
  BY <1>1, <1>3, <1>5, <1>7, SendsCall DEF repo
<1> QED
  BY <1>6, <1>7

(* A trigger that is picked is a preset, or has a box to type in.           *)
LEMMA PicksTrigger ==
    ASSUME Automation!Fields, NEW option \in Presets \cup {Null}, autoForm' = Automation!onPickTrigger(option)
    PROVE  autoForm' \in Automation!Forms /\ Automation!TriggerEditable'
<1>1. CASE option = Null
  <2> DEFINE cron == IF autoForm.cron = Null THEN Daily ELSE autoForm.cron
  <2>1. autoForm' = [autoForm EXCEPT !.customMode = TRUE, !.cron = cron]
    BY <1>1 DEF Automation!onPickTrigger
  <2>2. autoForm \in Automation!Forms
    BY DEF Automation!Fields
  <2>3. cron \in Automation!Crons \cup {Null, Automation!Empty} /\ cron # Null
    BY <2>2, AutomationAssumption, EmptyIsNone DEF Automation!Forms, Automation!Crons
  <2> HIDE DEF cron
  <2>4. autoForm' \in Automation!Forms /\ autoForm'.cron = cron /\ autoForm'.customMode = TRUE
    BY <2>1, <2>2, <2>3 DEF Automation!Forms
  <2> QED
    BY <2>3, <2>4 DEF Automation!TriggerEditable, Automation!HasTrigger
<1>2. CASE option # Null
  <2>1. autoForm' = [autoForm EXCEPT !.customMode = FALSE, !.cron = option]
    BY <1>2 DEF Automation!onPickTrigger
  <2>2. autoForm \in Automation!Forms /\ option \in Automation!Crons \cup {Null, Automation!Empty} /\ option \in Presets
    BY <1>2 DEF Automation!Fields, Automation!Crons
  <2>3. autoForm' \in Automation!Forms /\ autoForm'.cron = option /\ autoForm'.customMode = FALSE
    BY <2>1, <2>2 DEF Automation!Forms
  <2> QED
    BY <2>2, <2>3 DEF Automation!TriggerEditable
<1> QED
  BY <1>1, <1>2

(* An editor that is left hears no more of its calls, which stay as they    *)
(* were.                                                                    *)
LEMMA LeavesCalls ==
    ASSUME Automation!Fields, Automation!SaysWhatWasShown, Automation!SavedModelSupported, Automation!Leave
    PROVE  autoCalls' \subseteq Automation!Calls /\ Automation!SaysWhatWasShown' /\ Automation!SavedModelSupported'
<1> DEFINE left(c) == [c EXCEPT !.here = FALSE]
<1>1. autoCalls' = {left(c) : c \in autoCalls} /\ autoCalls \subseteq Automation!Calls
  BY DEF Automation!Leave, Automation!Fields
<1>2. ASSUME NEW c \in Automation!Calls
      PROVE  /\ left(c) \in Automation!Calls /\ left(c).kind = c.kind /\ left(c).text = c.text /\ left(c).cron = c.cron
             /\ left(c).repo = c.repo /\ left(c).enabled = c.enabled /\ left(c).model = c.model /\ left(c).shown = c.shown
  BY DEF Automation!Calls
<1> HIDE DEF left
<1>3. autoCalls' \subseteq Automation!Calls
  BY <1>1, <1>2
<1>4. Automation!SaysWhatWasShown'
  <2> SUFFICES ASSUME NEW c \in autoCalls, c \in Automation!Calls, left(c).kind \in {"create", "update"}
               PROVE  /\ left(c).text = left(c).shown.text /\ left(c).cron = left(c).shown.cron /\ left(c).cron \in Automation!Crons
                      /\ left(c).repo = IF left(c).shown.repo = Null /\ left(c).kind = "update" THEN Automation!Empty ELSE left(c).shown.repo
                      /\ left(c).kind = "update" => left(c).enabled = left(c).shown.enabled
    BY <1>1 DEF Automation!SaysWhatWasShown
  <2> QED
    BY <1>2 DEF Automation!SaysWhatWasShown
<1>5. Automation!SavedModelSupported'
  BY <1>1, <1>2 DEF Automation!SavedModelSupported
<1> QED
  BY <1>3, <1>4, <1>5

(* What the server makes of a call is a record.                             *)
LEMMA ServesRecords ==
    ASSUME Automation!Listed, Automation!Fields, Automation!Defaults, Automation!SaysWhatWasShown,
           NEW c \in autoCalls, NEW id \in Ids
    PROVE  /\ Automation!Served(c, id) \in [Ids -> Automation!Schedules]
           /\ c.kind \in {"create", "update"} => Automation!Matches(Automation!Served(c, id)[id], c.shown)
           /\ c.kind = "update" => Automation!Served(c, id)[id].enabled = c.shown.enabled
<1> DEFINE S == Automation!Schedules
<1>1. /\ c.kind \in {"create", "update", "delete", "toggle"} /\ c.text \in 0..1 /\ c.repo \in Repos \cup {Null, Automation!Empty}
      /\ c.enabled \in BOOLEAN /\ c.model \in Supported \cup {Null} /\ c.shown \in Automation!Forms
  BY DEF Automation!Fields, Automation!Calls
<1>2. /\ autoServer \in [Ids -> S] /\ autoServer[id] \in S /\ Automation!Absent \in S
      /\ Automation!Absent.repo = Null
  BY AbsentIsRecord DEF Automation!Listed, Automation!Absent
<1>3. ASSUME NEW rec \in S, c.kind = "toggle"
      PROVE  Automation!Patched(rec, c) \in S
  BY <1>1, <1>3 DEF Automation!Patched, Automation!Schedules
<1>4. ASSUME NEW rec \in S, c.kind \in {"create", "update"}, c.kind = "create" => rec.repo = Null
      PROVE  /\ Automation!Patched(rec, c) \in S /\ Automation!Matches(Automation!Patched(rec, c), c.shown)
             /\ Automation!Patched(rec, c).enabled = c.enabled
  <2> DEFINE repo == IF c.repo = Null THEN rec.repo ELSE IF c.repo = Automation!Empty THEN Null ELSE c.repo
             model == IF c.model = Null THEN rec.model ELSE c.model
  <2>1. Automation!Patched(rec, c) = [rec EXCEPT !.text = c.text, !.cron = c.cron, !.enabled = c.enabled,
                                          !.model = model, !.repo = repo]
    BY <1>4 DEF Automation!Patched
  <2>2. c.cron \in Automation!Crons /\ c.text = c.shown.text /\ c.cron = c.shown.cron
    BY <1>4 DEF Automation!SaysWhatWasShown
  <2>3. c.shown.repo \in Repos \cup {Null}
    BY <1>1 DEF Automation!Forms
  <2>4. repo = c.shown.repo
    BY <1>1, <1>4, <2>3, EmptyIsNone DEF Automation!SaysWhatWasShown
  <2>5. model \in Supported \cup Retired \cup {Null}
    BY <1>1 DEF Automation!Schedules
  <2> HIDE DEF repo, model
  <2>6. Automation!Patched(rec, c) \in S
    BY <1>1, <2>1, <2>2, <2>3, <2>4, <2>5 DEF Automation!Schedules
  <2>7. /\ Automation!Patched(rec, c).text = c.text /\ Automation!Patched(rec, c).cron = c.cron
        /\ Automation!Patched(rec, c).repo = repo /\ Automation!Patched(rec, c).enabled = c.enabled
    BY <2>1 DEF Automation!Schedules
  <2> QED
    BY <2>2, <2>4, <2>6, <2>7 DEF Automation!Matches
<1>5. CASE c.kind = "create"
  <2> DEFINE rec == Automation!Patched(Automation!Absent, c)
             model == Automation!Or(c.model, Automation!Profile)
             made == [rec EXCEPT !.on = TRUE, !.model = model]
  <2>1. Automation!Served(c, id) = [autoServer EXCEPT ![id] = made]
    BY <1>5 DEF Automation!Served
  <2>2. rec \in S /\ Automation!Matches(rec, c.shown)
    BY <1>2, <1>4, <1>5
  <2>3. model \in Supported \cup Retired \cup {Null}
    BY <1>1, AutomationAssumption DEF Automation!Or, Automation!Profile, Automation!Defaults
  <2> HIDE DEF rec, model
  <2>4. made \in S /\ made.cron = rec.cron /\ made.repo = rec.repo /\ made.text = rec.text
    BY <2>2, <2>3 DEF Automation!Schedules
  <2> HIDE DEF made
  <2> QED
    BY <1>2, <1>5, <2>1, <2>2, <2>4 DEF Automation!Matches
<1>6. CASE c.kind = "delete"
  <2>1. Automation!Served(c, id) = [autoServer EXCEPT ![id] = Automation!Absent]
    BY <1>6 DEF Automation!Served
  <2> QED
    BY <1>2, <1>6, <2>1
<1>7. CASE c.kind = "update"
  <2> DEFINE rec == Automation!Patched(autoServer[id], c)
  <2>1. Automation!Served(c, id) = [autoServer EXCEPT ![id] = rec]
    BY <1>7 DEF Automation!Served
  <2>2. rec \in S /\ Automation!Matches(rec, c.shown) /\ rec.enabled = c.enabled
    BY <1>2, <1>4, <1>7
  <2>3. c.enabled = c.shown.enabled
    BY <1>7 DEF Automation!SaysWhatWasShown
  <2> HIDE DEF rec
  <2> QED
    BY <1>2, <1>7, <2>1, <2>2, <2>3
<1>8. CASE c.kind = "toggle"
  <2> DEFINE rec == Automation!Patched(autoServer[id], c)
  <2>1. Automation!Served(c, id) = [autoServer EXCEPT ![id] = rec]
    BY <1>8 DEF Automation!Served
  <2>2. rec \in S
    BY <1>2, <1>3, <1>8
  <2> HIDE DEF rec
  <2> QED
    BY <1>2, <1>8, <2>1, <2>2
<1> QED
  BY <1>1, <1>5, <1>6, <1>7, <1>8

(* The invariant of the automation pages holds at first.                    *)
LEMMA AutomationInit == Automation!Init => Automation!Inv
<1> SUFFICES ASSUME Automation!Init PROVE Automation!Inv
  OBVIOUS
<1>1. Automation!TypeOK
  BY BoundAssumption, EmptyIsNone DEF Automation!Init, Automation!TypeOK
<1>2. Automation!Fields
  BY AbsentIsRecord, OpensWithFields DEF Automation!Init, Automation!Fields
<1>3. Automation!Listed
  <2>1. PICK r \in Automation!Records : autoServer = [i \in Ids |-> IF i = Automation!One THEN r ELSE Automation!Absent]
    BY Zenon DEF Automation!Init
  <2>2. r \in Automation!Schedules
    <3> DEFINE yes == TRUE
               one == 1
    <3>1. /\ r = [on |-> yes, text |-> one, cron |-> r.cron, repo |-> r.repo, enabled |-> yes, model |-> r.model]
          /\ r.cron \in Automation!Crons /\ r.repo \in Repos \cup {Null} /\ r.model \in Supported \cup Retired \cup {Null}
      BY DEF Automation!Records, Automation!Crons
    <3>2. yes \in BOOLEAN /\ one \in 0..1
      OBVIOUS
    <3> HIDE DEF yes, one
    <3> QED
      BY <3>1, <3>2 DEF Automation!Schedules
  <2>3. autoServer \in [Ids -> Automation!Schedules]
    BY <2>1, <2>2, AbsentIsRecord
  <2>4. autoList = autoServer /\ autoListAsked = {}
    BY Zenon DEF Automation!Init
  <2> QED
    BY <2>3, <2>4 DEF Automation!Listed
<1>4. Automation!Defaults
  BY BoundAssumption, EmptyIsNone DEF Automation!Init, Automation!Defaults
<1>5. Automation!Opened
  BY BoundAssumption, EmptyIsNone DEF Automation!Init, Automation!Opened, Automation!GoTo,
      Automation!Shown
<1>6. Automation!SaysWhatWasShown
  BY BoundAssumption, EmptyIsNone DEF Automation!Init, Automation!SaysWhatWasShown
<1>7. Automation!TriggerEditable
  BY AbsentIsRecord, OpensWithFields DEF Automation!Init, Automation!TriggerEditable, Automation!HasTrigger
<1>8. Automation!SavedAsShown
  BY BoundAssumption, EmptyIsNone DEF Automation!Init, Automation!SavedAsShown
<1>9. Automation!SavedModelSupported
  BY BoundAssumption, EmptyIsNone DEF Automation!Init, Automation!SavedModelSupported
<1> QED
  BY <1>1, <1>2, <1>3, <1>4, <1>5, <1>6, <1>7, <1>8, <1>9 DEF Automation!Inv

(* Every action of the automation pages keeps its invariant.                *)
LEMMA AutomationStep ==
    ASSUME Automation!Inv, [Automation!Next]_autoVars
    PROVE  Automation!Inv'
<1> USE BoundAssumption, EmptyIsNone DEF Automation!Inv, Automation!Click, Automation!data, Automation!prefs
<1>1. CASE Automation!OptionsLoaded
  <2>1. Automation!TypeOK'
    <3>1. (autoPage \in {"list", "new", "edit"} /\ menu \in {"none", "trigger", "repo", "model"})'
      BY <1>1 DEF Automation!OptionsLoaded, Automation!TypeOK, Automation!GoTo
    <3>2. (editing \in Ids \cup {Null})'
      BY <1>1 DEF Automation!OptionsLoaded, Automation!TypeOK, Automation!GoTo
    <3>3. (autoClicks \in 0..MaxClicks)'
      BY <1>1 DEF Automation!OptionsLoaded, Automation!TypeOK
    <3> QED
      BY <3>1, <3>2, <3>3 DEF Automation!TypeOK
  <2>2. Automation!Fields'
    <3>1. (autoForm \in Automation!Forms)'
      BY <1>1 DEF Automation!OptionsLoaded, Automation!Fields, Automation!Forms, Automation!Crons,
          Automation!onPickTrigger, Automation!combos
    <3>2. (autoCalls \subseteq Automation!Calls)'
      BY <1>1 DEF Automation!OptionsLoaded, Automation!Fields
    <3> QED
      BY <3>1, <3>2 DEF Automation!Fields
  <2>3. Automation!Listed'
    BY <1>1 DEF Automation!OptionsLoaded, Automation!Listed
  <2>4. Automation!Defaults'
    BY <1>1 DEF Automation!OptionsLoaded, Automation!Defaults
  <2>5. Automation!Opened'
    BY <1>1 DEF Automation!OptionsLoaded, Automation!Opened, Automation!GoTo, Automation!Shown
  <2>6. Automation!SaysWhatWasShown'
    BY <1>1 DEF Automation!OptionsLoaded, Automation!SaysWhatWasShown
  <2>7. Automation!TriggerEditable'
    BY <1>1 DEF Automation!OptionsLoaded, Automation!TriggerEditable, Automation!HasTrigger,
        Automation!onPickTrigger, Automation!Fields, Automation!Forms, Automation!Crons
  <2>8. Automation!SavedAsShown'
    BY <1>1 DEF Automation!OptionsLoaded, Automation!SavedAsShown
  <2>9. Automation!SavedModelSupported'
    BY <1>1 DEF Automation!OptionsLoaded, Automation!SavedModelSupported
  <2> QED
    BY <2>1, <2>2, <2>3, <2>4, <2>5, <2>6, <2>7, <2>8, <2>9
<1>2. CASE Automation!OpenNew
  <2>1. Automation!TypeOK'
    <3>1. (autoPage \in {"list", "new", "edit"} /\ menu \in {"none", "trigger", "repo", "model"})'
      BY <1>2 DEF Automation!OpenNew, Automation!TypeOK, Automation!GoTo
    <3>2. (editing \in Ids \cup {Null})'
      BY <1>2 DEF Automation!OpenNew, Automation!TypeOK, Automation!GoTo
    <3>3. (autoClicks \in 0..MaxClicks)'
      BY <1>2 DEF Automation!OpenNew, Automation!TypeOK
    <3> QED
      BY <3>1, <3>2, <3>3 DEF Automation!TypeOK
  <2>2. Automation!Fields'
    <3>1. Automation!GoTo("new", Null)
      BY <1>2 DEF Automation!OpenNew
    <3>2. autoForm' \in Automation!Forms
      BY <3>1, MountsEditor
    <3> QED
      BY <1>2, <3>2 DEF Automation!OpenNew, Automation!Fields
  <2>3. Automation!Listed'
    BY <1>2 DEF Automation!OpenNew, Automation!Listed
  <2>4. Automation!Defaults'
    BY <1>2 DEF Automation!OpenNew, Automation!Defaults
  <2>5. Automation!Opened'
    BY <1>2 DEF Automation!OpenNew, Automation!Opened, Automation!GoTo, Automation!Shown
  <2>6. Automation!SaysWhatWasShown'
    BY <1>2 DEF Automation!OpenNew, Automation!SaysWhatWasShown
  <2>7. Automation!TriggerEditable'
    <3>1. Automation!GoTo("new", Null)
      BY <1>2 DEF Automation!OpenNew
    <3> QED
      BY <3>1, MountsEditor
  <2>8. Automation!SavedAsShown'
    BY <1>2 DEF Automation!OpenNew, Automation!SavedAsShown
  <2>9. Automation!SavedModelSupported'
    BY <1>2 DEF Automation!OpenNew, Automation!SavedModelSupported
  <2> QED
    BY <2>1, <2>2, <2>3, <2>4, <2>5, <2>6, <2>7, <2>8, <2>9
<1>3. CASE Automation!Leave
  <2>1. Automation!TypeOK'
    <3>1. (autoPage \in {"list", "new", "edit"} /\ menu \in {"none", "trigger", "repo", "model"})'
      BY <1>3 DEF Automation!Leave, Automation!TypeOK, Automation!GoTo
    <3>2. (editing \in Ids \cup {Null})'
      BY <1>3 DEF Automation!Leave, Automation!TypeOK, Automation!GoTo
    <3>3. (autoClicks \in 0..MaxClicks)'
      BY <1>3 DEF Automation!Leave, Automation!TypeOK
    <3> QED
      BY <3>1, <3>2, <3>3 DEF Automation!TypeOK
  <2>2. Automation!Fields'
    <3>1. Automation!GoTo("list", Null)
      BY <1>3 DEF Automation!Leave
    <3>2. autoForm' \in Automation!Forms
      BY <3>1, MountsEditor
    <3> QED
      BY <1>3, <3>2, LeavesCalls DEF Automation!Leave, Automation!Fields
  <2>3. Automation!Listed'
    BY <1>3 DEF Automation!Leave, Automation!Listed
  <2>4. Automation!Defaults'
    BY <1>3 DEF Automation!Leave, Automation!Defaults
  <2>5. Automation!Opened'
    BY <1>3 DEF Automation!Leave, Automation!Opened, Automation!GoTo, Automation!Shown
  <2>6. Automation!SaysWhatWasShown'
    BY <1>3, LeavesCalls
  <2>7. Automation!TriggerEditable'
    <3>1. Automation!GoTo("list", Null)
      BY <1>3 DEF Automation!Leave
    <3> QED
      BY <3>1, MountsEditor
  <2>8. Automation!SavedAsShown'
    BY <1>3 DEF Automation!Leave, Automation!SavedAsShown
  <2>9. Automation!SavedModelSupported'
    BY <1>3, LeavesCalls
  <2> QED
    BY <2>1, <2>2, <2>3, <2>4, <2>5, <2>6, <2>7, <2>8, <2>9
<1>4. CASE Automation!Switch
  <2>1. Automation!TypeOK'
    <3>1. (autoPage \in {"list", "new", "edit"} /\ menu \in {"none", "trigger", "repo", "model"})'
      BY <1>4 DEF Automation!Switch, Automation!Edit, Automation!TypeOK, Automation!GoTo
    <3>2. (editing \in Ids \cup {Null})'
      BY <1>4 DEF Automation!Switch, Automation!Edit, Automation!TypeOK, Automation!GoTo
    <3>3. (autoClicks \in 0..MaxClicks)'
      BY <1>4 DEF Automation!Switch, Automation!Edit, Automation!TypeOK
    <3> QED
      BY <3>1, <3>2, <3>3 DEF Automation!TypeOK
  <2>2. Automation!Fields'
    <3>1. (autoForm \in Automation!Forms)'
      BY <1>4 DEF Automation!Switch, Automation!Edit, Automation!Fields, Automation!Forms,
          Automation!Crons, Automation!onPickTrigger, Automation!combos
    <3>2. (autoCalls \subseteq Automation!Calls)'
      BY <1>4 DEF Automation!Switch, Automation!Edit, Automation!Fields
    <3> QED
      BY <3>1, <3>2 DEF Automation!Fields
  <2>3. Automation!Listed'
    BY <1>4 DEF Automation!Switch, Automation!Edit, Automation!Listed
  <2>4. Automation!Defaults'
    BY <1>4 DEF Automation!Switch, Automation!Edit, Automation!Defaults
  <2>5. Automation!Opened'
    BY <1>4 DEF Automation!Switch, Automation!Edit, Automation!Opened, Automation!GoTo,
        Automation!Shown
  <2>6. Automation!SaysWhatWasShown'
    BY <1>4 DEF Automation!Switch, Automation!Edit, Automation!SaysWhatWasShown
  <2>7. Automation!TriggerEditable'
    BY <1>4 DEF Automation!Switch, Automation!Edit, Automation!TriggerEditable,
        Automation!HasTrigger, Automation!onPickTrigger, Automation!Fields, Automation!Forms,
        Automation!Crons
  <2>8. Automation!SavedAsShown'
    BY <1>4 DEF Automation!Switch, Automation!Edit, Automation!SavedAsShown
  <2>9. Automation!SavedModelSupported'
    BY <1>4 DEF Automation!Switch, Automation!Edit, Automation!SavedModelSupported
  <2> QED
    BY <2>1, <2>2, <2>3, <2>4, <2>5, <2>6, <2>7, <2>8, <2>9
<1>5. CASE Automation!RemoveTrigger
  <2>1. Automation!TypeOK'
    <3>1. (autoPage \in {"list", "new", "edit"} /\ menu \in {"none", "trigger", "repo", "model"})'
      BY <1>5 DEF Automation!RemoveTrigger, Automation!Edit, Automation!TypeOK, Automation!GoTo
    <3>2. (editing \in Ids \cup {Null})'
      BY <1>5 DEF Automation!RemoveTrigger, Automation!Edit, Automation!TypeOK, Automation!GoTo
    <3>3. (autoClicks \in 0..MaxClicks)'
      BY <1>5 DEF Automation!RemoveTrigger, Automation!Edit, Automation!TypeOK
    <3> QED
      BY <3>1, <3>2, <3>3 DEF Automation!TypeOK
  <2>2. Automation!Fields'
    <3>1. (autoForm \in Automation!Forms)'
      BY <1>5 DEF Automation!RemoveTrigger, Automation!Edit, Automation!Fields, Automation!Forms,
          Automation!Crons, Automation!onPickTrigger, Automation!combos
    <3>2. (autoCalls \subseteq Automation!Calls)'
      BY <1>5 DEF Automation!RemoveTrigger, Automation!Edit, Automation!Fields
    <3> QED
      BY <3>1, <3>2 DEF Automation!Fields
  <2>3. Automation!Listed'
    BY <1>5 DEF Automation!RemoveTrigger, Automation!Edit, Automation!Listed
  <2>4. Automation!Defaults'
    BY <1>5 DEF Automation!RemoveTrigger, Automation!Edit, Automation!Defaults
  <2>5. Automation!Opened'
    BY <1>5 DEF Automation!RemoveTrigger, Automation!Edit, Automation!Opened, Automation!GoTo,
        Automation!Shown
  <2>6. Automation!SaysWhatWasShown'
    BY <1>5 DEF Automation!RemoveTrigger, Automation!Edit, Automation!SaysWhatWasShown
  <2>7. Automation!TriggerEditable'
    BY <1>5 DEF Automation!RemoveTrigger, Automation!Edit, Automation!TriggerEditable,
        Automation!HasTrigger, Automation!onPickTrigger, Automation!Fields, Automation!Forms,
        Automation!Crons
  <2>8. Automation!SavedAsShown'
    BY <1>5 DEF Automation!RemoveTrigger, Automation!Edit, Automation!SavedAsShown
  <2>9. Automation!SavedModelSupported'
    BY <1>5 DEF Automation!RemoveTrigger, Automation!Edit, Automation!SavedModelSupported
  <2> QED
    BY <2>1, <2>2, <2>3, <2>4, <2>5, <2>6, <2>7, <2>8, <2>9
<1>6. CASE Automation!handleSave
  <2>1. Automation!TypeOK'
    <3>1. (autoPage \in {"list", "new", "edit"} /\ menu \in {"none", "trigger", "repo", "model"})'
      BY <1>6 DEF Automation!handleSave, Automation!TypeOK, Automation!GoTo
    <3>2. (editing \in Ids \cup {Null})'
      BY <1>6 DEF Automation!handleSave, Automation!TypeOK, Automation!GoTo
    <3>3. (autoClicks \in 0..MaxClicks)'
      BY <1>6 DEF Automation!handleSave, Automation!TypeOK
    <3> QED
      BY <3>1, <3>2, <3>3 DEF Automation!TypeOK
  <2>2. Automation!Fields'
    BY <1>6, SaveSends
  <2>3. Automation!Listed'
    BY <1>6 DEF Automation!handleSave, Automation!Listed
  <2>4. Automation!Defaults'
    BY <1>6 DEF Automation!handleSave, Automation!Defaults
  <2>5. Automation!Opened'
    BY <1>6 DEF Automation!handleSave, Automation!Opened, Automation!GoTo, Automation!Shown
  <2>6. Automation!SaysWhatWasShown'
    BY <1>6, SaveSends
  <2>7. Automation!TriggerEditable'
    BY <1>6 DEF Automation!handleSave, Automation!TriggerEditable, Automation!HasTrigger,
        Automation!onPickTrigger, Automation!Fields, Automation!Forms, Automation!Crons
  <2>8. Automation!SavedAsShown'
    BY <1>6 DEF Automation!handleSave, Automation!SavedAsShown
  <2>9. Automation!SavedModelSupported'
    BY <1>6, SaveSends
  <2> QED
    BY <2>1, <2>2, <2>3, <2>4, <2>5, <2>6, <2>7, <2>8, <2>9
<1>7. CASE Automation!handleDelete
  <2>1. Automation!TypeOK'
    <3>1. (autoPage \in {"list", "new", "edit"} /\ menu \in {"none", "trigger", "repo", "model"})'
      BY <1>7 DEF Automation!handleDelete, Automation!TypeOK, Automation!GoTo
    <3>2. (editing \in Ids \cup {Null})'
      BY <1>7 DEF Automation!handleDelete, Automation!TypeOK, Automation!GoTo
    <3>3. (autoClicks \in 0..MaxClicks)'
      BY <1>7 DEF Automation!handleDelete, Automation!TypeOK
    <3> QED
      BY <3>1, <3>2, <3>3 DEF Automation!TypeOK
  <2>2. Automation!Fields'
    BY <1>7, DeleteSends
  <2>3. Automation!Listed'
    BY <1>7 DEF Automation!handleDelete, Automation!Listed
  <2>4. Automation!Defaults'
    BY <1>7 DEF Automation!handleDelete, Automation!Defaults
  <2>5. Automation!Opened'
    BY <1>7 DEF Automation!handleDelete, Automation!Opened, Automation!GoTo, Automation!Shown
  <2>6. Automation!SaysWhatWasShown'
    BY <1>7, DeleteSends
  <2>7. Automation!TriggerEditable'
    BY <1>7 DEF Automation!handleDelete, Automation!TriggerEditable, Automation!HasTrigger,
        Automation!onPickTrigger, Automation!Fields, Automation!Forms, Automation!Crons
  <2>8. Automation!SavedAsShown'
    BY <1>7 DEF Automation!handleDelete, Automation!SavedAsShown
  <2>9. Automation!SavedModelSupported'
    BY <1>7, DeleteSends
  <2> QED
    BY <2>1, <2>2, <2>3, <2>4, <2>5, <2>6, <2>7, <2>8, <2>9
<1>8. ASSUME NEW l \in autoListAsked, Automation!ListAnswer(l)
      PROVE  Automation!Inv'
  <2>1. Automation!TypeOK'
    <3>1. (autoPage \in {"list", "new", "edit"} /\ menu \in {"none", "trigger", "repo", "model"})'
      BY <1>8 DEF Automation!ListAnswer, Automation!TypeOK, Automation!GoTo
    <3>2. (editing \in Ids \cup {Null})'
      BY <1>8 DEF Automation!ListAnswer, Automation!TypeOK, Automation!GoTo
    <3>3. (autoClicks \in 0..MaxClicks)'
      BY <1>8 DEF Automation!ListAnswer, Automation!TypeOK
    <3> QED
      BY <3>1, <3>2, <3>3 DEF Automation!TypeOK
  <2>2. Automation!Fields'
    <3>1. (autoForm \in Automation!Forms)'
      BY <1>8 DEF Automation!ListAnswer, Automation!Fields, Automation!Forms, Automation!Crons,
          Automation!onPickTrigger, Automation!combos
    <3>2. (autoCalls \subseteq Automation!Calls)'
      BY <1>8 DEF Automation!ListAnswer, Automation!Fields
    <3> QED
      BY <3>1, <3>2 DEF Automation!Fields
  <2>3. Automation!Listed'
    BY <1>8 DEF Automation!ListAnswer, Automation!Listed
  <2>4. Automation!Defaults'
    BY <1>8 DEF Automation!ListAnswer, Automation!Defaults
  <2>5. Automation!Opened'
    BY <1>8 DEF Automation!ListAnswer, Automation!Opened, Automation!GoTo, Automation!Shown
  <2>6. Automation!SaysWhatWasShown'
    BY <1>8 DEF Automation!ListAnswer, Automation!SaysWhatWasShown
  <2>7. Automation!TriggerEditable'
    BY <1>8 DEF Automation!ListAnswer, Automation!TriggerEditable, Automation!HasTrigger,
        Automation!onPickTrigger, Automation!Fields, Automation!Forms, Automation!Crons
  <2>8. Automation!SavedAsShown'
    BY <1>8 DEF Automation!ListAnswer, Automation!SavedAsShown
  <2>9. Automation!SavedModelSupported'
    BY <1>8 DEF Automation!ListAnswer, Automation!SavedModelSupported
  <2> QED
    BY <2>1, <2>2, <2>3, <2>4, <2>5, <2>6, <2>7, <2>8, <2>9
<1>9. ASSUME NEW id \in Ids, Automation!OpenRow(id)
      PROVE  Automation!Inv'
  <2>1. Automation!TypeOK'
    <3>1. (autoPage \in {"list", "new", "edit"} /\ menu \in {"none", "trigger", "repo", "model"})'
      BY <1>9 DEF Automation!OpenRow, Automation!TypeOK, Automation!GoTo
    <3>2. (editing \in Ids \cup {Null})'
      BY <1>9 DEF Automation!OpenRow, Automation!TypeOK, Automation!GoTo
    <3>3. (autoClicks \in 0..MaxClicks)'
      BY <1>9 DEF Automation!OpenRow, Automation!TypeOK
    <3> QED
      BY <3>1, <3>2, <3>3 DEF Automation!TypeOK
  <2>2. Automation!Fields'
    <3>1. Automation!GoTo("edit", id)
      BY <1>9 DEF Automation!OpenRow
    <3>2. autoForm' \in Automation!Forms
      BY <3>1, MountsEditor
    <3> QED
      BY <1>9, <3>2 DEF Automation!OpenRow, Automation!Fields
  <2>3. Automation!Listed'
    BY <1>9 DEF Automation!OpenRow, Automation!Listed
  <2>4. Automation!Defaults'
    BY <1>9 DEF Automation!OpenRow, Automation!Defaults
  <2>5. Automation!Opened'
    BY <1>9 DEF Automation!OpenRow, Automation!Opened, Automation!GoTo, Automation!Shown
  <2>6. Automation!SaysWhatWasShown'
    BY <1>9 DEF Automation!OpenRow, Automation!SaysWhatWasShown
  <2>7. Automation!TriggerEditable'
    <3>1. Automation!GoTo("edit", id)
      BY <1>9 DEF Automation!OpenRow
    <3> QED
      BY <3>1, MountsEditor
  <2>8. Automation!SavedAsShown'
    BY <1>9 DEF Automation!OpenRow, Automation!SavedAsShown
  <2>9. Automation!SavedModelSupported'
    BY <1>9 DEF Automation!OpenRow, Automation!SavedModelSupported
  <2> QED
    BY <2>1, <2>2, <2>3, <2>4, <2>5, <2>6, <2>7, <2>8, <2>9
<1>10. ASSUME NEW id \in Ids, Automation!onToggle(id)
       PROVE  Automation!Inv'
  <2>1. Automation!TypeOK'
    <3>1. (autoPage \in {"list", "new", "edit"} /\ menu \in {"none", "trigger", "repo", "model"})'
      BY <1>10 DEF Automation!onToggle, Automation!TypeOK, Automation!GoTo
    <3>2. (editing \in Ids \cup {Null})'
      BY <1>10 DEF Automation!onToggle, Automation!TypeOK, Automation!GoTo
    <3>3. (autoClicks \in 0..MaxClicks)'
      BY <1>10 DEF Automation!onToggle, Automation!TypeOK
    <3> QED
      BY <3>1, <3>2, <3>3 DEF Automation!TypeOK
  <2>2. Automation!Fields'
    BY <1>10, ToggleSends
  <2>3. Automation!Listed'
    BY <1>10 DEF Automation!onToggle, Automation!Listed
  <2>4. Automation!Defaults'
    BY <1>10 DEF Automation!onToggle, Automation!Defaults
  <2>5. Automation!Opened'
    BY <1>10 DEF Automation!onToggle, Automation!Opened, Automation!GoTo, Automation!Shown
  <2>6. Automation!SaysWhatWasShown'
    BY <1>10, ToggleSends
  <2>7. Automation!TriggerEditable'
    BY <1>10 DEF Automation!onToggle, Automation!TriggerEditable, Automation!HasTrigger,
        Automation!onPickTrigger, Automation!Fields, Automation!Forms, Automation!Crons
  <2>8. Automation!SavedAsShown'
    BY <1>10 DEF Automation!onToggle, Automation!SavedAsShown
  <2>9. Automation!SavedModelSupported'
    BY <1>10, ToggleSends
  <2> QED
    BY <2>1, <2>2, <2>3, <2>4, <2>5, <2>6, <2>7, <2>8, <2>9
<1>11. ASSUME NEW t \in 0..1, Automation!TypeText(t)
       PROVE  Automation!Inv'
  <2>1. Automation!TypeOK'
    <3>1. (autoPage \in {"list", "new", "edit"} /\ menu \in {"none", "trigger", "repo", "model"})'
      BY <1>11 DEF Automation!TypeText, Automation!Edit, Automation!TypeOK, Automation!GoTo
    <3>2. (editing \in Ids \cup {Null})'
      BY <1>11 DEF Automation!TypeText, Automation!Edit, Automation!TypeOK, Automation!GoTo
    <3>3. (autoClicks \in 0..MaxClicks)'
      BY <1>11 DEF Automation!TypeText, Automation!Edit, Automation!TypeOK
    <3> QED
      BY <3>1, <3>2, <3>3 DEF Automation!TypeOK
  <2>2. Automation!Fields'
    <3>1. (autoForm \in Automation!Forms)'
      BY <1>11 DEF Automation!TypeText, Automation!Edit, Automation!Fields, Automation!Forms,
          Automation!Crons, Automation!onPickTrigger, Automation!combos
    <3>2. (autoCalls \subseteq Automation!Calls)'
      BY <1>11 DEF Automation!TypeText, Automation!Edit, Automation!Fields
    <3> QED
      BY <3>1, <3>2 DEF Automation!Fields
  <2>3. Automation!Listed'
    BY <1>11 DEF Automation!TypeText, Automation!Edit, Automation!Listed
  <2>4. Automation!Defaults'
    BY <1>11 DEF Automation!TypeText, Automation!Edit, Automation!Defaults
  <2>5. Automation!Opened'
    BY <1>11 DEF Automation!TypeText, Automation!Edit, Automation!Opened, Automation!GoTo,
        Automation!Shown
  <2>6. Automation!SaysWhatWasShown'
    BY <1>11 DEF Automation!TypeText, Automation!Edit, Automation!SaysWhatWasShown
  <2>7. Automation!TriggerEditable'
    BY <1>11 DEF Automation!TypeText, Automation!Edit, Automation!TriggerEditable,
        Automation!HasTrigger, Automation!onPickTrigger, Automation!Fields, Automation!Forms,
        Automation!Crons
  <2>8. Automation!SavedAsShown'
    BY <1>11 DEF Automation!TypeText, Automation!Edit, Automation!SavedAsShown
  <2>9. Automation!SavedModelSupported'
    BY <1>11 DEF Automation!TypeText, Automation!Edit, Automation!SavedModelSupported
  <2> QED
    BY <2>1, <2>2, <2>3, <2>4, <2>5, <2>6, <2>7, <2>8, <2>9
<1>12. ASSUME NEW m \in {"trigger", "repo", "model"}, Automation!Toggle(m)
       PROVE  Automation!Inv'
  <2>1. Automation!TypeOK'
    <3>1. (autoPage \in {"list", "new", "edit"} /\ menu \in {"none", "trigger", "repo", "model"})'
      BY <1>12 DEF Automation!Toggle, Automation!TypeOK, Automation!GoTo
    <3>2. (editing \in Ids \cup {Null})'
      BY <1>12 DEF Automation!Toggle, Automation!TypeOK, Automation!GoTo
    <3>3. (autoClicks \in 0..MaxClicks)'
      BY <1>12 DEF Automation!Toggle, Automation!TypeOK
    <3> QED
      BY <3>1, <3>2, <3>3 DEF Automation!TypeOK
  <2>2. Automation!Fields'
    <3>1. (autoForm \in Automation!Forms)'
      BY <1>12 DEF Automation!Toggle, Automation!Fields, Automation!Forms, Automation!Crons,
          Automation!onPickTrigger, Automation!combos
    <3>2. (autoCalls \subseteq Automation!Calls)'
      BY <1>12 DEF Automation!Toggle, Automation!Fields
    <3> QED
      BY <3>1, <3>2 DEF Automation!Fields
  <2>3. Automation!Listed'
    BY <1>12 DEF Automation!Toggle, Automation!Listed
  <2>4. Automation!Defaults'
    BY <1>12 DEF Automation!Toggle, Automation!Defaults
  <2>5. Automation!Opened'
    BY <1>12 DEF Automation!Toggle, Automation!Opened, Automation!GoTo, Automation!Shown
  <2>6. Automation!SaysWhatWasShown'
    BY <1>12 DEF Automation!Toggle, Automation!SaysWhatWasShown
  <2>7. Automation!TriggerEditable'
    BY <1>12 DEF Automation!Toggle, Automation!TriggerEditable, Automation!HasTrigger,
        Automation!onPickTrigger, Automation!Fields, Automation!Forms, Automation!Crons
  <2>8. Automation!SavedAsShown'
    BY <1>12 DEF Automation!Toggle, Automation!SavedAsShown
  <2>9. Automation!SavedModelSupported'
    BY <1>12 DEF Automation!Toggle, Automation!SavedModelSupported
  <2> QED
    BY <2>1, <2>2, <2>3, <2>4, <2>5, <2>6, <2>7, <2>8, <2>9
<1>13. ASSUME NEW none \in BOOLEAN, Automation!Search(none)
       PROVE  Automation!Inv'
  <2>1. Automation!TypeOK'
    <3>1. (autoPage \in {"list", "new", "edit"} /\ menu \in {"none", "trigger", "repo", "model"})'
      BY <1>13 DEF Automation!Search, Automation!TypeOK, Automation!GoTo
    <3>2. (editing \in Ids \cup {Null})'
      BY <1>13 DEF Automation!Search, Automation!TypeOK, Automation!GoTo
    <3>3. (autoClicks \in 0..MaxClicks)'
      BY <1>13 DEF Automation!Search, Automation!TypeOK
    <3> QED
      BY <3>1, <3>2, <3>3 DEF Automation!TypeOK
  <2>2. Automation!Fields'
    <3>1. (autoForm \in Automation!Forms)'
      BY <1>13 DEF Automation!Search, Automation!Fields, Automation!Forms, Automation!Crons,
          Automation!onPickTrigger, Automation!combos
    <3>2. (autoCalls \subseteq Automation!Calls)'
      BY <1>13 DEF Automation!Search, Automation!Fields
    <3> QED
      BY <3>1, <3>2 DEF Automation!Fields
  <2>3. Automation!Listed'
    BY <1>13 DEF Automation!Search, Automation!Listed
  <2>4. Automation!Defaults'
    BY <1>13 DEF Automation!Search, Automation!Defaults
  <2>5. Automation!Opened'
    BY <1>13 DEF Automation!Search, Automation!Opened, Automation!GoTo, Automation!Shown
  <2>6. Automation!SaysWhatWasShown'
    BY <1>13 DEF Automation!Search, Automation!SaysWhatWasShown
  <2>7. Automation!TriggerEditable'
    BY <1>13 DEF Automation!Search, Automation!TriggerEditable, Automation!HasTrigger,
        Automation!onPickTrigger, Automation!Fields, Automation!Forms, Automation!Crons
  <2>8. Automation!SavedAsShown'
    BY <1>13 DEF Automation!Search, Automation!SavedAsShown
  <2>9. Automation!SavedModelSupported'
    BY <1>13 DEF Automation!Search, Automation!SavedModelSupported
  <2> QED
    BY <2>1, <2>2, <2>3, <2>4, <2>5, <2>6, <2>7, <2>8, <2>9
<1>14. ASSUME NEW r \in Repos \cup {Null}, Automation!PickRepo(r)
       PROVE  Automation!Inv'
  <2>1. Automation!TypeOK'
    <3>1. (autoPage \in {"list", "new", "edit"} /\ menu \in {"none", "trigger", "repo", "model"})'
      BY <1>14 DEF Automation!PickRepo, Automation!Edit, Automation!TypeOK, Automation!GoTo
    <3>2. (editing \in Ids \cup {Null})'
      BY <1>14 DEF Automation!PickRepo, Automation!Edit, Automation!TypeOK, Automation!GoTo
    <3>3. (autoClicks \in 0..MaxClicks)'
      BY <1>14 DEF Automation!PickRepo, Automation!Edit, Automation!TypeOK
    <3> QED
      BY <3>1, <3>2, <3>3 DEF Automation!TypeOK
  <2>2. Automation!Fields'
    <3>1. (autoForm \in Automation!Forms)'
      BY <1>14 DEF Automation!PickRepo, Automation!Edit, Automation!Fields, Automation!Forms,
          Automation!Crons, Automation!onPickTrigger, Automation!combos
    <3>2. (autoCalls \subseteq Automation!Calls)'
      BY <1>14 DEF Automation!PickRepo, Automation!Edit, Automation!Fields
    <3> QED
      BY <3>1, <3>2 DEF Automation!Fields
  <2>3. Automation!Listed'
    BY <1>14 DEF Automation!PickRepo, Automation!Edit, Automation!Listed
  <2>4. Automation!Defaults'
    BY <1>14 DEF Automation!PickRepo, Automation!Edit, Automation!Defaults
  <2>5. Automation!Opened'
    BY <1>14 DEF Automation!PickRepo, Automation!Edit, Automation!Opened, Automation!GoTo,
        Automation!Shown
  <2>6. Automation!SaysWhatWasShown'
    BY <1>14 DEF Automation!PickRepo, Automation!Edit, Automation!SaysWhatWasShown
  <2>7. Automation!TriggerEditable'
    BY <1>14 DEF Automation!PickRepo, Automation!Edit, Automation!TriggerEditable,
        Automation!HasTrigger, Automation!onPickTrigger, Automation!Fields, Automation!Forms,
        Automation!Crons
  <2>8. Automation!SavedAsShown'
    BY <1>14 DEF Automation!PickRepo, Automation!Edit, Automation!SavedAsShown
  <2>9. Automation!SavedModelSupported'
    BY <1>14 DEF Automation!PickRepo, Automation!Edit, Automation!SavedModelSupported
  <2> QED
    BY <2>1, <2>2, <2>3, <2>4, <2>5, <2>6, <2>7, <2>8, <2>9
<1>15. ASSUME NEW pair \in Automation!combos, Automation!PickModel(pair)
       PROVE  Automation!Inv'
  <2>1. Automation!TypeOK'
    <3>1. (autoPage \in {"list", "new", "edit"} /\ menu \in {"none", "trigger", "repo", "model"})'
      BY <1>15 DEF Automation!PickModel, Automation!Edit, Automation!TypeOK, Automation!GoTo
    <3>2. (editing \in Ids \cup {Null})'
      BY <1>15 DEF Automation!PickModel, Automation!Edit, Automation!TypeOK, Automation!GoTo
    <3>3. (autoClicks \in 0..MaxClicks)'
      BY <1>15 DEF Automation!PickModel, Automation!Edit, Automation!TypeOK
    <3> QED
      BY <3>1, <3>2, <3>3 DEF Automation!TypeOK
  <2>2. Automation!Fields'
    <3>1. (autoForm \in Automation!Forms)'
      BY <1>15 DEF Automation!PickModel, Automation!Edit, Automation!Fields, Automation!Forms,
          Automation!Crons, Automation!onPickTrigger, Automation!combos
    <3>2. (autoCalls \subseteq Automation!Calls)'
      BY <1>15 DEF Automation!PickModel, Automation!Edit, Automation!Fields
    <3> QED
      BY <3>1, <3>2 DEF Automation!Fields
  <2>3. Automation!Listed'
    BY <1>15 DEF Automation!PickModel, Automation!Edit, Automation!Listed
  <2>4. Automation!Defaults'
    BY <1>15 DEF Automation!PickModel, Automation!Edit, Automation!Defaults
  <2>5. Automation!Opened'
    BY <1>15 DEF Automation!PickModel, Automation!Edit, Automation!Opened, Automation!GoTo,
        Automation!Shown
  <2>6. Automation!SaysWhatWasShown'
    BY <1>15 DEF Automation!PickModel, Automation!Edit, Automation!SaysWhatWasShown
  <2>7. Automation!TriggerEditable'
    BY <1>15 DEF Automation!PickModel, Automation!Edit, Automation!TriggerEditable,
        Automation!HasTrigger, Automation!onPickTrigger, Automation!Fields, Automation!Forms,
        Automation!Crons
  <2>8. Automation!SavedAsShown'
    BY <1>15 DEF Automation!PickModel, Automation!Edit, Automation!SavedAsShown
  <2>9. Automation!SavedModelSupported'
    BY <1>15 DEF Automation!PickModel, Automation!Edit, Automation!SavedModelSupported
  <2> QED
    BY <2>1, <2>2, <2>3, <2>4, <2>5, <2>6, <2>7, <2>8, <2>9
<1>16. ASSUME NEW option \in Presets \cup {Null}, Automation!PickTrigger(option)
       PROVE  Automation!Inv'
  <2>1. Automation!TypeOK'
    <3>1. (autoPage \in {"list", "new", "edit"} /\ menu \in {"none", "trigger", "repo", "model"})'
      BY <1>16 DEF Automation!PickTrigger, Automation!Edit, Automation!TypeOK, Automation!GoTo
    <3>2. (editing \in Ids \cup {Null})'
      BY <1>16 DEF Automation!PickTrigger, Automation!Edit, Automation!TypeOK, Automation!GoTo
    <3>3. (autoClicks \in 0..MaxClicks)'
      BY <1>16 DEF Automation!PickTrigger, Automation!Edit, Automation!TypeOK
    <3> QED
      BY <3>1, <3>2, <3>3 DEF Automation!TypeOK
  <2>2. Automation!Fields'
    <3>1. autoForm' = Automation!onPickTrigger(option) /\ UNCHANGED autoCalls
      BY <1>16 DEF Automation!PickTrigger, Automation!Edit
    <3> QED
      BY <3>1, PicksTrigger DEF Automation!Fields
  <2>3. Automation!Listed'
    BY <1>16 DEF Automation!PickTrigger, Automation!Edit, Automation!Listed
  <2>4. Automation!Defaults'
    BY <1>16 DEF Automation!PickTrigger, Automation!Edit, Automation!Defaults
  <2>5. Automation!Opened'
    BY <1>16 DEF Automation!PickTrigger, Automation!Edit, Automation!Opened, Automation!GoTo,
        Automation!Shown
  <2>6. Automation!SaysWhatWasShown'
    BY <1>16 DEF Automation!PickTrigger, Automation!Edit, Automation!SaysWhatWasShown
  <2>7. Automation!TriggerEditable'
    BY <1>16, PicksTrigger DEF Automation!PickTrigger, Automation!Edit
  <2>8. Automation!SavedAsShown'
    BY <1>16 DEF Automation!PickTrigger, Automation!Edit, Automation!SavedAsShown
  <2>9. Automation!SavedModelSupported'
    BY <1>16 DEF Automation!PickTrigger, Automation!Edit, Automation!SavedModelSupported
  <2> QED
    BY <2>1, <2>2, <2>3, <2>4, <2>5, <2>6, <2>7, <2>8, <2>9
<1>17. ASSUME NEW cron \in Others \cup {Automation!Empty}, Automation!TypeCron(cron)
       PROVE  Automation!Inv'
  <2>1. Automation!TypeOK'
    <3>1. (autoPage \in {"list", "new", "edit"} /\ menu \in {"none", "trigger", "repo", "model"})'
      BY <1>17 DEF Automation!TypeCron, Automation!Edit, Automation!TypeOK, Automation!GoTo
    <3>2. (editing \in Ids \cup {Null})'
      BY <1>17 DEF Automation!TypeCron, Automation!Edit, Automation!TypeOK, Automation!GoTo
    <3>3. (autoClicks \in 0..MaxClicks)'
      BY <1>17 DEF Automation!TypeCron, Automation!Edit, Automation!TypeOK
    <3> QED
      BY <3>1, <3>2, <3>3 DEF Automation!TypeOK
  <2>2. Automation!Fields'
    <3>1. (autoForm \in Automation!Forms)'
      BY <1>17 DEF Automation!TypeCron, Automation!Edit, Automation!Fields, Automation!Forms,
          Automation!Crons, Automation!onPickTrigger, Automation!combos
    <3>2. (autoCalls \subseteq Automation!Calls)'
      BY <1>17 DEF Automation!TypeCron, Automation!Edit, Automation!Fields
    <3> QED
      BY <3>1, <3>2 DEF Automation!Fields
  <2>3. Automation!Listed'
    BY <1>17 DEF Automation!TypeCron, Automation!Edit, Automation!Listed
  <2>4. Automation!Defaults'
    BY <1>17 DEF Automation!TypeCron, Automation!Edit, Automation!Defaults
  <2>5. Automation!Opened'
    BY <1>17 DEF Automation!TypeCron, Automation!Edit, Automation!Opened, Automation!GoTo,
        Automation!Shown
  <2>6. Automation!SaysWhatWasShown'
    BY <1>17 DEF Automation!TypeCron, Automation!Edit, Automation!SaysWhatWasShown
  <2>7. Automation!TriggerEditable'
    BY <1>17 DEF Automation!TypeCron, Automation!Edit, Automation!TriggerEditable,
        Automation!HasTrigger, Automation!onPickTrigger, Automation!Fields, Automation!Forms,
        Automation!Crons
  <2>8. Automation!SavedAsShown'
    BY <1>17 DEF Automation!TypeCron, Automation!Edit, Automation!SavedAsShown
  <2>9. Automation!SavedModelSupported'
    BY <1>17 DEF Automation!TypeCron, Automation!Edit, Automation!SavedModelSupported
  <2> QED
    BY <2>1, <2>2, <2>3, <2>4, <2>5, <2>6, <2>7, <2>8, <2>9
<1>18. ASSUME NEW c \in autoCalls, Automation!Fails(c)
       PROVE  Automation!Inv'
  <2>1. Automation!TypeOK'
    <3>1. (autoPage \in {"list", "new", "edit"} /\ menu \in {"none", "trigger", "repo", "model"})'
      BY <1>18 DEF Automation!Fails, Automation!TypeOK, Automation!GoTo
    <3>2. (editing \in Ids \cup {Null})'
      BY <1>18 DEF Automation!Fails, Automation!TypeOK, Automation!GoTo
    <3>3. (autoClicks \in 0..MaxClicks)'
      BY <1>18 DEF Automation!Fails, Automation!TypeOK
    <3> QED
      BY <3>1, <3>2, <3>3 DEF Automation!TypeOK
  <2>2. Automation!Fields'
    <3>1. (autoForm \in Automation!Forms)'
      BY <1>18 DEF Automation!Fails, Automation!Fields, Automation!Forms, Automation!Crons,
          Automation!onPickTrigger, Automation!combos
    <3>2. (autoCalls \subseteq Automation!Calls)'
      BY <1>18 DEF Automation!Fails, Automation!Fields
    <3> QED
      BY <3>1, <3>2 DEF Automation!Fields
  <2>3. Automation!Listed'
    BY <1>18 DEF Automation!Fails, Automation!Listed
  <2>4. Automation!Defaults'
    BY <1>18 DEF Automation!Fails, Automation!Defaults
  <2>5. Automation!Opened'
    BY <1>18 DEF Automation!Fails, Automation!Opened, Automation!GoTo, Automation!Shown
  <2>6. Automation!SaysWhatWasShown'
    BY <1>18 DEF Automation!Fails, Automation!SaysWhatWasShown
  <2>7. Automation!TriggerEditable'
    BY <1>18 DEF Automation!Fails, Automation!TriggerEditable, Automation!HasTrigger,
        Automation!onPickTrigger, Automation!Fields, Automation!Forms, Automation!Crons
  <2>8. Automation!SavedAsShown'
    BY <1>18 DEF Automation!Fails, Automation!SavedAsShown
  <2>9. Automation!SavedModelSupported'
    BY <1>18 DEF Automation!Fails, Automation!SavedModelSupported
  <2> QED
    BY <2>1, <2>2, <2>3, <2>4, <2>5, <2>6, <2>7, <2>8, <2>9
<1>19. ASSUME NEW c \in autoCalls, NEW id \in Ids, Automation!Answered(c, id)
       PROVE  Automation!Inv'
  <2>1. Automation!TypeOK'
    <3>1. (autoPage \in {"list", "new", "edit"} /\ menu \in {"none", "trigger", "repo", "model"})'
      BY <1>19 DEF Automation!Answered, Automation!TypeOK, Automation!GoTo
    <3>2. (editing \in Ids \cup {Null})'
      BY <1>19 DEF Automation!Answered, Automation!TypeOK, Automation!GoTo
    <3>3. (autoClicks \in 0..MaxClicks)'
      BY <1>19 DEF Automation!Answered, Automation!TypeOK
    <3> QED
      BY <3>1, <3>2, <3>3 DEF Automation!TypeOK
  <2>2. Automation!Fields'
    <3>1. CASE Automation!GoTo("list", Null)
      BY <1>19, <3>1, MountsEditor DEF Automation!Answered, Automation!Fields
    <3>2. CASE UNCHANGED <<autoPage, editing, autoForm, menu, query>>
      BY <1>19, <3>2 DEF Automation!Answered, Automation!TriggerEditable, Automation!HasTrigger, Automation!Fields
    <3> QED
      BY <1>19, <3>1, <3>2 DEF Automation!Answered
  <2>3. Automation!Listed'
    <3>1. autoServer' = Automation!Served(c, id) /\ autoListAsked' = {autoServer'} /\ UNCHANGED autoList
      BY <1>19 DEF Automation!Answered
    <3> QED
      BY <3>1, ServesRecords DEF Automation!Listed
  <2>4. Automation!Defaults'
    BY <1>19 DEF Automation!Answered, Automation!Defaults
  <2>5. Automation!Opened'
    BY <1>19 DEF Automation!Answered, Automation!Opened, Automation!GoTo, Automation!Shown
  <2>6. Automation!SaysWhatWasShown'
    BY <1>19 DEF Automation!Answered, Automation!SaysWhatWasShown
  <2>7. Automation!TriggerEditable'
    <3>1. CASE Automation!GoTo("list", Null)
      BY <1>19, <3>1, MountsEditor
    <3>2. CASE UNCHANGED <<autoPage, editing, autoForm, menu, query>>
      BY <1>19, <3>2 DEF Automation!Answered, Automation!TriggerEditable, Automation!HasTrigger, Automation!Fields
    <3> QED
      BY <1>19, <3>1, <3>2 DEF Automation!Answered
  <2>8. Automation!SavedAsShown'
    <3>1. /\ c.kind \in {"create", "update"} => Automation!Matches(autoServer'[id], c.shown)
          /\ c.kind = "update" => autoServer'[id].enabled = c.shown.enabled
      BY <1>19, ServesRecords DEF Automation!Answered
    <3> QED
      BY <1>19, <3>1 DEF Automation!Answered, Automation!SavedAsShown
  <2>9. Automation!SavedModelSupported'
    BY <1>19 DEF Automation!Answered, Automation!SavedModelSupported
  <2> QED
    BY <2>1, <2>2, <2>3, <2>4, <2>5, <2>6, <2>7, <2>8, <2>9
<1>20. CASE UNCHANGED autoVars
  <2>1. Automation!TypeOK'
    <3>1. (autoPage \in {"list", "new", "edit"} /\ menu \in {"none", "trigger", "repo", "model"})'
      BY <1>20 DEF autoVars, Automation!TypeOK, Automation!GoTo
    <3>2. (editing \in Ids \cup {Null})'
      BY <1>20 DEF autoVars, Automation!TypeOK, Automation!GoTo
    <3>3. (autoClicks \in 0..MaxClicks)'
      BY <1>20 DEF autoVars, Automation!TypeOK
    <3> QED
      BY <3>1, <3>2, <3>3 DEF Automation!TypeOK
  <2>2. Automation!Fields'
    <3>1. (autoForm \in Automation!Forms)'
      BY <1>20 DEF autoVars, Automation!Fields, Automation!Forms, Automation!Crons,
          Automation!onPickTrigger, Automation!combos
    <3>2. (autoCalls \subseteq Automation!Calls)'
      BY <1>20 DEF autoVars, Automation!Fields
    <3> QED
      BY <3>1, <3>2 DEF Automation!Fields
  <2>3. Automation!Listed'
    BY <1>20 DEF autoVars, Automation!Listed
  <2>4. Automation!Defaults'
    BY <1>20 DEF autoVars, Automation!Defaults
  <2>5. Automation!Opened'
    BY <1>20 DEF autoVars, Automation!Opened, Automation!GoTo, Automation!Shown
  <2>6. Automation!SaysWhatWasShown'
    BY <1>20 DEF autoVars, Automation!SaysWhatWasShown
  <2>7. Automation!TriggerEditable'
    BY <1>20 DEF autoVars, Automation!TriggerEditable, Automation!HasTrigger,
        Automation!onPickTrigger, Automation!Fields, Automation!Forms, Automation!Crons
  <2>8. Automation!SavedAsShown'
    BY <1>20 DEF autoVars, Automation!SavedAsShown
  <2>9. Automation!SavedModelSupported'
    BY <1>20 DEF autoVars, Automation!SavedModelSupported
  <2> QED
    BY <2>1, <2>2, <2>3, <2>4, <2>5, <2>6, <2>7, <2>8, <2>9
<1> QED
  BY <1>1, <1>2, <1>3, <1>4, <1>5, <1>6, <1>7, <1>8, <1>9, <1>10, <1>11, <1>12, <1>13, <1>14, <1>15,
      <1>16, <1>17, <1>18, <1>19, <1>20 DEF Automation!Next

(* For all triggers, repositories and models: a schedule is saved as the    *)
(* editor showed it, with a model on offer and a trigger that can be        *)
(* edited.                                                                  *)
THEOREM AlwaysSavedAsShown == Spec => []SavedAsShown
<1> DEFINE I == focus = "auto" => Automation!Inv
<1>1. Init => I
  BY AutomationInit DEF Init
<1>2. I /\ [Next]_vars => I'
  BY OneEditor, AutomationStep
<1>3. I => SavedAsShown
  BY DEF SavedAsShown, Automation!Inv
<1> QED
  BY <1>1, <1>2, <1>3, PTL DEF Spec

----------------------------------------------------------------------------
(* The transcript                                                           *)

(* FlattenSeq of the transcript is that of the tree: what is known of       *)
(* joined lists holds of it.                                                *)
LEMMA TurnsFlat ==
    ASSUME NEW S, NEW n \in Nat, NEW s \in Lists(n, S)
    PROVE  \E f \in [0..n -> Seq(S)] : f[n] = Turns!FlattenSeq(s) /\ Joins(f, n, s)
<1>1. Turns!FlattenSeq(s) = Tree!FlattenSeq(s)
  BY DEF Turns!FlattenSeq, Tree!FlattenSeq
<1> QED
  BY <1>1, FlattenJoins

(* ... and of the places of their elements.                                 *)
LEMMA TurnsPlaced ==
    ASSUME NEW S, NEW n \in Nat, NEW s \in Lists(n, S)
    PROVE  Turns!FlattenSeq(s) \in Seq(S) /\ Placed(Turns!FlattenSeq(s), s, n)
<1>1. Turns!FlattenSeq(s) = Tree!FlattenSeq(s)
  BY DEF Turns!FlattenSeq, Tree!FlattenSeq
<1> QED
  BY <1>1, FlattenPlaced

(* When a list is two lists, one after the other.                           *)
LEMMA IsConcat ==
    ASSUME NEW S, NEW a \in Seq(S), NEW b \in Seq(S), NEW c \in Seq(S), Len(c) = Len(a) + Len(b),
           \A k \in 1..Len(a) : c[k] = a[k], \A k \in 1..Len(b) : c[Len(a) + k] = b[k]
    PROVE  c = a \o b
<1> DEFINE n == Len(a)
           m == Len(b)
<1>1. n \in Nat /\ m \in Nat /\ a \o b \in Seq(S) /\ Len(a \o b) = n + m
  OBVIOUS
<1>2. \A k \in 1..(n + m) : (a \o b)[k] = IF k <= n THEN a[k] ELSE b[k - n]
  OBVIOUS
<1> HIDE DEF n, m
<1>3. ASSUME NEW k \in 1..(n + m) PROVE c[k] = (a \o b)[k]
  <2>1. CASE k <= n
    BY <1>1, <1>2, <2>1 DEF n
  <2>2. CASE k > n
    <3>1. k - n \in 1..m /\ n + (k - n) = k
      BY <1>1, <2>2
    <3>2. c[k] = b[k - n]
      BY <3>1 DEF n, m
    <3> QED
      BY <1>1, <1>2, <2>2, <3>2
  <2> QED
    BY <1>1, <2>1, <2>2
<1>4. Len(c) = n + m
  BY DEF n, m
<1> QED
  BY <1>1, <1>3, <1>4, SeqEqual

(* The lists of two lists of lists are joined in their order.               *)
LEMMA FlatConcat ==
    ASSUME NEW S, NEW s \in Seq(Seq(S)), NEW t \in Seq(Seq(S))
    PROVE  /\ Turns!FlattenSeq(s) \in Seq(S) /\ Turns!FlattenSeq(t) \in Seq(S)
           /\ Turns!FlattenSeq(s \o t) = Turns!FlattenSeq(s) \o Turns!FlattenSeq(t)
<1> DEFINE n == Len(s)
           m == Len(t)
           u == s \o t
<1>0. \A a, b, c \in Seq(S) : (a \o b) \o c = a \o (b \o c)
  <2> SUFFICES ASSUME NEW a \in Seq(S), NEW b \in Seq(S), NEW c \in Seq(S)
               PROVE  (a \o b) \o c = a \o (b \o c)
    OBVIOUS
  <2> QED
    OBVIOUS
<1>1. n \in Nat /\ m \in Nat /\ n + m \in Nat
  OBVIOUS
<1>2. /\ Len(u) = n + m /\ u \in Seq(Seq(S))
      /\ \A i \in 1..n : u[i] = s[i]
      /\ \A i \in 1..m : u[n + i] = t[i]
  OBVIOUS
<1>3. s \in Lists(n, S) /\ t \in Lists(m, S) /\ u \in Lists(n + m, S)
  <2>1. ASSUME NEW T, NEW x \in Seq(T) PROVE x \in [1..Len(x) -> T]
    BY <2>1
  <2> QED
    BY <1>2, <2>1 DEF Lists
<1> HIDE DEF n, m, u
<1>4. PICK f \in [0..n -> Seq(S)] : f[n] = Turns!FlattenSeq(s) /\ Joins(f, n, s)
  BY <1>1, <1>3, TurnsFlat
<1>5. PICK g \in [0..m -> Seq(S)] : g[m] = Turns!FlattenSeq(t) /\ Joins(g, m, t)
  BY <1>1, <1>3, TurnsFlat
<1>6. PICK h \in [0..(n + m) -> Seq(S)] : h[n + m] = Turns!FlattenSeq(u) /\ Joins(h, n + m, u)
  BY <1>1, <1>3, TurnsFlat
<1>7. /\ f[0] = <<>> /\ \A i \in 1..n : f[i] = f[i-1] \o s[i]
      /\ g[0] = <<>> /\ \A i \in 1..m : g[i] = g[i-1] \o t[i]
      /\ h[0] = <<>> /\ \A i \in 1..(n + m) : h[i] = h[i-1] \o u[i]
  BY <1>4, <1>5, <1>6 DEF Joins
<1>8. ASSUME NEW i \in 0..n PROVE h[i] = f[i]
  <2> DEFINE Bad == {k \in 0..n : h[k] # f[k]}
  <2> SUFFICES ASSUME Bad # {} PROVE FALSE
    OBVIOUS
  <2>1. PICK k \in Bad : \A j \in Bad : k <= j
    <3>1. Bad \in SUBSET Nat
      BY <1>1
    <3> HIDE DEF Bad
    <3> QED
      BY <3>1, LeastNumber
  <2>0. k # 0
    BY <1>7, <2>1
  <2>2. k \in 1..n /\ k \in 1..(n + m) /\ k - 1 \in 0..n /\ ~(k <= k - 1)
    BY <1>1, <2>0
  <2>3. h[k-1] = f[k-1]
    BY <2>1, <2>2
  <2> QED
    BY <1>2, <1>7, <2>2, <2>3
<1>9. ASSUME NEW i \in 0..m PROVE h[n + i] = f[n] \o g[i]
  <2> DEFINE Bad == {k \in 0..m : h[n + k] # f[n] \o g[k]}
  <2> SUFFICES ASSUME Bad # {} PROVE FALSE
    OBVIOUS
  <2>1. PICK k \in Bad : \A j \in Bad : k <= j
    <3>1. Bad \in SUBSET Nat
      BY <1>1
    <3> HIDE DEF Bad
    <3> QED
      BY <3>1, LeastNumber
  <2>2. n \in 0..n /\ f[n] \in Seq(S) /\ n + 0 = n
    BY <1>1
  <2>3. k # 0
    <3>1. f[n] \o <<>> = f[n]
      BY <2>2, ConcatEmptySeq
    <3> QED
      BY <1>7, <1>8, <2>1, <2>2, <3>1
  <2>4. k \in 1..m /\ k - 1 \in 0..m /\ ~(k <= k - 1) /\ n + k \in 1..(n + m) /\ (n + k) - 1 = n + (k - 1)
    BY <1>1, <2>3
  <2>5. h[n + (k - 1)] = f[n] \o g[k-1]
    BY <2>1, <2>4
  <2>6. h[n + k] = (f[n] \o g[k-1]) \o t[k]
    <3>1. h[n + k] = h[(n + k) - 1] \o u[n + k]
      BY <1>7, <2>4
    <3>2. u[n + k] = t[k]
      BY <1>2, <2>4
    <3> QED
      BY <2>4, <2>5, <3>1, <3>2
  <2>7. g[k-1] \in Seq(S) /\ t[k] \in Seq(S) /\ g[k] = g[k-1] \o t[k]
    <3>1. t[k] \in Seq(S)
      BY <1>3, <2>4 DEF Lists
    <3> QED
      BY <1>7, <2>4, <3>1
  <2>8. (f[n] \o g[k-1]) \o t[k] = f[n] \o (g[k-1] \o t[k])
    BY <1>0, <2>2, <2>7
  <2> QED
    BY <2>1, <2>6, <2>7, <2>8
<1>10. m \in 0..m /\ n \in 0..n
  BY <1>1
<1> QED
  BY <1>4, <1>5, <1>6, <1>9, <1>10 DEF u

(* Joining one list, and none.                                              *)
LEMMA FlatOne ==
    ASSUME NEW S, NEW x \in Seq(S)
    PROVE  Turns!FlattenSeq(<<x>>) = x /\ Turns!FlattenSeq(<<>>) = <<>>
<1>1. <<x>> \in Lists(1, S) /\ <<>> \in Lists(0, S)
  BY DEF Lists
<1>2. PICK f \in [0..1 -> Seq(S)] : f[1] = Turns!FlattenSeq(<<x>>) /\ Joins(f, 1, <<x>>)
  BY <1>1, TurnsFlat
<1>3. PICK g \in [0..0 -> Seq(S)] : g[0] = Turns!FlattenSeq(<<>>) /\ Joins(g, 0, <<>>)
  BY <1>1, TurnsFlat
<1>4. f[0] = <<>> /\ f[1] = f[0] \o x
  <2>1. 1 \in 1..1 /\ 1 - 1 = 0 /\ <<x>>[1] = x
    OBVIOUS
  <2> QED
    BY <1>2, <2>1 DEF Joins
<1>5. <<>> \o x = x
  BY ConcatEmptySeq
<1> QED
  BY <1>2, <1>3, <1>4, <1>5 DEF Joins

(* The elements of X at the positions in K.                                 *)
Single(X, K) == [k \in DOMAIN X |-> Turns!If(k \in K, X[k])]
Chosen(X, K) == Turns!FlattenSeq(Single(X, K))

(* The places from which elements are chosen: they are in K and rise.       *)
LEMMA ChosenPlaces ==
    ASSUME NEW S, NEW X \in Seq(S), NEW K
    PROVE  /\ Single(X, K) \in Seq(Seq(S)) /\ Len(Single(X, K)) = Len(X)
           /\ Chosen(X, K) = Turns!FlattenSeq(Single(X, K)) /\ Chosen(X, K) \in Seq(S)
           /\ \E at : \A p \in 1..Len(Chosen(X, K)) :
                /\ at[p] \in 1..Len(X) /\ at[p] \in K /\ Chosen(X, K)[p] = X[at[p]]
                /\ \A q \in 1..Len(Chosen(X, K)) : p < q => at[p] < at[q]
<1> DEFINE s == Single(X, K)
           n == Len(X)
           flat == Turns!FlattenSeq(s)
<1>1. n \in Nat /\ DOMAIN X = 1..n /\ \A k \in 1..n : X[k] \in S
  OBVIOUS
<1>2. s = [k \in 1..n |-> IF k \in K THEN <<X[k]>> ELSE <<>>]
  BY <1>1 DEF Single, Turns!If
<1>3. \A k \in 1..n : s[k] \in Seq(S) /\ (k \in K => s[k] = <<X[k]>>) /\ (k \notin K => s[k] = <<>>)
  BY <1>1, <1>2
<1>4. s \in Lists(n, S) /\ s \in Seq(Seq(S)) /\ Len(s) = n
  BY <1>1, <1>2, <1>3 DEF Lists
<1> HIDE DEF s, n, flat
<1>5. Turns!FlattenSeq(s) \in Seq(S) /\ Placed(Turns!FlattenSeq(s), s, n)
  BY <1>1, <1>4, TurnsPlaced
<1>6. PICK at, pos : PlacedBy(Turns!FlattenSeq(s), s, n, at, pos)
  BY <1>5 DEF Placed
<1>7. Chosen(X, K) = Turns!FlattenSeq(s)
  BY DEF Chosen, Single, s
<1>8. ASSUME NEW p \in 1..Len(Turns!FlattenSeq(s))
      PROVE  at[p] \in 1..n /\ at[p] \in K /\ Turns!FlattenSeq(s)[p] = X[at[p]] /\ pos[p] = 1
  <2>1. at[p] \in 1..n /\ pos[p] \in 1..Len(s[at[p]]) /\ Turns!FlattenSeq(s)[p] = s[at[p]][pos[p]]
    BY <1>6 DEF PlacedBy
  <2>2. at[p] \in K
    BY <1>3, <2>1
  <2>3. s[at[p]] = <<X[at[p]]>>
    BY <1>3, <2>1, <2>2
  <2>4. Len(<<X[at[p]]>>) = 1 /\ <<X[at[p]]>>[1] = X[at[p]]
    OBVIOUS
  <2>5. pos[p] = 1
    BY <2>1, <2>3, <2>4
  <2> QED
    BY <2>1, <2>2, <2>3, <2>4, <2>5
<1>9. ASSUME NEW p \in 1..Len(Turns!FlattenSeq(s)), NEW q \in 1..Len(Turns!FlattenSeq(s)), p < q
      PROVE  at[p] < at[q]
  <2>1. at[p] < at[q] \/ (at[p] = at[q] /\ pos[p] < pos[q])
    BY <1>6, <1>9 DEF PlacedBy
  <2>2. pos[p] = 1 /\ pos[q] = 1
    BY <1>8
  <2> QED
    BY <2>1, <2>2
<1> QED
  BY <1>4, <1>5, <1>7, <1>8, <1>9 DEF s, n

(* Who chooses every place has the whole list.                              *)
LEMMA ChosenAll ==
    ASSUME NEW S, NEW X \in Seq(S), NEW K, \A k \in 1..Len(X) : k \in K
    PROVE  Chosen(X, K) = X
<1> DEFINE s == Single(X, K)
           n == Len(X)
<1>1. n \in Nat /\ DOMAIN X = 1..n /\ \A k \in 1..n : X[k] \in S
  OBVIOUS
<1>2. s = [k \in 1..n |-> IF k \in K THEN <<X[k]>> ELSE <<>>]
  BY <1>1 DEF Single, Turns!If
<1>3. \A k \in 1..n : s[k] = <<X[k]>>
  BY <1>2
<1>4. s \in Lists(n, S)
  BY <1>1, <1>2, <1>3 DEF Lists
<1>5. Chosen(X, K) = Turns!FlattenSeq(s)
  BY DEF Chosen, Single
<1> HIDE DEF s
<1>6. PICK f \in [0..n -> Seq(S)] : f[n] = Turns!FlattenSeq(s) /\ Joins(f, n, s)
  BY <1>1, <1>4, TurnsFlat
<1>7. f[0] = <<>> /\ \A i \in 1..n : f[i] = f[i-1] \o s[i]
  BY <1>6 DEF Joins
<1>8. ASSUME NEW i \in 0..n PROVE f[i] = SubSeq(X, 1, i)
  <2> DEFINE Bad == {k \in 0..n : f[k] # SubSeq(X, 1, k)}
  <2> SUFFICES ASSUME Bad # {} PROVE FALSE
    OBVIOUS
  <2>1. PICK k \in Bad : \A j \in Bad : k <= j
    <3>1. Bad \in SUBSET Nat
      BY <1>1
    <3> HIDE DEF Bad
    <3> QED
      BY <3>1, LeastNumber
  <2>2. SubSeq(X, 1, 0) = <<>>
    OBVIOUS
  <2>3. k \in 1..n /\ k - 1 \in 0..n /\ ~(k <= k - 1)
    BY <1>1, <1>7, <2>2
  <2>4. f[k-1] = SubSeq(X, 1, k - 1)
    BY <2>1, <2>3
  <2>5. SubSeq(X, 1, k) = SubSeq(X, 1, k - 1) \o <<X[k]>>
    BY <1>1, <2>3
  <2> QED
    BY <1>3, <1>7, <2>1, <2>3, <2>4, <2>5
<1>9. SubSeq(X, 1, n) = X
  OBVIOUS
<1>10. n \in 0..n
  BY <1>1
<1> QED
  BY <1>5, <1>6, <1>8, <1>9, <1>10

(* A choice from two lists is one from each of them.                        *)
LEMMA ChosenConcat ==
    ASSUME NEW S, NEW X \in Seq(S), NEW Y \in Seq(S), NEW J, NEW K, NEW L,
           \A k \in 1..Len(X) : k \in K <=> k \in J,
           \A k \in 1..Len(Y) : Len(X) + k \in K <=> k \in L
    PROVE  Chosen(X \o Y, K) = Chosen(X, J) \o Chosen(Y, L)
<1>1. X \o Y \in Seq(S) /\ Len(X \o Y) = Len(X) + Len(Y) /\ Len(X) \in Nat /\ Len(Y) \in Nat
  OBVIOUS
<1>2. /\ Single(X, J) \in Seq(Seq(S)) /\ Len(Single(X, J)) = Len(X)
      /\ Single(Y, L) \in Seq(Seq(S)) /\ Len(Single(Y, L)) = Len(Y)
      /\ Single(X \o Y, K) \in Seq(Seq(S)) /\ Len(Single(X \o Y, K)) = Len(X) + Len(Y)
      /\ Chosen(X, J) = Turns!FlattenSeq(Single(X, J)) /\ Chosen(Y, L) = Turns!FlattenSeq(Single(Y, L))
      /\ Chosen(X \o Y, K) = Turns!FlattenSeq(Single(X \o Y, K))
  BY <1>1, ChosenPlaces
<1>3. \A k \in 1..Len(X) : Single(X \o Y, K)[k] = Single(X, J)[k]
  <2> TAKE k \in 1..Len(X)
  <2>1. k \in DOMAIN X /\ k \in DOMAIN (X \o Y) /\ (X \o Y)[k] = X[k]
    BY <1>1
  <2> QED
    BY <2>1 DEF Single, Turns!If
<1>4. \A k \in 1..Len(Y) : Single(X \o Y, K)[Len(X) + k] = Single(Y, L)[k]
  <2> TAKE k \in 1..Len(Y)
  <2>1. k \in DOMAIN Y /\ Len(X) + k \in DOMAIN (X \o Y) /\ (X \o Y)[Len(X) + k] = Y[k]
    BY <1>1
  <2> QED
    BY <2>1 DEF Single, Turns!If
<1>5. Single(X \o Y, K) = Single(X, J) \o Single(Y, L)
  <2> DEFINE a == Single(X, J)
             b == Single(Y, L)
             c == Single(X \o Y, K)
             n == Len(X)
             m == Len(Y)
  <2>1. /\ n \in Nat /\ m \in Nat
        /\ a \in Seq(Seq(S)) /\ Len(a) = n /\ b \in Seq(Seq(S)) /\ Len(b) = m
        /\ c \in Seq(Seq(S)) /\ Len(c) = n + m
        /\ \A k \in 1..n : c[k] = a[k]
        /\ \A k \in 1..m : c[n + k] = b[k]
    BY <1>1, <1>2, <1>3, <1>4
  <2> HIDE DEF a, b, c, n, m
  <2>2. /\ Len(c) = Len(a) + Len(b) /\ \A k \in 1..Len(a) : c[k] = a[k]
        /\ \A k \in 1..Len(b) : c[Len(a) + k] = b[k]
    BY <2>1
  <2> DEFINE R == Seq(S)
  <2>3. a \in Seq(R) /\ b \in Seq(R) /\ c \in Seq(R)
    BY <2>1
  <2> HIDE DEF R
  <2>4. c = a \o b
    BY <2>2, <2>3, IsConcat
  <2> QED
    BY <2>4 DEF a, b, c
<1>6. \A s, t \in Seq(Seq(S)) : Turns!FlattenSeq(s \o t) = Turns!FlattenSeq(s) \o Turns!FlattenSeq(t)
  BY FlatConcat
<1> QED
  BY <1>2, <1>5, <1>6

(* Lists of records with chunks: all the chunks of two of them are those of *)
(* the first and then those of the second.                                  *)
Chunky(R, W) == \A r \in R : r.chunks \in Seq(W)
ChunkLists(a) == [k \in DOMAIN a |-> a[k].chunks]

(* The lists of chunks of some records.                                     *)
LEMMA ChunkListsAre ==
    ASSUME NEW W, NEW R, Chunky(R, W), NEW a \in Seq(R)
    PROVE  /\ ChunkLists(a) \in Seq(Seq(W)) /\ Len(ChunkLists(a)) = Len(a)
           /\ \A k \in 1..Len(a) : ChunkLists(a)[k] = a[k].chunks
<1>1. DOMAIN a = 1..Len(a) /\ Len(a) \in Nat /\ \A k \in 1..Len(a) : a[k] \in R
  OBVIOUS
<1>2. ChunkLists(a) = [k \in 1..Len(a) |-> a[k].chunks]
  BY <1>1 DEF ChunkLists
<1>3. \A k \in 1..Len(a) : a[k].chunks \in Seq(W)
  BY <1>1 DEF Chunky
<1> QED
  BY <1>1, <1>2, <1>3

(* The chunks of two lists of records are those of the first, then those of *)
(* the second.                                                              *)
LEMMA ChunksInConcat ==
    ASSUME NEW W, NEW R, Chunky(R, W), NEW a \in Seq(R), NEW b \in Seq(R)
    PROVE  /\ Turns!ChunksIn(a) \in Seq(W) /\ Turns!ChunksIn(b) \in Seq(W)
           /\ Turns!ChunksIn(a \o b) = Turns!ChunksIn(a) \o Turns!ChunksIn(b)
<1> DEFINE c == a \o b
<1>1. /\ c \in Seq(R) /\ Len(c) = Len(a) + Len(b) /\ Len(a) \in Nat /\ Len(b) \in Nat
      /\ \A k \in 1..Len(a) : c[k] = a[k]
      /\ \A k \in 1..Len(b) : c[Len(a) + k] = b[k]
  OBVIOUS
<1> HIDE DEF c
<1>2. /\ ChunkLists(a) \in Seq(Seq(W)) /\ Len(ChunkLists(a)) = Len(a)
      /\ \A k \in 1..Len(a) : ChunkLists(a)[k] = a[k].chunks
      /\ ChunkLists(b) \in Seq(Seq(W)) /\ Len(ChunkLists(b)) = Len(b)
      /\ \A k \in 1..Len(b) : ChunkLists(b)[k] = b[k].chunks
      /\ ChunkLists(c) \in Seq(Seq(W)) /\ Len(ChunkLists(c)) = Len(c)
      /\ \A k \in 1..Len(c) : ChunkLists(c)[k] = c[k].chunks
  BY <1>1, ChunkListsAre
<1> DEFINE x == ChunkLists(a)
           y == ChunkLists(b)
           z == ChunkLists(c)
           V == Seq(W)
<1>3. /\ x \in Seq(V) /\ y \in Seq(V) /\ z \in Seq(V) /\ Len(z) = Len(x) + Len(y)
      /\ \A k \in 1..Len(x) : z[k] = x[k]
      /\ \A k \in 1..Len(y) : z[Len(x) + k] = y[k]
  <2>1. \A k \in 1..Len(a) : k \in 1..Len(c)
    BY <1>1
  <2>2. \A k \in 1..Len(b) : Len(a) + k \in 1..Len(c)
    BY <1>1
  <2>3. \A k \in 1..Len(x) : z[k] = x[k]
    BY <1>1, <1>2, <2>1
  <2>4. \A k \in 1..Len(y) : z[Len(x) + k] = y[k]
    <3> TAKE k \in 1..Len(y)
    <3>1. k \in 1..Len(b) /\ Len(x) + k = Len(a) + k
      BY <1>2
    <3>2. Len(a) + k \in 1..Len(c) /\ c[Len(a) + k] = b[k]
      BY <1>1, <2>2, <3>1
    <3>3. z[Len(a) + k] = b[k].chunks /\ y[k] = b[k].chunks
      BY <1>2, <3>1, <3>2
    <3> QED
      BY <3>1, <3>3
  <2> QED
    BY <1>1, <1>2, <2>3, <2>4
<1>4. Turns!ChunksIn(a) = Turns!FlattenSeq(x) /\ Turns!ChunksIn(b) = Turns!FlattenSeq(y) /\ Turns!ChunksIn(c) = Turns!FlattenSeq(z)
  BY DEF Turns!ChunksIn, ChunkLists
<1> HIDE DEF x, y, z
<1>5. z = x \o y
  <2> HIDE DEF V
  <2> QED
    BY <1>3, IsConcat
<1>6. /\ Turns!FlattenSeq(x) \in Seq(W) /\ Turns!FlattenSeq(y) \in Seq(W)
      /\ Turns!FlattenSeq(x \o y) = Turns!FlattenSeq(x) \o Turns!FlattenSeq(y)
  BY <1>3, FlatConcat
<1> QED
  BY <1>4, <1>5, <1>6 DEF c

(* The chunks of one record, and of none.                                   *)
ChunksWith(r) == Turns!ChunksIn(<<r>>)
LEMMA ChunksOfOne ==
    ASSUME NEW W, NEW R, Chunky(R, W), NEW r \in R
    PROVE  Turns!ChunksIn(<<>>) = <<>> /\ ChunksWith(r) = r.chunks
<1>1. <<r>> \in Seq(R) /\ <<>> \in Seq(R)
  OBVIOUS
<1>2. r.chunks \in Seq(W)
  BY DEF Chunky
<1>3. ChunkLists(<<r>>) = <<r.chunks>> /\ ChunkLists(<<>>) = <<>>
  <2>1. DOMAIN <<r>> = {1} /\ DOMAIN <<>> = {} /\ <<r>>[1] = r
    OBVIOUS
  <2>2. ChunkLists(<<r>>) = [k \in {1} |-> r.chunks]
    BY <2>1 DEF ChunkLists
  <2>3. ChunkLists(<<>>) = <<>>
    BY DEF ChunkLists
  <2> QED
    BY <2>2, <2>3
<1>4. Turns!ChunksIn(<<r>>) = Turns!FlattenSeq(<<r.chunks>>) /\ Turns!ChunksIn(<<>>) = Turns!FlattenSeq(<<>>)
  BY <1>3 DEF Turns!ChunksIn, ChunkLists
<1> QED
  BY <1>2, <1>4, FlatOne DEF ChunksWith

(* The chunks of a list with one more record.                               *)
LEMMA ChunksInAppend ==
    ASSUME NEW W, NEW R, Chunky(R, W), NEW a \in Seq(R), NEW r \in R
    PROVE  Turns!ChunksIn(Append(a, r)) = Turns!ChunksIn(a) \o r.chunks
<1>1. Append(a, r) = a \o <<r>> /\ <<r>> \in Seq(R)
  OBVIOUS
<1>2. Turns!ChunksIn(<<r>>) = r.chunks
  BY ChunksOfOne DEF ChunksWith
<1>3. \A x, y \in Seq(R) : Turns!ChunksIn(x \o y) = Turns!ChunksIn(x) \o Turns!ChunksIn(y)
  BY ChunksInConcat
<1> QED
  BY <1>1, <1>2, <1>3

(* Part of a list: not empty, and continued by the next element.            *)
LEMMA PartMore ==
    ASSUME NEW W, NEW X \in Seq(W), NEW u \in 0..Len(X), NEW k \in 1..Len(X), u < k
    PROVE  SubSeq(X, u + 1, k) # <<>> /\ (u < k - 1 => Append(SubSeq(X, u + 1, k - 1), X[k]) = SubSeq(X, u + 1, k))
<1>1. Len(X) \in Nat /\ u \in Int /\ k \in Int
  OBVIOUS
<1>2. SubSeq(X, u + 1, k) \in Seq(W) /\ Len(SubSeq(X, u + 1, k)) = k - u
  BY <1>1
<1>3. SubSeq(X, u + 1, k) # <<>>
  BY <1>1, <1>2
<1>4. ASSUME u < k - 1 PROVE Append(SubSeq(X, u + 1, k - 1), X[k]) = SubSeq(X, u + 1, k)
  BY <1>1, <1>4
<1> QED
  BY <1>3, <1>4

(* The chunks of joined lists are the joined chunks of the lists.           *)
LEMMA ChunksInFlat ==
    ASSUME NEW W, NEW R, Chunky(R, W), NEW L \in Seq(Seq(R)), NEW c \in Seq(Seq(W)), Len(c) = Len(L),
           \A k \in 1..Len(L) : c[k] = Turns!ChunksIn(L[k])
    PROVE  Turns!ChunksIn(Turns!FlattenSeq(L)) = Turns!FlattenSeq(c)
<1> DEFINE n == Len(L)
<1>0. \A x, y \in Seq(R) : Turns!ChunksIn(x \o y) = Turns!ChunksIn(x) \o Turns!ChunksIn(y)
  BY ChunksInConcat
<1>1. /\ n \in Nat /\ L \in Lists(n, R) /\ c \in Lists(n, W)
      /\ \A k \in 1..n : L[k] \in Seq(R) /\ c[k] = Turns!ChunksIn(L[k])
  <2>1. ASSUME NEW T, NEW x \in Seq(T) PROVE x \in [1..Len(x) -> T]
    BY <2>1
  <2> QED
    BY <2>1 DEF Lists
<1> HIDE DEF n
<1>2. PICK f \in [0..n -> Seq(R)] : f[n] = Turns!FlattenSeq(L) /\ Joins(f, n, L)
  BY <1>1, TurnsFlat
<1>3. PICK g \in [0..n -> Seq(W)] : g[n] = Turns!FlattenSeq(c) /\ Joins(g, n, c)
  BY <1>1, TurnsFlat
<1>4. /\ f[0] = <<>> /\ \A i \in 1..n : f[i] = f[i-1] \o L[i]
      /\ g[0] = <<>> /\ \A i \in 1..n : g[i] = g[i-1] \o c[i]
  BY <1>2, <1>3 DEF Joins
<1>5. Turns!ChunksIn(<<>>) = <<>>
  <2>1. ChunkLists(<<>>) = <<>>
    BY DEF ChunkLists
  <2>2. <<>> \in Seq({})
    OBVIOUS
  <2> QED
    BY <2>1, <2>2, FlatOne DEF Turns!ChunksIn, ChunkLists
<1>6. \A i \in 0..n : Turns!ChunksIn(f[i]) = g[i]
  <2> DEFINE Bad == {k \in 0..n : Turns!ChunksIn(f[k]) # g[k]}
  <2> SUFFICES ASSUME Bad # {} PROVE FALSE
    OBVIOUS
  <2>1. PICK k \in Bad : \A j \in Bad : k <= j
    <3>1. Bad \in SUBSET Nat
      BY <1>1
    <3> HIDE DEF Bad
    <3> QED
      BY <3>1, LeastNumber
  <2>2. k # 0
    BY <1>4, <1>5, <2>1
  <2>3. k \in 1..n /\ k - 1 \in 0..n /\ ~(k <= k - 1)
    BY <1>1, <2>2
  <2>4. Turns!ChunksIn(f[k-1]) = g[k-1]
    BY <2>1, <2>3
  <2>5. f[k-1] \in Seq(R) /\ L[k] \in Seq(R)
    BY <1>1, <2>3
  <2>6. Turns!ChunksIn(f[k-1] \o L[k]) = Turns!ChunksIn(f[k-1]) \o Turns!ChunksIn(L[k])
    BY <1>0, <2>5
  <2> QED
    BY <1>1, <1>4, <2>1, <2>3, <2>4, <2>6
<1>7. n \in 0..n
  BY <1>1
<1> QED
  BY <1>2, <1>3, <1>6, <1>7

(* The places of texts, and of those chunks that mergeTextChunks keeps.     *)
TextAt(X) == {k \in 1..Len(X) : X[k].kind = "text"}
NoTextAt(X) == {k \in 1..Len(X) : X[k].kind # "text"}
MergedAt(X) == {k \in 1..Len(X) : k \in TextAt(X) => \A j \in TextAt(X) : j <= k}

(* mergeTextChunks and WithoutText choose chunks by their place.            *)
LEMMA TextFilters ==
    ASSUME NEW W, NEW X \in Seq(W)
    PROVE  /\ Turns!WithoutText(X) = Chosen(X, NoTextAt(X)) /\ Turns!mergeTextChunks(X) = Chosen(X, MergedAt(X))
           /\ Turns!WithoutText(X) \in Seq(W) /\ Turns!mergeTextChunks(X) \in Seq(W)
<1>1. DOMAIN X = 1..Len(X)
  OBVIOUS
<1>2. [k \in DOMAIN X |-> Turns!If(X[k].kind # "text", X[k])] = Single(X, NoTextAt(X))
  BY <1>1 DEF Single, Turns!If, NoTextAt
<1> DEFINE texts == {k \in DOMAIN X : X[k].kind = "text"}
<1>3. texts = TextAt(X)
  BY <1>1 DEF TextAt
<1>4. [k \in DOMAIN X |-> Turns!If(k \in texts => \A j \in texts : j <= k, X[k])] = Single(X, MergedAt(X))
  <2> HIDE DEF texts
  <2>1. \A k \in DOMAIN X : (k \in texts => \A j \in texts : j <= k) <=> k \in MergedAt(X)
    BY <1>1, <1>3 DEF MergedAt
  <2> QED
    BY <2>1 DEF Single, Turns!If
<1>5. Chosen(X, NoTextAt(X)) \in Seq(W) /\ Chosen(X, MergedAt(X)) \in Seq(W)
  BY ChosenPlaces
<1>6. Turns!WithoutText(X) = Chosen(X, NoTextAt(X))
  BY <1>2 DEF Turns!WithoutText, Chosen
<1>7. Turns!mergeTextChunks(X) = Chosen(X, MergedAt(X))
  BY <1>4 DEF Turns!mergeTextChunks, Chosen
<1> QED
  BY <1>5, <1>6, <1>7

(* What is left of the texts when a list is continued by chunks without a   *)
(* text, or by chunks with one text.                                        *)
LEMMA TextsContinued ==
    ASSUME NEW W, NEW X \in Seq(W), NEW Y \in Seq(W)
    PROVE  /\ Turns!WithoutText(X \o Y) = Turns!WithoutText(X) \o Turns!WithoutText(Y)
           /\ TextAt(Y) = {} => Turns!WithoutText(Y) = Y /\ Turns!mergeTextChunks(X \o Y) = Turns!mergeTextChunks(X) \o Y
           /\ (\E t \in TextAt(Y) : TextAt(Y) = {t}) => Turns!mergeTextChunks(X \o Y) = Turns!WithoutText(X) \o Y
<1> DEFINE Z == X \o Y
           n == Len(X)
           m == Len(Y)
<1>1. /\ Z \in Seq(W) /\ n \in Nat /\ m \in Nat /\ Len(Z) = n + m
      /\ \A k \in 1..n : Z[k] = X[k]
      /\ \A k \in 1..m : Z[n + k] = Y[k]
  OBVIOUS
<1>2. /\ Turns!WithoutText(X) = Chosen(X, NoTextAt(X)) /\ Turns!mergeTextChunks(X) = Chosen(X, MergedAt(X))
      /\ Turns!WithoutText(Y) = Chosen(Y, NoTextAt(Y))
      /\ Turns!WithoutText(Z) = Chosen(Z, NoTextAt(Z)) /\ Turns!mergeTextChunks(Z) = Chosen(Z, MergedAt(Z))
  BY <1>1, TextFilters
<1> DEFINE Splits(K, J, L) == (\A k \in 1..n : k \in K <=> k \in J) /\ \A k \in 1..m : n + k \in K <=> k \in L
<1>3. ASSUME NEW K, NEW J, NEW L, Splits(K, J, L)
      PROVE  Chosen(Z, K) = Chosen(X, J) \o Chosen(Y, L)
  BY <1>3, ChosenConcat
<1> HIDE DEF Z, n, m, Splits
<1>4. /\ \A k \in 1..n : k \in 1..(n + m)
      /\ \A k \in 1..m : n + k \in 1..(n + m)
  BY <1>1
<1>5. /\ TextAt(X) = {k \in 1..n : X[k].kind = "text"} /\ TextAt(Y) = {k \in 1..m : Y[k].kind = "text"}
      /\ NoTextAt(X) = {k \in 1..n : X[k].kind # "text"} /\ NoTextAt(Y) = {k \in 1..m : Y[k].kind # "text"}
      /\ TextAt(Z) = {k \in 1..(n + m) : Z[k].kind = "text"} /\ NoTextAt(Z) = {k \in 1..(n + m) : Z[k].kind # "text"}
      /\ MergedAt(X) = {k \in 1..n : k \in TextAt(X) => \A j \in TextAt(X) : j <= k}
      /\ MergedAt(Z) = {k \in 1..(n + m) : k \in TextAt(Z) => \A j \in TextAt(Z) : j <= k}
  BY <1>1 DEF TextAt, NoTextAt, MergedAt, n, m
<1>6. /\ \A k \in 1..n : k \in TextAt(Z) <=> k \in TextAt(X)
      /\ \A k \in 1..m : n + k \in TextAt(Z) <=> k \in TextAt(Y)
  BY <1>1, <1>4, <1>5
<1>7. Turns!WithoutText(Z) = Turns!WithoutText(X) \o Turns!WithoutText(Y)
  <2>1. \A k \in 1..n : k \in NoTextAt(Z) <=> k \in NoTextAt(X)
    BY <1>1, <1>4, <1>5
  <2>2. \A k \in 1..m : n + k \in NoTextAt(Z) <=> k \in NoTextAt(Y)
    BY <1>1, <1>4, <1>5
  <2>3. Splits(NoTextAt(Z), NoTextAt(X), NoTextAt(Y))
    BY <2>1, <2>2 DEF Splits
  <2>4. Chosen(Z, NoTextAt(Z)) = Chosen(X, NoTextAt(X)) \o Chosen(Y, NoTextAt(Y))
    BY <1>3, <2>3
  <2> QED
    BY <1>2, <2>4
<1>8. ASSUME TextAt(Y) = {}
      PROVE  Turns!WithoutText(Y) = Y /\ Turns!mergeTextChunks(Z) = Turns!mergeTextChunks(X) \o Y
  <2>1. \A k \in 1..m : k \in NoTextAt(Y)
    BY <1>5, <1>8
  <2>2. Chosen(Y, NoTextAt(Y)) = Y
    BY <2>1, ChosenAll DEF m
  <2>3. TextAt(Z) = TextAt(X)
    <3>1. \A k \in 1..(n + m) : k \notin 1..n => k - n \in 1..m /\ n + (k - n) = k
      BY <1>1
    <3>2. \A k \in TextAt(Z) : k \in 1..n
      BY <1>5, <1>6, <1>8, <3>1
    <3> QED
      BY <1>4, <1>5, <1>6, <3>2
  <2>4. \A k \in 1..n : k \in MergedAt(Z) <=> k \in MergedAt(X)
    BY <1>4, <1>5, <2>3
  <2>5. \A k \in 1..m : n + k \in MergedAt(Z) <=> k \in NoTextAt(Y)
    <3>1. \A k \in 1..m : n + k \in MergedAt(Z)
      BY <1>4, <1>5, <1>6, <1>8
    <3> QED
      BY <2>1, <3>1
  <2>6. Chosen(Z, MergedAt(Z)) = Chosen(X, MergedAt(X)) \o Chosen(Y, NoTextAt(Y))
    <3>1. Splits(MergedAt(Z), MergedAt(X), NoTextAt(Y))
      BY <2>4, <2>5 DEF Splits
    <3> QED
      BY <1>3, <3>1
  <2> QED
    BY <1>2, <2>2, <2>6
<1>9. ASSUME NEW t \in TextAt(Y), TextAt(Y) = {t}
      PROVE  Turns!mergeTextChunks(Z) = Turns!WithoutText(X) \o Y
  <2>1. t \in 1..m /\ n + t \in TextAt(Z)
    BY <1>5, <1>6
  <2>2. \A k \in TextAt(Z) : k <= n + t
    <3> TAKE k \in TextAt(Z)
    <3>1. k \in 1..(n + m)
      BY <1>5
    <3>2. CASE k <= n
      BY <1>1, <2>1, <3>1, <3>2
    <3>3. CASE k > n
      <4>1. k - n \in 1..m /\ n + (k - n) = k
        BY <1>1, <3>1, <3>3
      <4>2. k - n \in TextAt(Y)
        BY <1>6, <4>1
      <4>3. k - n = t
        BY <1>9, <4>2
      <4> QED
        BY <1>1, <2>1, <3>1, <4>1, <4>3
    <3> QED
      BY <1>1, <3>1, <3>2, <3>3
  <2>3. \A k \in 1..n : k \in MergedAt(Z) <=> k \in NoTextAt(X)
    <3> TAKE k \in 1..n
    <3>1. k \in TextAt(Z) <=> k \notin NoTextAt(X)
      BY <1>5, <1>6
    <3>2. ~(n + t <= k)
      BY <1>1, <2>1
    <3> QED
      BY <1>4, <1>5, <2>1, <3>1, <3>2
  <2>4. \A k \in 1..m : n + k \in MergedAt(Z)
    <3> TAKE k \in 1..m
    <3>1. n + k \in TextAt(Z) => k = t
      BY <1>6, <1>9
    <3> QED
      BY <1>4, <1>5, <2>2, <3>1
  <2>5. Chosen(Z, MergedAt(Z)) = Chosen(X, NoTextAt(X)) \o Chosen(Y, 1..m)
    <3>1. Splits(MergedAt(Z), NoTextAt(X), 1..m)
      BY <2>3, <2>4 DEF Splits
    <3> QED
      BY <1>3, <3>1
  <2>6. Chosen(Y, 1..m) = Y
    BY ChosenAll DEF m
  <2> QED
    BY <1>2, <2>5, <2>6
<1> QED
  BY <1>7, <1>8, <1>9 DEF Z

(* Chunks, the items made of them, and where buildRenderItems keeps both.   *)
KindsOf(W) == \A w \in W : w.kind \in {"reasoning", "text", "tool"}
Types == {"explored-group", "subagent-group", "reasoning-item", "text-chunk", "edit-item", "shell-item", "reply-item", "tool-item"}
Tags == {"explored", "subagents", "tool", "reasoning", "text"}
ItemsOf(W) == [type : Types, key : Tags \X ({w.of : w \in W} \cup Nat), chunks : Seq(W)]
AccsOf(W) == [items : Seq(ItemsOf(W)), explored : Seq(W), subagents : Seq(W)]
Grouped(type) == type \in {"explored-group", "subagent-group"}

(* An item under a key of one of its chunks, or of their place.             *)
LEMMA ItemTyped ==
    ASSUME NEW W, NEW w \in W, NEW l \in Seq(W), NEW type \in Types, NEW tag \in Tags, NEW k \in Nat
    PROVE  Turns!Item(type, <<tag, w.of>>, l) \in ItemsOf(W) /\ Turns!Item(type, <<tag, k>>, l) \in ItemsOf(W)
BY DEF Turns!Item, ItemsOf

(* flushExplored makes a group of the explorations put aside, if any.       *)
LEMMA FlushExploredTyped ==
    ASSUME NEW W, NEW acc \in AccsOf(W)
    PROVE  /\ Turns!flushExplored(acc) \in AccsOf(W) /\ Turns!flushExplored(acc).subagents = acc.subagents
           /\ Turns!flushExplored(acc).explored = <<>>
           /\ acc.explored = <<>> => Turns!flushExplored(acc).items = acc.items
           /\ acc.explored # <<>> => Turns!flushExplored(acc).items =
                Append(acc.items, Turns!Item("explored-group", <<"explored", acc.explored[1].of>>, acc.explored))
<1> DEFINE item == Turns!Item("explored-group", <<"explored", acc.explored[1].of>>, acc.explored)
<1>1. acc.items \in Seq(ItemsOf(W)) /\ acc.explored \in Seq(W) /\ acc.subagents \in Seq(W)
  BY DEF AccsOf
<1>2. acc = [items |-> acc.items, explored |-> acc.explored, subagents |-> acc.subagents]
  BY DEF AccsOf
<1>3. CASE acc.explored = <<>>
  BY <1>1, <1>2, <1>3 DEF Turns!flushExplored
<1>4. CASE acc.explored # <<>>
  <2>1. acc.explored[1] \in W
    BY <1>1, <1>4
  <2>2. item \in ItemsOf(W)
    <3>1. "explored" \in Tags /\ "subagents" \in Tags /\ "explored-group" \in Types /\ "subagent-group" \in Types
      BY DEF Tags, Types
    <3> QED
      BY <1>1, <2>1, <3>1, ItemTyped
  <2> HIDE DEF item
  <2>3. Turns!flushExplored(acc) = [items |-> Append(acc.items, item), explored |-> <<>>, subagents |-> acc.subagents]
    BY <1>2, <1>4 DEF Turns!flushExplored, item
  <2>4. Append(acc.items, item) \in Seq(ItemsOf(W)) /\ <<>> \in Seq(W)
    BY <1>1, <2>2
  <2>5. Turns!flushExplored(acc) \in AccsOf(W)
    BY <1>1, <2>3, <2>4 DEF AccsOf
  <2> QED
    BY <1>4, <2>3, <2>5 DEF item
<1> QED
  BY <1>3, <1>4

(* flushSubagents makes a group of the subagents put aside, if any.         *)
LEMMA FlushSubagentsTyped ==
    ASSUME NEW W, NEW acc \in AccsOf(W)
    PROVE  /\ Turns!flushSubagents(acc) \in AccsOf(W) /\ Turns!flushSubagents(acc).explored = acc.explored
           /\ Turns!flushSubagents(acc).subagents = <<>>
           /\ acc.subagents = <<>> => Turns!flushSubagents(acc).items = acc.items
           /\ acc.subagents # <<>> => Turns!flushSubagents(acc).items =
                Append(acc.items, Turns!Item("subagent-group", <<"subagents", acc.subagents[1].of>>, acc.subagents))
<1> DEFINE item == Turns!Item("subagent-group", <<"subagents", acc.subagents[1].of>>, acc.subagents)
<1>1. acc.items \in Seq(ItemsOf(W)) /\ acc.explored \in Seq(W) /\ acc.subagents \in Seq(W)
  BY DEF AccsOf
<1>2. acc = [items |-> acc.items, explored |-> acc.explored, subagents |-> acc.subagents]
  BY DEF AccsOf
<1>3. CASE acc.subagents = <<>>
  BY <1>1, <1>2, <1>3 DEF Turns!flushSubagents
<1>4. CASE acc.subagents # <<>>
  <2>1. acc.subagents[1] \in W
    BY <1>1, <1>4
  <2>2. item \in ItemsOf(W)
    <3>1. "explored" \in Tags /\ "subagents" \in Tags /\ "explored-group" \in Types /\ "subagent-group" \in Types
      BY DEF Tags, Types
    <3> QED
      BY <1>1, <2>1, <3>1, ItemTyped
  <2> HIDE DEF item
  <2>3. Turns!flushSubagents(acc) = [items |-> Append(acc.items, item), explored |-> acc.explored, subagents |-> <<>>]
    BY <1>2, <1>4 DEF Turns!flushSubagents, item
  <2>4. Append(acc.items, item) \in Seq(ItemsOf(W)) /\ <<>> \in Seq(W)
    BY <1>1, <2>2
  <2>5. Turns!flushSubagents(acc) \in AccsOf(W)
    BY <1>1, <2>3, <2>4 DEF AccsOf
  <2> QED
    BY <1>4, <2>3, <2>5 DEF item
<1> QED
  BY <1>3, <1>4

(* A chunk that is put into no group has an item of its own.                *)
LEMMA ChunkItemTyped ==
    ASSUME NEW W, KindsOf(W), NEW c \in W, NEW k \in Nat
    PROVE  /\ Turns!Item(Turns!ItemType(c), Turns!getChunkRenderKey(c, k), <<c>>) \in ItemsOf(W)
           /\ ~Grouped(Turns!ItemType(c))
<1>1. Turns!ItemType(c) \in Types /\ ~Grouped(Turns!ItemType(c))
  <2>1. Turns!ItemType(c) \in {"reasoning-item", "text-chunk", "edit-item", "shell-item", "reply-item", "tool-item"}
    <3>1. CASE c.kind # "tool"
      BY <3>1 DEF Turns!ItemType
    <3>2. CASE c.kind = "tool" /\ (c.tool = "edit" \/ c.diff)
      BY <3>2 DEF Turns!ItemType
    <3>3. CASE c.kind = "tool" /\ ~(c.tool = "edit" \/ c.diff) /\ c.tool = "execute"
      BY <3>3 DEF Turns!ItemType
    <3>4. CASE c.kind = "tool" /\ ~(c.tool = "edit" \/ c.diff) /\ c.tool # "execute"
      BY <3>4 DEF Turns!ItemType
    <3> QED
      BY <3>1, <3>2, <3>3, <3>4
  <2> QED
    BY <2>1 DEF Grouped, Types
<1>2. <<c>> \in Seq(W)
  OBVIOUS
<1>3. c.kind \in Tags /\ "tool" \in Tags
  BY DEF KindsOf, Tags
<1>4. Turns!getChunkRenderKey(c, k) = <<"tool", c.of>> \/ Turns!getChunkRenderKey(c, k) = <<c.kind, k>>
  BY DEF Turns!getChunkRenderKey
<1> QED
  BY <1>1, <1>2, <1>3, <1>4, ItemTyped

(* One more chunk: a subagent, an exploration or something else.            *)
LEMMA PlaceTyped ==
    ASSUME NEW W, KindsOf(W), NEW acc \in AccsOf(W), NEW c \in W, NEW k \in Nat
    PROVE  Turns!Place(acc, c, k) \in AccsOf(W)
<1> DEFINE s == Turns!flushExplored(acc)
           e == Turns!flushSubagents(acc)
           g == Turns!flushGroups(acc)
           item == Turns!Item(Turns!ItemType(c), Turns!getChunkRenderKey(c, k), <<c>>)
<1>1. s \in AccsOf(W) /\ e \in AccsOf(W) /\ g \in AccsOf(W)
  BY FlushExploredTyped, FlushSubagentsTyped DEF Turns!flushGroups
<1>2. item \in ItemsOf(W)
  BY ChunkItemTyped
<1> HIDE DEF s, e, g, item
<1>3. Append(s.subagents, c) \in Seq(W) /\ Append(e.explored, c) \in Seq(W) /\ Append(g.items, item) \in Seq(ItemsOf(W))
  BY <1>1, <1>2 DEF AccsOf
<1>4. /\ [s EXCEPT !.subagents = Append(@, c)] \in AccsOf(W)
      /\ [e EXCEPT !.explored = Append(@, c)] \in AccsOf(W)
      /\ [g EXCEPT !.items = Append(@, item)] \in AccsOf(W)
  BY <1>1, <1>3 DEF AccsOf
<1> QED
  BY <1>4 DEF Turns!Place, s, e, g, item

(* Keys that are taken by the first u chunks of X.                          *)
Taken(X, u, key) ==
    \/ key[1] \in {"reasoning", "text"} /\ key[2] \in 1..u
    \/ /\ key[1] \in {"explored", "subagents", "tool"}
       /\ \E p \in 1..u : X[p].kind = "tool" /\ X[p].of = key[2]
Rising(X) ==
    \A p, q \in 1..Len(X) : p < q /\ X[p].kind = "tool" /\ X[q].kind = "tool" => X[p].of < X[q].of
Numbers(W) == \A w \in W : w.of \in Nat

(* The key that chunk p can give is taken by none before it, and stays      *)
(* taken.                                                                   *)
LEMMA KeysAreNew ==
    ASSUME NEW W, NEW X \in Seq(W), KindsOf(W), Numbers(W), Rising(X), NEW p \in 1..Len(X), NEW tag
    PROVE  /\ tag \in {"explored", "subagents", "tool"} /\ X[p].kind = "tool" =>
                ~Taken(X, p - 1, <<tag, X[p].of>>) /\ Taken(X, p, <<tag, X[p].of>>)
           /\ ~Taken(X, p - 1, Turns!getChunkRenderKey(X[p], p)) /\ Taken(X, p, Turns!getChunkRenderKey(X[p], p))
           /\ \A key, v : v \in p..Len(X) /\ Taken(X, p, key) => Taken(X, v, key)
<1>1. /\ Len(X) \in Nat /\ X[p] \in W /\ X[p].kind \in {"reasoning", "text", "tool"} /\ X[p].of \in Nat
      /\ \A q \in 1..Len(X) : X[q].of \in Nat
  BY DEF KindsOf, Numbers
<1>2. ASSUME NEW t \in {"explored", "subagents", "tool"}, X[p].kind = "tool"
      PROVE  ~Taken(X, p - 1, <<t, X[p].of>>) /\ Taken(X, p, <<t, X[p].of>>)
  <2>1. \A q \in 1..(p - 1) : q \in 1..Len(X) /\ q < p
    BY <1>1
  <2>2. \A q \in 1..(p - 1) : X[q].kind = "tool" => X[q].of # X[p].of
    BY <1>1, <1>2, <2>1 DEF Rising
  <2>3. p \in 1..p
    BY <1>1
  <2> QED
    BY <1>2, <2>2, <2>3 DEF Taken
<1>3. ~Taken(X, p - 1, Turns!getChunkRenderKey(X[p], p)) /\ Taken(X, p, Turns!getChunkRenderKey(X[p], p))
  <2>1. CASE X[p].kind = "tool"
    BY <1>2, <2>1 DEF Turns!getChunkRenderKey
  <2>2. CASE X[p].kind # "tool"
    <3>1. Turns!getChunkRenderKey(X[p], p) = <<X[p].kind, p>> /\ X[p].kind \in {"reasoning", "text"}
      BY <1>1, <2>2 DEF Turns!getChunkRenderKey
    <3>2. p \notin 1..(p - 1) /\ p \in 1..p
      BY <1>1
    <3> QED
      BY <3>1, <3>2 DEF Taken
  <2> QED
    BY <2>1, <2>2
<1>4. ASSUME NEW key, NEW v \in p..Len(X), Taken(X, p, key) PROVE Taken(X, v, key)
  <2>1. \A q \in 1..p : q \in 1..v
    BY <1>1
  <2> QED
    BY <1>4, <2>1 DEF Taken
<1> QED
  BY <1>2, <1>3, <1>4

(* The first u chunks of X are in the items, in order, under distinct keys  *)
(* and with no two groups of one kind side by side.                         *)
Listed(W, X, u, items) ==
    /\ items \in Seq(ItemsOf(W)) /\ u \in 0..Len(X)
    /\ Turns!ChunksIn(items) = SubSeq(X, 1, u)
    /\ \A j \in 1..Len(items) : Taken(X, u, items[j].key)
    /\ \A j, l \in 1..Len(items) : j # l => items[j].key # items[l].key
    /\ \A j \in 2..Len(items) : Grouped(items[j].type) => items[j-1].type # items[j].type
EndsIn(items, type) == items # <<>> /\ items[Len(items)].type = type

(* An item with the next chunks is added: its key is new, and it is no      *)
(* group beside one of its kind.                                            *)
LEMMA ListedMore ==
    ASSUME NEW W, NEW X \in Seq(W), KindsOf(W), Numbers(W), NEW u, NEW items, Listed(W, X, u, items),
           NEW v \in 1..Len(X), u < v, NEW item \in ItemsOf(W), item.chunks = SubSeq(X, u + 1, v),
           Taken(X, v, item.key), ~Taken(X, u, item.key),
           Grouped(item.type) => ~EndsIn(items, item.type)
    PROVE  Listed(W, X, v, Append(items, item)) /\ EndsIn(Append(items, item), item.type)
<1> DEFINE more == Append(items, item)
           n == Len(items)
<1>1. /\ items \in Seq(ItemsOf(W)) /\ u \in 0..Len(X) /\ n \in Nat /\ Len(X) \in Nat
      /\ Turns!ChunksIn(items) = SubSeq(X, 1, u)
      /\ \A j \in 1..n : Taken(X, u, items[j].key)
      /\ \A j, l \in 1..n : j # l => items[j].key # items[l].key
      /\ \A j \in 2..n : Grouped(items[j].type) => items[j-1].type # items[j].type
  BY DEF Listed
<1>2. /\ more \in Seq(ItemsOf(W)) /\ Len(more) = n + 1 /\ more[n + 1] = item
      /\ \A j \in 1..n : more[j] = items[j]
  BY <1>1
<1> HIDE DEF more, n
<1>3. Turns!ChunksIn(more) = SubSeq(X, 1, v)
  <2>1. Chunky(ItemsOf(W), W)
    BY DEF Chunky, ItemsOf
  <2>2. Turns!ChunksIn(more) = Turns!ChunksIn(items) \o item.chunks
    <3> DEFINE R == ItemsOf(W)
               one == <<item>>
    <3>1. one \in Seq(R) /\ items \in Seq(R) /\ more = items \o one
      <4>1. item \in R /\ items \in Seq(R)
        BY <1>1
      <4> HIDE DEF R
      <4>2. Append(items, item) = items \o <<item>> /\ <<item>> \in Seq(R)
        BY <4>1
      <4> QED
        BY <4>1, <4>2 DEF more
    <3>2. Chunky(R, W)
      BY <2>1
    <3>3. \A r \in R : ChunksWith(r) = r.chunks
      <4> HIDE DEF R
      <4> QED
        BY <3>2, ChunksOfOne
    <3>4. \A a, b \in Seq(R) : Turns!ChunksIn(a \o b) = Turns!ChunksIn(a) \o Turns!ChunksIn(b)
      <4> HIDE DEF R
      <4> QED
        BY <3>2, ChunksInConcat
    <3>5. Turns!ChunksIn(one) = item.chunks
      <4>1. item \in R
        BY DEF R
      <4> HIDE DEF R
      <4> QED
        BY <3>3, <4>1 DEF ChunksWith
    <3> HIDE DEF R, one
    <3> QED
      BY <3>1, <3>4, <3>5
  <2>3. SubSeq(X, 1, v) = SubSeq(X, 1, u) \o SubSeq(X, u + 1, v)
    <3>1. Len(X) \in Nat /\ u \in 0..Len(X) /\ v \in 1..Len(X) /\ u < v
      BY <1>1
    <3> QED
      BY <3>1
  <2> QED
    BY <1>1, <2>2, <2>3
<1>4. \A j \in 1..n : Taken(X, v, items[j].key)
  <2>1. \A q \in 1..u : q \in 1..v
    BY <1>1
  <2>2. \A key : Taken(X, u, key) => Taken(X, v, key)
    BY <2>1 DEF Taken
  <2> QED
    BY <1>1, <2>2
<1>5. \A j \in 1..(n + 1) : j = n + 1 \/ j \in 1..n
  BY <1>1
<1>6. \A j \in 1..(n + 1) : Taken(X, v, more[j].key)
  BY <1>2, <1>4, <1>5
<1>7. \A j \in 1..n : items[j].key # item.key
  BY <1>1
<1>8. \A j, l \in 1..(n + 1) : j # l => more[j].key # more[l].key
  BY <1>1, <1>2, <1>5, <1>7
<1>9. ASSUME NEW j \in 2..(n + 1), Grouped(more[j].type) PROVE more[j-1].type # more[j].type
  <2>1. CASE j \in 2..n
    <3>1. j \in 1..n /\ j - 1 \in 1..n
      BY <1>1, <2>1
    <3> QED
      BY <1>1, <1>2, <1>9, <2>1, <3>1
  <2>2. CASE j = n + 1
    <3>1. n \in 1..n /\ j - 1 = n /\ items # <<>>
      BY <1>1, <2>2 DEF n
    <3>2. more[j] = item /\ more[j-1] = items[n]
      BY <1>2, <2>2, <3>1
    <3> QED
      BY <1>9, <3>1, <3>2 DEF EndsIn, n
  <2> QED
    BY <1>1, <2>1, <2>2
<1>10. Listed(W, X, v, more)
  BY <1>1, <1>2, <1>3, <1>6, <1>8, <1>9 DEF Listed
<1>11. EndsIn(more, item.type)
  <2>1. more # <<>>
    BY <1>1, <1>2
  <2> QED
    BY <1>2, <2>1 DEF EndsIn
<1> QED
  BY <1>10, <1>11 DEF more

(* A group is made of the chunks that were put aside.                       *)
Group(tag, type) == (tag = "explored" /\ type = "explored-group") \/ (tag = "subagents" /\ type = "subagent-group")
(* A group of what was put aside is such an item.                           *)
LEMMA GroupMade ==
    ASSUME NEW W, NEW X \in Seq(W), KindsOf(W), Numbers(W), Rising(X), NEW u, NEW items, Listed(W, X, u, items),
           NEW k \in 1..Len(X), u < k, X[u+1].kind = "tool", NEW tag, NEW type, Group(tag, type),
           ~EndsIn(items, type), NEW l, l = SubSeq(X, u + 1, k)
    PROVE  LET more == Append(items, Turns!Item(type, <<tag, l[1].of>>, l)) IN
           Listed(W, X, k, more) /\ EndsIn(more, type)
<1> DEFINE item == Turns!Item(type, <<tag, l[1].of>>, l)
<1>1. u \in 0..Len(X) /\ u + 1 \in 1..Len(X) /\ Len(X) \in Nat /\ u \in Nat
  BY DEF Listed
<1>2. l \in Seq(W) /\ Len(l) = k - u /\ l[1] = X[u+1] /\ X[u+1] \in W
  <2>1. l \in Seq(W) /\ Len(l) = k - u /\ X[u+1] \in W
    BY <1>1
  <2>2. 1 \in 1..(k - u) /\ (u + 1) + 1 - 1 = u + 1
    BY <1>1
  <2>3. \A i \in 1..(k - u) : l[i] = X[(u + 1) + i - 1]
    BY <1>1
  <2> QED
    BY <2>1, <2>2, <2>3
<1>3. type \in Types /\ tag \in Tags /\ tag \in {"explored", "subagents", "tool"}
  BY DEF Group, Types, Tags
<1>4. /\ item \in ItemsOf(W) /\ item.chunks = l /\ item.type = type /\ item.key = <<tag, X[u+1].of>>
  BY <1>2, <1>3, ItemTyped DEF Turns!Item
<1> HIDE DEF item
<1> DEFINE key == <<tag, X[u+1].of>>
<1>5. ~Taken(X, u, key) /\ Taken(X, k, key)
  <2> DEFINE p == u + 1
  <2>1. p \in 1..Len(X) /\ p - 1 = u /\ k \in p..Len(X)
    BY <1>1
  <2>2. X[p].kind = "tool"
    OBVIOUS
  <2> HIDE DEF p
  <2>3. ~Taken(X, p - 1, <<tag, X[p].of>>) /\ Taken(X, p, <<tag, X[p].of>>)
    BY <1>3, <2>1, <2>2, KeysAreNew
  <2>4. \A q, v : v \in p..Len(X) /\ Taken(X, p, q) => Taken(X, v, q)
    BY <2>1, KeysAreNew
  <2> QED
    BY <2>1, <2>3, <2>4 DEF p
<1> HIDE DEF key
<1>6. item.key = key /\ ~EndsIn(items, item.type) /\ item.chunks = SubSeq(X, u + 1, k)
  BY <1>4 DEF key
<1>7. Listed(W, X, k, Append(items, item)) /\ EndsIn(Append(items, item), item.type)
  BY <1>4, <1>5, <1>6, ListedMore
<1> QED
  BY <1>4, <1>7 DEF item

(* What buildRenderItems has done with the first k chunks.                  *)
Unsorted(W, X, u, k, aside, type, items) ==
    /\ u < k /\ aside = SubSeq(X, u + 1, k) /\ X[u+1].kind = "tool" /\ ~EndsIn(items, type)
Sorted(W, X, k, acc) ==
    /\ acc \in AccsOf(W) /\ k \in 0..Len(X)
    /\ \E u : /\ Listed(W, X, u, acc.items)
              /\ \/ /\ u = k /\ acc.explored = <<>> /\ acc.subagents = <<>>
                    /\ ~EndsIn(acc.items, "explored-group") /\ ~EndsIn(acc.items, "subagent-group")
                 \/ acc.subagents = <<>> /\ Unsorted(W, X, u, k, acc.explored, "explored-group", acc.items)
                 \/ acc.explored = <<>> /\ Unsorted(W, X, u, k, acc.subagents, "subagent-group", acc.items)

(* After flushExplored, if no subagents are put aside, all k chunks are     *)
(* listed.                                                                  *)
LEMMA ExploredFlushed ==
    ASSUME NEW W, NEW X \in Seq(W), KindsOf(W), Numbers(W), Rising(X), NEW k, NEW acc, Sorted(W, X, k, acc),
           acc.subagents = <<>>
    PROVE  /\ Listed(W, X, k, Turns!flushExplored(acc).items)
           /\ ~EndsIn(Turns!flushExplored(acc).items, "subagent-group")
<1> DEFINE s == Turns!flushExplored(acc)
<1>1. acc \in AccsOf(W) /\ k \in 0..Len(X) /\ acc.items \in Seq(ItemsOf(W))
  BY DEF Sorted, AccsOf
<1>2. PICK u : /\ Listed(W, X, u, acc.items)
               /\ \/ /\ u = k /\ acc.explored = <<>> /\ acc.subagents = <<>>
                     /\ ~EndsIn(acc.items, "explored-group") /\ ~EndsIn(acc.items, "subagent-group")
                  \/ acc.subagents = <<>> /\ Unsorted(W, X, u, k, acc.explored, "explored-group", acc.items)
                  \/ acc.explored = <<>> /\ Unsorted(W, X, u, k, acc.subagents, "subagent-group", acc.items)
  BY DEF Sorted
<1>3. /\ acc.explored = <<>> => s.items = acc.items
      /\ acc.explored # <<>> => s.items =
                Append(acc.items, Turns!Item("explored-group", <<"explored", acc.explored[1].of>>, acc.explored))
  BY <1>1, FlushExploredTyped
<1>4. u \in 0..Len(X) /\ Len(X) \in Nat
  BY <1>2 DEF Listed
<1> HIDE DEF s
<1>5. ASSUME u < k PROVE SubSeq(X, u + 1, k) # <<>>
  <2>1. k \in 1..Len(X)
    BY <1>1, <1>4, <1>5
  <2> QED
    BY <1>4, <1>5, <2>1, PartMore
<1>6. CASE u = k /\ acc.explored = <<>> /\ ~EndsIn(acc.items, "subagent-group")
  BY <1>2, <1>3, <1>6 DEF s
<1>7. CASE Unsorted(W, X, u, k, acc.explored, "explored-group", acc.items)
  <2>1. /\ u < k /\ acc.explored = SubSeq(X, u + 1, k) /\ X[u+1].kind = "tool"
        /\ ~EndsIn(acc.items, "explored-group")
    BY <1>7 DEF Unsorted
  <2>2. acc.explored # <<>>
    BY <1>5, <2>1
  <2>3. k \in 1..Len(X)
    BY <1>1, <1>4, <2>1
  <2>4. Group("explored", "explored-group")
    BY DEF Group
  <2>5. Listed(W, X, k, s.items) /\ EndsIn(s.items, "explored-group")
    BY <1>2, <1>3, <2>1, <2>2, <2>3, <2>4, GroupMade
  <2>6. ~EndsIn(s.items, "subagent-group")
    BY <2>5 DEF EndsIn
  <2> QED
    BY <2>5, <2>6 DEF s
<1>8. CASE Unsorted(W, X, u, k, acc.subagents, "subagent-group", acc.items)
  BY <1>5, <1>8 DEF Unsorted
<1> QED
  BY <1>2, <1>6, <1>7, <1>8

(* After flushSubagents, if no explorations are put aside, all k chunks are *)
(* listed.                                                                  *)
LEMMA SubagentsFlushed ==
    ASSUME NEW W, NEW X \in Seq(W), KindsOf(W), Numbers(W), Rising(X), NEW k, NEW acc, Sorted(W, X, k, acc),
           acc.explored = <<>>
    PROVE  /\ Listed(W, X, k, Turns!flushSubagents(acc).items)
           /\ ~EndsIn(Turns!flushSubagents(acc).items, "explored-group")
<1> DEFINE s == Turns!flushSubagents(acc)
<1>1. acc \in AccsOf(W) /\ k \in 0..Len(X) /\ acc.items \in Seq(ItemsOf(W))
  BY DEF Sorted, AccsOf
<1>2. PICK u : /\ Listed(W, X, u, acc.items)
               /\ \/ /\ u = k /\ acc.explored = <<>> /\ acc.subagents = <<>>
                     /\ ~EndsIn(acc.items, "explored-group") /\ ~EndsIn(acc.items, "subagent-group")
                  \/ acc.subagents = <<>> /\ Unsorted(W, X, u, k, acc.explored, "explored-group", acc.items)
                  \/ acc.explored = <<>> /\ Unsorted(W, X, u, k, acc.subagents, "subagent-group", acc.items)
  BY DEF Sorted
<1>3. /\ acc.subagents = <<>> => s.items = acc.items
      /\ acc.subagents # <<>> => s.items =
                Append(acc.items, Turns!Item("subagent-group", <<"subagents", acc.subagents[1].of>>, acc.subagents))
  BY <1>1, FlushSubagentsTyped
<1>4. u \in 0..Len(X) /\ Len(X) \in Nat
  BY <1>2 DEF Listed
<1> HIDE DEF s
<1>5. ASSUME u < k PROVE SubSeq(X, u + 1, k) # <<>>
  <2>1. k \in 1..Len(X)
    BY <1>1, <1>4, <1>5
  <2> QED
    BY <1>4, <1>5, <2>1, PartMore
<1>6. CASE u = k /\ acc.subagents = <<>> /\ ~EndsIn(acc.items, "explored-group")
  BY <1>2, <1>3, <1>6 DEF s
<1>7. CASE Unsorted(W, X, u, k, acc.subagents, "subagent-group", acc.items)
  <2>1. /\ u < k /\ acc.subagents = SubSeq(X, u + 1, k) /\ X[u+1].kind = "tool"
        /\ ~EndsIn(acc.items, "subagent-group")
    BY <1>7 DEF Unsorted
  <2>2. acc.subagents # <<>>
    BY <1>5, <2>1
  <2>3. k \in 1..Len(X)
    BY <1>1, <1>4, <2>1
  <2>4. Group("subagents", "subagent-group")
    BY DEF Group
  <2>5. Listed(W, X, k, s.items) /\ EndsIn(s.items, "subagent-group")
    BY <1>2, <1>3, <2>1, <2>2, <2>3, <2>4, GroupMade
  <2>6. ~EndsIn(s.items, "explored-group")
    BY <2>5 DEF EndsIn
  <2> QED
    BY <2>5, <2>6 DEF s
<1>8. CASE Unsorted(W, X, u, k, acc.explored, "explored-group", acc.items)
  BY <1>5, <1>8 DEF Unsorted
<1> QED
  BY <1>2, <1>6, <1>7, <1>8

(* Both buffers are never full at once: after flushGroups everything is     *)
(* listed.                                                                  *)
LEMMA GroupsFlushed ==
    ASSUME NEW W, NEW X \in Seq(W), KindsOf(W), Numbers(W), Rising(X), NEW k, NEW acc, Sorted(W, X, k, acc)
    PROVE  /\ Turns!flushGroups(acc) \in AccsOf(W) /\ Listed(W, X, k, Turns!flushGroups(acc).items)
           /\ Turns!flushGroups(acc).explored = <<>> /\ Turns!flushGroups(acc).subagents = <<>>
<1> DEFINE s == Turns!flushExplored(acc)
           g == Turns!flushSubagents(s)
<1>1. acc \in AccsOf(W)
  BY DEF Sorted
<1>2. s \in AccsOf(W) /\ s.explored = <<>> /\ s.subagents = acc.subagents
  BY <1>1, FlushExploredTyped
<1>3. g \in AccsOf(W) /\ g.explored = <<>> /\ g.subagents = <<>> /\ (s.subagents = <<>> => g.items = s.items)
  <2> HIDE DEF s
  <2> QED
    BY <1>2, FlushSubagentsTyped
<1>4. acc.explored = <<>> => s = acc
  BY DEF Turns!flushExplored
<1>5. acc.explored = <<>> \/ acc.subagents = <<>>
  BY DEF Sorted
<1>6. Listed(W, X, k, g.items)
  <2>1. CASE acc.explored = <<>>
    BY <1>4, <2>1, SubagentsFlushed
  <2>2. CASE acc.subagents = <<>>
    BY <1>2, <1>3, <2>2, ExploredFlushed
  <2> QED
    BY <1>5, <2>1, <2>2
<1> QED
  BY <1>3, <1>6 DEF Turns!flushGroups

(* A subagent is put aside after the explorations are made a group.         *)
LEMMA SubagentPlaced ==
    ASSUME NEW W, NEW X \in Seq(W), KindsOf(W), Numbers(W), Rising(X), NEW k \in 1..Len(X), NEW acc,
           Sorted(W, X, k - 1, acc), Turns!isSubagentTool(X[k])
    PROVE  Sorted(W, X, k, Turns!Place(acc, X[k], k))
<1> DEFINE c == X[k]
           s == Turns!flushExplored(acc)
           P == Turns!Place(acc, c, k)
<1>1. c \in W /\ acc \in AccsOf(W) /\ k - 1 \in 0..Len(X) /\ k \in 0..Len(X) /\ Len(X) \in Nat /\ c.kind = "tool"
  BY DEF Sorted, Turns!isSubagentTool
<1>2. s \in AccsOf(W) /\ s.explored = <<>> /\ s.subagents = acc.subagents
  BY <1>1, FlushExploredTyped
<1>3. P \in AccsOf(W)
  BY <1>1, PlaceTyped
<1>4. P = [s EXCEPT !.subagents = Append(s.subagents, c)]
  BY DEF Turns!Place
<1> HIDE DEF s, P, c
<1>5. P.items = s.items /\ P.explored = <<>> /\ P.subagents = Append(acc.subagents, c)
  BY <1>2, <1>4 DEF AccsOf
<1>6. CASE acc.subagents = <<>>
  <2> DEFINE u == k - 1
  <2>1. Listed(W, X, u, s.items) /\ ~EndsIn(s.items, "subagent-group")
    BY <1>6, ExploredFlushed DEF s
  <2>2. /\ u < k /\ u + 1 = k /\ <<c>> = SubSeq(X, k, k) /\ Append(acc.subagents, c) = <<c>>
    <3>1. <<X[k]>> = SubSeq(X, k, k)
      BY <1>1
    <3> QED
      BY <1>1, <1>6, <3>1 DEF c
  <2> HIDE DEF u
  <2>3. Unsorted(W, X, u, k, P.subagents, "subagent-group", P.items)
    BY <1>1, <1>5, <2>1, <2>2 DEF Unsorted, c
  <2>4. Listed(W, X, u, P.items)
    BY <1>5, <2>1
  <2>5. Sorted(W, X, k, P)
    BY <1>1, <1>3, <1>5, <2>3, <2>4 DEF Sorted
  <2> QED
    BY <2>5 DEF P, c
<1>7. CASE acc.subagents # <<>>
  <2>1. PICK u : /\ Listed(W, X, u, acc.items) /\ acc.explored = <<>>
                 /\ Unsorted(W, X, u, k - 1, acc.subagents, "subagent-group", acc.items)
    BY <1>7 DEF Sorted
  <2>2. s = acc
    BY <2>1 DEF s, Turns!flushExplored
  <2>3. u < k - 1 /\ acc.subagents = SubSeq(X, u + 1, k - 1) /\ X[u+1].kind = "tool" /\ ~EndsIn(acc.items, "subagent-group")
    BY <2>1 DEF Unsorted
  <2>4. u \in 0..Len(X)
    BY <2>1 DEF Listed
  <2>5. Append(SubSeq(X, u + 1, k - 1), X[k]) = SubSeq(X, u + 1, k)
    <3>1. u < k - 1 /\ u < k /\ k \in 1..Len(X)
      BY <1>1, <2>3, <2>4
    <3> QED
      BY <2>4, <3>1, PartMore
  <2>6. u < k
    BY <1>1, <2>3, <2>4
  <2>7. Unsorted(W, X, u, k, P.subagents, "subagent-group", P.items)
    BY <1>5, <2>2, <2>3, <2>5, <2>6 DEF Unsorted, c
  <2>8. Listed(W, X, u, P.items)
    BY <1>5, <2>1, <2>2
  <2>9. Sorted(W, X, k, P)
    BY <1>1, <1>3, <1>5, <2>7, <2>8 DEF Sorted
  <2> QED
    BY <2>9 DEF P, c
<1> QED
  BY <1>6, <1>7

(* An exploration is put aside after the subagents are made a group.        *)
LEMMA ExplorationPlaced ==
    ASSUME NEW W, NEW X \in Seq(W), KindsOf(W), Numbers(W), Rising(X), NEW k \in 1..Len(X), NEW acc,
           Sorted(W, X, k - 1, acc), ~Turns!isSubagentTool(X[k]), Turns!isExplorationTool(X[k])
    PROVE  Sorted(W, X, k, Turns!Place(acc, X[k], k))
<1> DEFINE c == X[k]
           s == Turns!flushSubagents(acc)
           P == Turns!Place(acc, c, k)
<1>1. c \in W /\ acc \in AccsOf(W) /\ k - 1 \in 0..Len(X) /\ k \in 0..Len(X) /\ Len(X) \in Nat /\ c.kind = "tool"
  BY DEF Sorted, Turns!isExplorationTool
<1>2. s \in AccsOf(W) /\ s.subagents = <<>> /\ s.explored = acc.explored
  BY <1>1, FlushSubagentsTyped
<1>3. P \in AccsOf(W)
  BY <1>1, PlaceTyped
<1>4. P = [s EXCEPT !.explored = Append(s.explored, c)]
  BY DEF Turns!Place
<1> HIDE DEF s, P, c
<1>5. P.items = s.items /\ P.subagents = <<>> /\ P.explored = Append(acc.explored, c)
  BY <1>2, <1>4 DEF AccsOf
<1>6. CASE acc.explored = <<>>
  <2> DEFINE u == k - 1
  <2>1. Listed(W, X, u, s.items) /\ ~EndsIn(s.items, "explored-group")
    BY <1>6, SubagentsFlushed DEF s
  <2>2. /\ u < k /\ u + 1 = k /\ <<c>> = SubSeq(X, k, k) /\ Append(acc.explored, c) = <<c>>
    <3>1. <<X[k]>> = SubSeq(X, k, k)
      BY <1>1
    <3> QED
      BY <1>1, <1>6, <3>1 DEF c
  <2> HIDE DEF u
  <2>3. Unsorted(W, X, u, k, P.explored, "explored-group", P.items)
    BY <1>1, <1>5, <2>1, <2>2 DEF Unsorted, c
  <2>4. Listed(W, X, u, P.items)
    BY <1>5, <2>1
  <2>5. Sorted(W, X, k, P)
    BY <1>1, <1>3, <1>5, <2>3, <2>4 DEF Sorted
  <2> QED
    BY <2>5 DEF P, c
<1>7. CASE acc.explored # <<>>
  <2>1. PICK u : /\ Listed(W, X, u, acc.items) /\ acc.subagents = <<>>
                 /\ Unsorted(W, X, u, k - 1, acc.explored, "explored-group", acc.items)
    BY <1>7 DEF Sorted
  <2>2. s = acc
    BY <2>1 DEF s, Turns!flushSubagents
  <2>3. u < k - 1 /\ acc.explored = SubSeq(X, u + 1, k - 1) /\ X[u+1].kind = "tool" /\ ~EndsIn(acc.items, "explored-group")
    BY <2>1 DEF Unsorted
  <2>4. u \in 0..Len(X)
    BY <2>1 DEF Listed
  <2>5. Append(SubSeq(X, u + 1, k - 1), X[k]) = SubSeq(X, u + 1, k)
    <3>1. u < k - 1 /\ u < k /\ k \in 1..Len(X)
      BY <1>1, <2>3, <2>4
    <3> QED
      BY <2>4, <3>1, PartMore
  <2>6. u < k
    BY <1>1, <2>3, <2>4
  <2>7. Unsorted(W, X, u, k, P.explored, "explored-group", P.items)
    BY <1>5, <2>2, <2>3, <2>5, <2>6 DEF Unsorted, c
  <2>8. Listed(W, X, u, P.items)
    BY <1>5, <2>1, <2>2
  <2>9. Sorted(W, X, k, P)
    BY <1>1, <1>3, <1>5, <2>7, <2>8 DEF Sorted
  <2> QED
    BY <2>9 DEF P, c
<1> QED
  BY <1>6, <1>7

(* Any other chunk has its item after both groups.                          *)
LEMMA OtherPlaced ==
    ASSUME NEW W, NEW X \in Seq(W), KindsOf(W), Numbers(W), Rising(X), NEW k \in 1..Len(X), NEW acc,
           Sorted(W, X, k - 1, acc), ~Turns!isSubagentTool(X[k]), ~Turns!isExplorationTool(X[k])
    PROVE  Sorted(W, X, k, Turns!Place(acc, X[k], k))
<1> DEFINE c == X[k]
           g == Turns!flushGroups(acc)
           key == Turns!getChunkRenderKey(c, k)
           item == Turns!Item(Turns!ItemType(c), key, <<c>>)
           P == Turns!Place(acc, c, k)
           u == k - 1
<1>1. c \in W /\ acc \in AccsOf(W) /\ u \in 0..Len(X) /\ k \in 0..Len(X) /\ Len(X) \in Nat /\ k \in Nat /\ u < k /\ u + 1 = k
  BY DEF Sorted
<1>2. /\ g \in AccsOf(W) /\ Listed(W, X, u, g.items) /\ g.explored = <<>> /\ g.subagents = <<>>
  BY GroupsFlushed
<1>3. P \in AccsOf(W)
  BY <1>1, PlaceTyped
<1>4. P = [g EXCEPT !.items = Append(g.items, item)]
  BY DEF Turns!Place
<1>5. item \in ItemsOf(W) /\ ~Grouped(Turns!ItemType(c))
  BY <1>1, ChunkItemTyped
<1>6. item.chunks = <<c>> /\ item.key = key /\ item.type = Turns!ItemType(c)
  BY DEF Turns!Item
<1>7. ~Taken(X, u, key) /\ Taken(X, k, key)
  <2>1. ~Taken(X, k - 1, Turns!getChunkRenderKey(X[k], k)) /\ Taken(X, k, Turns!getChunkRenderKey(X[k], k))
    <3> DEFINE tag == "tool"
    <3> HIDE DEF tag
    <3> QED
      BY KeysAreNew
  <2> QED
    BY <2>1
<1> HIDE DEF g, P, item, key, u
<1>8. <<c>> = SubSeq(X, u + 1, k)
  BY <1>1
<1> HIDE DEF c
<1>9. ~Grouped(item.type)
  BY <1>5, <1>6
<1>10. Listed(W, X, k, Append(g.items, item)) /\ EndsIn(Append(g.items, item), item.type)
  BY <1>1, <1>2, <1>5, <1>6, <1>7, <1>8, <1>9, ListedMore
<1>11. P.items = Append(g.items, item) /\ P.explored = <<>> /\ P.subagents = <<>>
  BY <1>2, <1>4 DEF AccsOf
<1>12. ~EndsIn(P.items, "explored-group") /\ ~EndsIn(P.items, "subagent-group")
  BY <1>9, <1>10, <1>11 DEF EndsIn, Grouped
<1>13. Sorted(W, X, k, P)
  BY <1>1, <1>3, <1>10, <1>11, <1>12 DEF Sorted
<1> QED
  BY <1>13 DEF P, c

(* Before the first chunk nothing is listed or put aside.                   *)
LEMMA NothingPlaced ==
    ASSUME NEW W, NEW X \in Seq(W)
    PROVE  Sorted(W, X, 0, [items |-> <<>>, explored |-> <<>>, subagents |-> <<>>])
<1> DEFINE acc == [items |-> <<>>, explored |-> <<>>, subagents |-> <<>>]
<1>1. acc \in AccsOf(W) /\ 0 \in 0..Len(X)
  BY DEF AccsOf
<1>2. SubSeq(X, 1, 0) = <<>>
  OBVIOUS
<1>3. Turns!ChunksIn(<<>>) = <<>>
  <2>1. ChunkLists(<<>>) = <<>>
    BY DEF ChunkLists
  <2>2. <<>> \in Seq({})
    OBVIOUS
  <2> QED
    BY <2>1, <2>2, FlatOne DEF Turns!ChunksIn, ChunkLists
<1>4. Listed(W, X, 0, <<>>)
  <2> DEFINE R == ItemsOf(W)
  <2>1. <<>> \in Seq(R) /\ Len(<<>>) = 0
    OBVIOUS
  <2>2. 1..0 = {} /\ 2..0 = {}
    OBVIOUS
  <2> HIDE DEF R
  <2>3. <<>> \in Seq(ItemsOf(W))
    BY <2>1 DEF R
  <2> QED
    BY <1>1, <1>2, <1>3, <2>1, <2>2, <2>3 DEF Listed
<1>5. acc.items = <<>> /\ acc.explored = <<>> /\ acc.subagents = <<>>
  OBVIOUS
<1>6. ~EndsIn(<<>>, "explored-group") /\ ~EndsIn(<<>>, "subagent-group")
  BY DEF EndsIn
<1> HIDE DEF acc
<1> QED
  <2>1. Sorted(W, X, 0, acc)
    BY <1>1, <1>4, <1>5, <1>6 DEF Sorted
  <2> QED
    BY <2>1 DEF acc

(* buildRenderItems lists all chunks of a turn: in order, under distinct    *)
(* keys, and with neighbours of one kind in one group.                      *)
LEMMA ItemsListed ==
    ASSUME NEW W, NEW X \in Seq(W), KindsOf(W), Numbers(W), Rising(X)
    PROVE  Listed(W, X, Len(X), Turns!buildRenderItems(X))
<1> DEFINE n == Len(X)
           V == AccsOf(W)
           base == [items |-> <<>>, explored |-> <<>>, subagents |-> <<>>]
           Step(k) == [acc \in V |-> Turns!Place(acc, X[k], k)]
           step == [k \in 1..n |-> Step(k)]
<1>1. n \in Nat /\ base \in V
  BY DEF AccsOf
<1>2. ASSUME NEW k \in 1..n, NEW acc \in V PROVE Turns!Place(acc, X[k], k) \in V
  <2>1. X[k] \in W /\ k \in Nat
    OBVIOUS
  <2> QED
    BY <2>1, PlaceTyped
<1>3. step \in Steps(n, V)
  <2>1. \A k \in 1..n : Step(k) \in [V -> V]
    <3> HIDE DEF V
    <3> QED
      BY <1>2
  <2> HIDE DEF V, Step
  <2> QED
    BY <2>1 DEF Steps
<1>4. \A k \in 1..n : \A acc \in V : step[k][acc] = Turns!Place(acc, X[k], k)
  <2> HIDE DEF V
  <2> QED
    OBVIOUS
<1> HIDE DEF V, step, base, n
<1>5. PICK f \in [0..n -> V] : Follows(f, n, base, step)
  BY <1>1, <1>3, RecursionExists
<1>6. f[0] = base /\ \A k \in 1..n : f[k] = Turns!Place(f[k-1], X[k], k)
  <2>1. f[0] = base /\ \A k \in 1..n : f[k] = step[k][f[k-1]]
    BY <1>5 DEF Follows
  <2>2. \A k \in 1..n : f[k-1] \in V
    BY <1>1
  <2> QED
    BY <1>4, <2>1, <2>2
<1> DEFINE e(g) == [k \in 0..n |-> IF k = 0 THEN base ELSE Turns!Place(g[k - 1], X[k], k)]
           h == CHOOSE g : g = e(g)
<1>7. f = e(f)
  <2>1. \A k \in 0..n : k # 0 => k \in 1..n
    BY <1>1
  <2>2. \A k \in 0..n : f[k] = IF k = 0 THEN base ELSE Turns!Place(f[k - 1], X[k], k)
    BY <1>6, <2>1
  <2>3. f = [k \in 0..n |-> f[k]]
    OBVIOUS
  <2> QED
    BY <2>2, <2>3
<1>8. h = e(h)
  <2> HIDE DEF e
  <2> QED
    BY <1>7
<1>9. Turns!buildRenderItems(X) = Turns!flushGroups(h[n]).items
  BY DEF Turns!buildRenderItems, base, n
<1>10. \A k \in 0..n : h[k] = IF k = 0 THEN base ELSE Turns!Place(h[k - 1], X[k], k)
  <2> HIDE DEF h
  <2> QED
    BY <1>8
<1> HIDE DEF e, h
<1>11. \A k \in 0..n : Sorted(W, X, k, h[k])
  <2> DEFINE Bad == {k \in 0..n : ~Sorted(W, X, k, h[k])}
  <2> SUFFICES ASSUME Bad # {} PROVE FALSE
    OBVIOUS
  <2>1. PICK k \in Bad : \A j \in Bad : k <= j
    <3>1. Bad \in SUBSET Nat
      BY <1>1
    <3> HIDE DEF Bad
    <3> QED
      BY <3>1, LeastNumber
  <2>2. 0 \in 0..n /\ Sorted(W, X, 0, base)
    BY <1>1, NothingPlaced DEF base
  <2>3. k # 0
    BY <1>10, <2>1, <2>2
  <2>4. k \in 1..n /\ k - 1 \in 0..n /\ ~(k <= k - 1)
    BY <1>1, <2>3
  <2>5. Sorted(W, X, k - 1, h[k-1])
    BY <2>1, <2>4
  <2>6. Sorted(W, X, k, Turns!Place(h[k-1], X[k], k))
    BY <2>4, <2>5, SubagentPlaced, ExplorationPlaced, OtherPlaced DEF n
  <2> QED
    BY <1>10, <2>1, <2>3, <2>6
<1>12. Sorted(W, X, n, h[n])
  BY <1>1, <1>11
<1> QED
  BY <1>9, <1>12, GroupsFlushed DEF n

(* The chunks of all messages.                                              *)
ToolsShown(i) == {Turns!ToolChunk(messages[i].calls[k]) : k \in 1..Len(messages[i].calls)}
Shown == {Turns!Chunk("reasoning", i) : i \in 1..Len(messages)} \cup {Turns!Chunk("text", i) : i \in 1..Len(messages)}
         \cup UNION {ToolsShown(i) : i \in 1..Len(messages)}

(* What one message is.                                                     *)
LEMMA MessageShaped ==
    ASSUME Turns!Shaped, NEW i \in 1..Len(messages)
    PROVE  /\ messages[i].author \in {"user", "agent"} /\ messages[i].text \in BOOLEAN
           /\ messages[i].reasoning \in BOOLEAN
           /\ messages[i].calls \in Seq([id : Turns!Calls, name : Tools])
<1> DEFINE C == Seq([id : Turns!Calls, name : Tools])
           M == [author : {"user", "agent"}, text : BOOLEAN, reasoning : BOOLEAN, calls : C]
<1>1. messages \in Seq(M)
  BY DEF Turns!Shaped
<1> HIDE DEF C
<1>2. messages[i] \in M
  <2> HIDE DEF M
  <2> QED
    BY <1>1
<1>3. \A m \in M : m.author \in {"user", "agent"} /\ m.text \in BOOLEAN /\ m.reasoning \in BOOLEAN /\ m.calls \in C
  OBVIOUS
<1>4. messages[i].calls \in C
  BY <1>2, <1>3
<1> QED
  BY <1>2, <1>3, <1>4 DEF C

(* How many calls have been made is a number.                               *)
LEMMA CallsCounted ==
    ASSUME Turns!Shaped
    PROVE  Turns!Made \in Nat
<1> DEFINE R == [id : Turns!Calls, name : Tools]
           s == [i \in DOMAIN messages |-> messages[i].calls]
           n == Len(messages)
<1>1. DOMAIN messages = 1..n /\ n \in Nat
  BY DEF Turns!Shaped
<1>2. \A i \in 1..n : messages[i].calls \in Seq(R)
  BY MessageShaped
<1> HIDE DEF R, n
<1>3. s \in Seq(Seq(R))
  BY <1>1, <1>2
<1>4. Turns!FlattenSeq(s) \in Seq(R)
  BY <1>3, FlatConcat
<1> QED
  BY <1>4 DEF Turns!Made, Turns!CallsOf

(* The own of a message that are not internal, in their order.            *)
ToolList(i) == [k \in 1..Len(messages[i].calls) |-> Turns!ToolChunk(messages[i].calls[k])]
PublicAt(i) == {k \in 1..Len(messages[i].calls) : messages[i].calls[k].name \notin Turns!INTERNAL_TOOLS}
Head1(i) == Turns!If(messages[i].reasoning, Turns!Chunk("reasoning", i))
Head2(i) == Turns!If(messages[i].text, Turns!Chunk("text", i))

(* The chunks of a message: its reasoning, its text and the tools that are  *)
(* not internal.                                                            *)
LEMMA ChunksAre ==
    ASSUME Turns!Shaped, NEW i \in 1..Len(messages)
    PROVE  /\ ToolList(i) \in Seq(ToolsShown(i)) /\ Len(ToolList(i)) = Len(messages[i].calls)
           /\ Chosen(ToolList(i), PublicAt(i)) \in Seq(ToolsShown(i))
           /\ Turns!ChunksOf(i) = (Head1(i) \o Head2(i)) \o Chosen(ToolList(i), PublicAt(i))
<1> DEFINE R == [id : Turns!Calls, name : Tools]
           own == messages[i].calls
           n == Len(own)
           L == ToolList(i)
           T == ToolsShown(i)
<1>1. own \in Seq(R) /\ n \in Nat /\ DOMAIN own = 1..n
  <2>1. own \in Seq(R)
    BY MessageShaped
  <2> HIDE DEF R, own
  <2> QED
    BY <2>1
<1>2. L = [k \in 1..n |-> Turns!ToolChunk(own[k])] /\ T = {Turns!ToolChunk(own[k]) : k \in 1..n}
  BY DEF ToolList, ToolsShown
<1> HIDE DEF L, T
<1>3. L \in Seq(T) /\ Len(L) = n
  <2> HIDE DEF n
  <2> QED
    BY <1>1, <1>2
<1>4. Chosen(L, PublicAt(i)) \in Seq(T)
  BY <1>3, ChosenPlaces
<1>5. [k \in DOMAIN own |-> Turns!If(own[k].name \notin Turns!INTERNAL_TOOLS, Turns!ToolChunk(own[k]))] = Single(L, PublicAt(i))
  <2>1. DOMAIN L = 1..n
    BY <1>2
  <2>2. \A k \in 1..n : L[k] = Turns!ToolChunk(own[k]) /\ (k \in PublicAt(i) <=> own[k].name \notin Turns!INTERNAL_TOOLS)
    BY <1>2 DEF PublicAt
  <2> HIDE DEF n, own
  <2> QED
    BY <1>1, <2>1, <2>2 DEF Single, Turns!If
<1>6. Turns!FlattenSeq([k \in DOMAIN own |-> Turns!If(own[k].name \notin Turns!INTERNAL_TOOLS, Turns!ToolChunk(own[k]))]) = Chosen(L, PublicAt(i))
  BY <1>5 DEF Chosen
<1>7. Turns!ChunksOf(i) = (Head1(i) \o Head2(i)) \o Chosen(L, PublicAt(i))
  BY <1>6 DEF Turns!ChunksOf, Head1, Head2
<1> QED
  BY <1>3, <1>4, <1>7 DEF L, T

(* A tool of message i has the number of one of its calls.                  *)
LEMMA ToolChunks ==
    ASSUME Turns!Shaped, Turns!Numbered, NEW i \in 1..Len(messages), NEW w \in ToolsShown(i)
    PROVE  /\ w.kind = "tool" /\ w.of \in Nat /\ w \in Shown
           /\ \E k \in DOMAIN messages[i].calls : w.of = messages[i].calls[k].id
<1>1. PICK k \in 1..Len(messages[i].calls) : w = Turns!ToolChunk(messages[i].calls[k])
  BY DEF ToolsShown
<1>2. w.kind = "tool" /\ w.of = messages[i].calls[k].id
  BY <1>1 DEF Turns!ToolChunk
<1>3. k \in DOMAIN messages[i].calls /\ i \in DOMAIN messages
  BY MessageShaped DEF Turns!Shaped
<1>4. messages[i].calls[k].id \in 1..Turns!Made
  BY <1>3 DEF Turns!Numbered
<1>5. w.of \in Nat
  BY <1>2, <1>4, CallsCounted
<1> QED
  BY <1>2, <1>3, <1>5 DEF Shown

(* The chunks of all messages are of three kinds, and numbered.             *)
LEMMA ShownAre ==
    ASSUME Turns!Shaped, Turns!Numbered
    PROVE  KindsOf(Shown) /\ Numbers(Shown)
<1>1. ASSUME NEW w \in Shown PROVE w.kind \in {"reasoning", "text", "tool"} /\ w.of \in Nat
  <2>1. Len(messages) \in Nat
    BY DEF Turns!Shaped
  <2>2. CASE \E i \in 1..Len(messages) : w = Turns!Chunk("reasoning", i) \/ w = Turns!Chunk("text", i)
    BY <2>1, <2>2 DEF Turns!Chunk
  <2>3. CASE \E i \in 1..Len(messages) : w \in ToolsShown(i)
    BY <2>3, ToolChunks
  <2> QED
    BY <2>2, <2>3 DEF Shown
<1> QED
  BY <1>1 DEF KindsOf, Numbers

(* What ChunksOf yields: at most one text, and tools in their order.        *)
FromMessage(X, i) ==
    \A p \in 1..Len(X) : X[p].kind = "tool" => \E k \in DOMAIN messages[i].calls : X[p].of = messages[i].calls[k].id
(* ChunksOf yields at most one text, and tools in the order of their calls. *)
LEMMA ChunksOfMessage ==
    ASSUME Turns!Shaped, Turns!Numbered, NEW i \in 1..Len(messages)
    PROVE  /\ Turns!ChunksOf(i) \in Seq(Shown) /\ Rising(Turns!ChunksOf(i)) /\ FromMessage(Turns!ChunksOf(i), i)
           /\ ~messages[i].text => TextAt(Turns!ChunksOf(i)) = {}
           /\ messages[i].text => \E t \in TextAt(Turns!ChunksOf(i)) : TextAt(Turns!ChunksOf(i)) = {t}
<1> DEFINE own == messages[i].calls
           L == ToolList(i)
           T == ToolsShown(i)
           K == PublicAt(i)
           Y == Chosen(L, K)
           H == Head1(i) \o Head2(i)
           X == Turns!ChunksOf(i)
           r == messages[i].reasoning
           t == messages[i].text
           S == Shown
           a == Turns!Chunk("reasoning", i)
           b == Turns!Chunk("text", i)
<1>1. L \in Seq(T) /\ Y \in Seq(T) /\ X = H \o Y /\ Len(L) = Len(own) /\ r \in BOOLEAN /\ t \in BOOLEAN
  BY ChunksAre, MessageShaped
<1>2. \A w \in T : w.kind = "tool" /\ w \in S
  BY ToolChunks
<1>3. a \in S /\ b \in S /\ a.kind = "reasoning" /\ b.kind = "text"
  <2>1. a \in S /\ b \in S
    BY DEF Shown
  <2> QED
    BY <2>1 DEF Turns!Chunk
<1>4. H = (IF r THEN <<a>> ELSE <<>>) \o (IF t THEN <<b>> ELSE <<>>)
  BY DEF Head1, Head2, Turns!If
<1>5. i \in DOMAIN messages /\ DOMAIN own = 1..Len(own) /\ Len(own) \in Nat
  BY MessageShaped DEF Turns!Shaped
<1>6. \A k \in 1..Len(own) : L[k].of = own[k].id /\ L[k].kind = "tool"
  BY DEF ToolList, Turns!ToolChunk
<1>7. \A k, l \in 1..Len(own) : k < l => own[k].id < own[l].id
  BY <1>5 DEF Turns!Numbered
<1>8. \A w \in T : \E k \in DOMAIN own : w.of = own[k].id
  BY ToolChunks
<1> HIDE DEF L, T, K, Y, H, X, r, t, S, a, b, own
<1>9. \A p \in 1..Len(Y) : Y[p] \in T
  BY <1>1
<1>10. \A p, q \in 1..Len(Y) : p < q => Y[p].of < Y[q].of
  <2>1. PICK at : \A p \in 1..Len(Y) :
                /\ at[p] \in 1..Len(L) /\ at[p] \in K /\ Y[p] = L[at[p]]
                /\ \A q \in 1..Len(Y) : p < q => at[p] < at[q]
    BY <1>1, ChosenPlaces DEF Y
  <2> TAKE p, q \in 1..Len(Y)
  <2> HAVE p < q
  <2>2. /\ at[p] \in 1..Len(own) /\ at[q] \in 1..Len(own) /\ at[p] < at[q]
        /\ Y[p] = L[at[p]] /\ Y[q] = L[at[q]]
    BY <1>1, <2>1
  <2>3. own[at[p]].id < own[at[q]].id
    BY <1>7, <2>2
  <2> QED
    BY <1>6, <2>2, <2>3
<1>11. /\ Len(Y) \in Nat /\ Len(H) \in 0..2
       /\ H \in Seq(S) /\ Y \in Seq(S) /\ X \in Seq(S) /\ Len(X) = Len(H) + Len(Y)
       /\ \A p \in 1..Len(H) : X[p] = H[p]
       /\ \A p \in 1..Len(Y) : X[Len(H) + p] = Y[p]
  <2>1. Y \in Seq(S)
    BY <1>1, <1>2
  <2>2. H \in Seq(S) /\ Len(H) \in 0..2
    <3>1. CASE r /\ t
      BY <1>3, <1>4, <3>1
    <3>2. CASE r /\ ~t
      BY <1>3, <1>4, <3>2
    <3>3. CASE ~r /\ t
      BY <1>3, <1>4, <3>3
    <3>4. CASE ~r /\ ~t
      BY <1>3, <1>4, <3>4
    <3> QED
      BY <1>1, <3>1, <3>2, <3>3, <3>4
  <2> QED
    BY <1>1, <2>1, <2>2
<1>12. /\ \A p \in 1..Len(H) : H[p].kind # "tool"
       /\ ~t => \A p \in 1..Len(H) : H[p].kind # "text"
       /\ t => \E u \in 1..Len(H) : \A p \in 1..Len(H) : H[p].kind = "text" <=> p = u
  <2>1. CASE r /\ t
    <3>1. H = <<a>> \o <<b>>
      BY <1>4, <2>1
    <3>2. Len(H) = 2 /\ H[1] = a /\ H[2] = b /\ 2 \in 1..Len(H) /\ \A p \in 1..Len(H) : p = 1 \/ p = 2
      <4>1. <<a>> \in Seq(S) /\ <<b>> \in Seq(S) /\ Len(<<a>>) = 1 /\ Len(<<b>>) = 1 /\ <<a>>[1] = a /\ <<b>>[1] = b
        BY <1>3
      <4>2. Len(H) = 2 /\ H[1] = <<a>>[1] /\ H[2] = <<b>>[1]
        BY <3>1, <4>1
      <4> QED
        BY <4>1, <4>2
    <3>3. \A p \in 1..Len(H) : H[p].kind = "text" <=> p = 2
      BY <1>3, <3>2
    <3>4. \A p \in 1..Len(H) : H[p].kind # "tool"
      BY <1>3, <3>2
    <3> QED
      BY <2>1, <3>2, <3>3, <3>4
  <2>2. CASE r /\ ~t
    <3>1. H = <<a>>
      BY <1>4, <2>2
    <3>2. Len(H) = 1 /\ H[1] = a /\ \A p \in 1..Len(H) : p = 1
      BY <3>1
    <3> QED
      BY <1>3, <2>2, <3>2
  <2>3. CASE ~r /\ t
    <3>1. H = <<b>>
      BY <1>4, <2>3
    <3>2. Len(H) = 1 /\ H[1] = b /\ 1 \in 1..Len(H) /\ \A p \in 1..Len(H) : p = 1
      BY <3>1
    <3>3. \A p \in 1..Len(H) : H[p].kind = "text" <=> p = 1
      BY <1>3, <3>2
    <3> QED
      BY <1>3, <2>3, <3>2, <3>3
  <2>4. CASE ~r /\ ~t
    <3>1. H = <<>>
      BY <1>4, <2>4
    <3>2. Len(H) = 0 /\ 1..0 = {}
      BY <3>1
    <3> QED
      BY <2>4, <3>2
  <2> QED
    BY <1>1, <2>1, <2>2, <2>3, <2>4
<1>13. ASSUME NEW p \in 1..Len(X), p \notin 1..Len(H)
       PROVE  /\ p - Len(H) \in 1..Len(Y) /\ X[p] = Y[p - Len(H)] /\ X[p] \in T /\ X[p].kind = "tool"
  <2>1. p - Len(H) \in 1..Len(Y) /\ Len(H) + (p - Len(H)) = p
    BY <1>11, <1>13
  <2> QED
    BY <1>2, <1>9, <1>11, <2>1
<1>14. \A p \in 1..Len(H) : p \in 1..Len(X)
  BY <1>11
<1>15. Rising(X)
  <2>1. ASSUME NEW p \in 1..Len(X), NEW q \in 1..Len(X), p < q, X[p].kind = "tool", X[q].kind = "tool"
        PROVE  X[p].of < X[q].of
    <3>1. p \notin 1..Len(H) /\ q \notin 1..Len(H)
      BY <1>11, <1>12, <2>1
    <3>2. p - Len(H) \in 1..Len(Y) /\ q - Len(H) \in 1..Len(Y) /\ X[p] = Y[p - Len(H)] /\ X[q] = Y[q - Len(H)]
      BY <1>13, <3>1
    <3>3. p - Len(H) < q - Len(H)
      BY <1>11, <2>1
    <3> QED
      BY <1>10, <3>2, <3>3
  <2> QED
    BY <2>1 DEF Rising
<1>16. FromMessage(X, i)
  <2>1. ASSUME NEW p \in 1..Len(X), X[p].kind = "tool" PROVE X[p] \in T
    <3>1. p \notin 1..Len(H)
      BY <1>11, <1>12, <2>1
    <3> QED
      BY <1>13, <3>1
  <2> QED
    BY <1>8, <2>1 DEF FromMessage, own
<1>17. \A p \in 1..Len(X) : p \in TextAt(X) <=> p \in 1..Len(H) /\ H[p].kind = "text"
  <2> TAKE p \in 1..Len(X)
  <2>1. CASE p \in 1..Len(H)
    BY <1>11, <2>1 DEF TextAt
  <2>2. CASE p \notin 1..Len(H)
    <3>1. X[p].kind # "text"
      BY <1>13, <2>2
    <3> QED
      BY <2>2, <3>1 DEF TextAt
  <2> QED
    BY <2>1, <2>2
<1>18. TextAt(X) \subseteq 1..Len(X)
  BY DEF TextAt
<1>19. ~t => TextAt(X) = {}
  BY <1>12, <1>17, <1>18
<1>20. ASSUME t PROVE \E u \in TextAt(X) : TextAt(X) = {u}
  <2>1. PICK u \in 1..Len(H) : \A p \in 1..Len(H) : H[p].kind = "text" <=> p = u
    BY <1>12, <1>20
  <2>2. u \in TextAt(X)
    BY <1>14, <1>17, <2>1
  <2>3. \A p \in TextAt(X) : p = u
    BY <1>17, <1>18, <2>1
  <2> QED
    BY <2>2, <2>3
<1> QED
  BY <1>11, <1>15, <1>16, <1>19, <1>20 DEF X, S, t

(* What is expected of message i when n messages have been read, and when   *)
(* the agent writes a text next.                                            *)
ByUser(i) == messages[i].author = "user"
FinalIn(n, i) == \A j \in i+1..n : messages[j].author = "agent" /\ messages[j].text => \E k \in i+1..j-1 : ByUser(k)
UserIn(n, i) == \E k \in i+1..n : ByUser(k)
Kept(n, i) == IF ByUser(i) \/ FinalIn(n, i) THEN Turns!ChunksOf(i) ELSE Turns!WithoutText(Turns!ChunksOf(i))
Spoken(n, i) == IF ByUser(i) \/ (FinalIn(n, i) /\ UserIn(n, i)) THEN Turns!ChunksOf(i) ELSE Turns!WithoutText(Turns!ChunksOf(i))
KeptAll(n) == [i \in 1..n |-> Kept(n, i)]
SpokenAll(n) == [i \in 1..n |-> Spoken(n, i)]

(* What is expected of the first n messages are lists of chunks.            *)
LEMMA KeptTyped ==
    ASSUME Turns!Shaped, Turns!Numbered, NEW n \in 0..Len(messages)
    PROVE  /\ KeptAll(n) \in Lists(n, Shown) /\ SpokenAll(n) \in Lists(n, Shown)
           /\ KeptAll(n) \in Seq(Seq(Shown)) /\ SpokenAll(n) \in Seq(Seq(Shown))
           /\ Len(KeptAll(n)) = n /\ Len(SpokenAll(n)) = n
           /\ Turns!FlattenSeq(KeptAll(n)) \in Seq(Shown) /\ Turns!FlattenSeq(SpokenAll(n)) \in Seq(Shown)
<1> DEFINE S == Shown
           V == Seq(S)
<1>1. n \in Nat /\ \A i \in 1..n : i \in 1..Len(messages)
  BY DEF Turns!Shaped
<1>2. \A i \in 1..n : Turns!ChunksOf(i) \in V /\ Turns!WithoutText(Turns!ChunksOf(i)) \in V
  BY <1>1, ChunksOfMessage, TextFilters
<1>3. \A i \in 1..n : Kept(n, i) \in V /\ Spoken(n, i) \in V
  BY <1>2 DEF Kept, Spoken
<1> HIDE DEF V
<1>4. KeptAll(n) \in [1..n -> V] /\ SpokenAll(n) \in [1..n -> V]
  BY <1>3 DEF KeptAll, SpokenAll
<1>5. KeptAll(n) \in Seq(V) /\ SpokenAll(n) \in Seq(V) /\ Len(KeptAll(n)) = n /\ Len(SpokenAll(n)) = n
  BY <1>1, <1>4
<1>6. KeptAll(n) \in Lists(n, S) /\ SpokenAll(n) \in Lists(n, S)
  BY <1>4 DEF Lists, V
<1>7. Turns!FlattenSeq(KeptAll(n)) \in Seq(S) /\ Turns!FlattenSeq(SpokenAll(n)) \in Seq(S)
  BY <1>5, FlatConcat DEF V
<1> QED
  BY <1>5, <1>6, <1>7 DEF V

(* Which texts are final when one more message is read.                     *)
LEMMA FinalMore ==
    ASSUME NEW n \in Nat, NEW i \in 1..n
    PROVE  /\ ByUser(n+1) => UserIn(n + 1, i)
           /\ ~ByUser(n+1) => (UserIn(n + 1, i) <=> UserIn(n, i))
           /\ messages[n+1].author # "agent" \/ ~messages[n+1].text => (FinalIn(n + 1, i) <=> FinalIn(n, i))
           /\ messages[n+1].author = "agent" /\ messages[n+1].text => (FinalIn(n + 1, i) <=> FinalIn(n, i) /\ UserIn(n, i))
<1>1. /\ \A k \in i+1..n : k \in i+1..n+1
      /\ \A k \in i+1..n+1 : k = n + 1 \/ k \in i+1..n
      /\ n + 1 \in i+1..n+1 /\ (n + 1) - 1 = n
  OBVIOUS
<1>2. ByUser(n+1) => UserIn(n + 1, i)
  BY <1>1 DEF UserIn
<1>3. ~ByUser(n+1) => (UserIn(n + 1, i) <=> UserIn(n, i))
  BY <1>1 DEF UserIn
<1> DEFINE Kind(j) == messages[j].author = "agent" /\ messages[j].text
           Ok(j) == Kind(j) => \E k \in i+1..j-1 : ByUser(k)
<1>4. /\ FinalIn(n + 1, i) <=> \A j \in i+1..n+1 : Ok(j)
      /\ FinalIn(n, i) <=> \A j \in i+1..n : Ok(j)
  BY DEF FinalIn
<1>5. Ok(n+1) <=> (Kind(n+1) => UserIn(n, i))
  BY <1>1 DEF UserIn
<1> HIDE DEF Ok
<1>6. FinalIn(n + 1, i) <=> FinalIn(n, i) /\ (Kind(n+1) => UserIn(n, i))
  BY <1>1, <1>4, <1>5
<1> QED
  BY <1>2, <1>3, <1>6

(* What is expected of an earlier message when one more is read: a user's   *)
(* message makes the last text final, a text of the agent replaces it.      *)
LEMMA KeptMore ==
    ASSUME Turns!Shaped, NEW n \in Nat, n + 1 \in 1..Len(messages), NEW i \in 1..n
    PROVE  /\ ByUser(n+1) => Kept(n + 1, i) = Kept(n, i) /\ Spoken(n + 1, i) = Kept(n, i)
           /\ ~ByUser(n+1) => Spoken(n + 1, i) = Spoken(n, i)
           /\ ~ByUser(n+1) /\ messages[n+1].text => Kept(n + 1, i) = Spoken(n, i)
           /\ ~ByUser(n+1) /\ ~messages[n+1].text => Kept(n + 1, i) = Kept(n, i)
<1>1. ByUser(n+1) <=> messages[n+1].author # "agent"
  BY MessageShaped DEF ByUser
<1>2. /\ ByUser(n+1) => UserIn(n + 1, i)
      /\ ~ByUser(n+1) => (UserIn(n + 1, i) <=> UserIn(n, i))
      /\ messages[n+1].author # "agent" \/ ~messages[n+1].text => (FinalIn(n + 1, i) <=> FinalIn(n, i))
      /\ messages[n+1].author = "agent" /\ messages[n+1].text => (FinalIn(n + 1, i) <=> FinalIn(n, i) /\ UserIn(n, i))
  BY FinalMore
<1>3. CASE ByUser(n+1)
  BY <1>1, <1>2, <1>3 DEF Kept, Spoken
<1>4. CASE ~ByUser(n+1) /\ messages[n+1].text
  BY <1>1, <1>2, <1>4 DEF Kept, Spoken
<1>5. CASE ~ByUser(n+1) /\ ~messages[n+1].text
  BY <1>1, <1>2, <1>5 DEF Kept, Spoken
<1> QED
  BY <1>3, <1>4, <1>5

(* The message read last is expected as it is, or without its text when     *)
(* another text follows.                                                    *)
LEMMA KeptLast ==
    ASSUME NEW n \in Nat
    PROVE  /\ Kept(n, n) = Turns!ChunksOf(n)
           /\ Spoken(n, n) = IF ByUser(n) THEN Turns!ChunksOf(n) ELSE Turns!WithoutText(Turns!ChunksOf(n))
<1>1. n+1..n = {}
  OBVIOUS
<1> QED
  BY <1>1 DEF Kept, Spoken, FinalIn, UserIn

(* A list of lists with one more at its end.                                *)
LEMMA JoinedMore ==
    ASSUME NEW S, NEW n \in Nat, NEW s \in Seq(Seq(S)), Len(s) = n, NEW t \in Seq(Seq(S)), Len(t) = n + 1,
           \A i \in 1..n : t[i] = s[i]
    PROVE  Turns!FlattenSeq(t) = Turns!FlattenSeq(s) \o t[n+1]
<1> DEFINE V == Seq(S)
           x == t[n+1]
           one == <<x>>
<1>1. s \in Seq(V) /\ t \in Seq(V) /\ x \in V
  <2>1. n + 1 \in 1..Len(t)
    OBVIOUS
  <2> QED
    BY <2>1
<1> HIDE DEF V, x
<1>2. one \in Seq(V) /\ Len(one) = 1 /\ one[1] = x
  BY <1>1
<1>3. t = s \o one
  <2>1. \A k \in 1..1 : k = 1
    OBVIOUS
  <2>2. Len(t) = Len(s) + Len(one)
    BY <1>2
  <2>3. \A k \in 1..Len(one) : t[Len(s) + k] = one[k]
    BY <1>2, <2>1 DEF x
  <2> HIDE DEF one
  <2> QED
    BY <1>1, <1>2, <2>2, <2>3, IsConcat
<1>4. \A a, b \in Seq(V) : Turns!FlattenSeq(a \o b) = Turns!FlattenSeq(a) \o Turns!FlattenSeq(b)
  BY FlatConcat DEF V
<1>5. Turns!FlattenSeq(one) = x
  BY <1>1, FlatOne DEF V
<1> HIDE DEF one
<1> QED
  BY <1>1, <1>2, <1>3, <1>4, <1>5 DEF x

(* mergeTextChunks keeps the order of the tools.                            *)
LEMMA MergedRising ==
    ASSUME NEW W, NEW X \in Seq(W), Numbers(W), Rising(X)
    PROVE  Rising(Turns!mergeTextChunks(X))
<1> DEFINE Y == Turns!mergeTextChunks(X)
           K == MergedAt(X)
<1>1. Y = Chosen(X, K)
  BY TextFilters
<1> HIDE DEF K
<1>2. PICK at : \A p \in 1..Len(Y) :
                /\ at[p] \in 1..Len(X) /\ at[p] \in K /\ Y[p] = X[at[p]]
                /\ \A q \in 1..Len(Y) : p < q => at[p] < at[q]
  <2>1. \E at : \A p \in 1..Len(Chosen(X, K)) :
                /\ at[p] \in 1..Len(X) /\ at[p] \in K /\ Chosen(X, K)[p] = X[at[p]]
                /\ \A q \in 1..Len(Chosen(X, K)) : p < q => at[p] < at[q]
    BY ChosenPlaces, Zenon
  <2> HIDE DEF Y
  <2> QED
    BY <1>1, <2>1
<1> HIDE DEF Y
<1>3. ASSUME NEW p \in 1..Len(Y), NEW q \in 1..Len(Y), p < q, Y[p].kind = "tool", Y[q].kind = "tool"
      PROVE  Y[p].of < Y[q].of
  <2>1. /\ at[p] \in 1..Len(X) /\ at[q] \in 1..Len(X) /\ at[p] < at[q]
        /\ Y[p] = X[at[p]] /\ Y[q] = X[at[q]]
    BY <1>2, <1>3
  <2> QED
    BY <1>3, <2>1 DEF Rising
<1> QED
  BY <1>3 DEF Rising, Y

(* X has the tools of the first n messages.                                 *)
FromFirst(X, n) ==
    \A p \in 1..Len(X) : X[p].kind = "tool" =>
        \E i \in 1..n : \E k \in DOMAIN messages[i].calls : X[p].of = messages[i].calls[k].id

(* Tools of a later message have higher numbers.                            *)
LEMMA RisingMore ==
    ASSUME Turns!Shaped, Turns!Numbered, NEW n \in Nat, n + 1 \in 1..Len(messages), NEW X \in Seq(Shown), NEW Y \in Seq(Shown),
           Rising(X), Rising(Y), FromFirst(X, n), FromMessage(Y, n + 1)
    PROVE  Rising(X \o Y) /\ FromFirst(X \o Y, n + 1)
<1> DEFINE Z == X \o Y
           a == Len(X)
           b == Len(Y)
<1>1. /\ a \in Nat /\ b \in Nat /\ Len(Z) = a + b
      /\ \A p \in 1..(a+b) : p <= a => p \in 1..a /\ Z[p] = X[p]
      /\ \A p \in 1..(a+b) : p > a => p - a \in 1..b /\ Z[p] = Y[p - a]
  OBVIOUS
<1>2. Len(messages) \in Nat /\ DOMAIN messages = 1..Len(messages)
  BY DEF Turns!Shaped
<1> HIDE DEF Z, a, b
<1>3. ASSUME NEW p \in 1..a, NEW q \in 1..b, X[p].kind = "tool", Y[q].kind = "tool"
      PROVE  X[p].of < Y[q].of
  <2>1. PICK i \in 1..n : \E k \in DOMAIN messages[i].calls : X[p].of = messages[i].calls[k].id
    BY <1>3 DEF FromFirst, a
  <2>2. PICK k \in DOMAIN messages[i].calls : X[p].of = messages[i].calls[k].id
    BY <2>1
  <2> DEFINE j == n + 1
  <2>3. PICK l \in DOMAIN messages[j].calls : Y[q].of = messages[j].calls[l].id
    BY <1>3 DEF FromMessage, b
  <2>4. i \in DOMAIN messages /\ j \in DOMAIN messages /\ i < j
    BY <1>2
  <2> HIDE DEF j
  <2>5. messages[i].calls[k].id < messages[j].calls[l].id
    BY <2>2, <2>3, <2>4 DEF Turns!Numbered
  <2> QED
    BY <2>2, <2>3, <2>5
<1>4. ASSUME NEW p \in 1..(a+b), NEW q \in 1..(a+b), p < q, Z[p].kind = "tool", Z[q].kind = "tool"
      PROVE  Z[p].of < Z[q].of
  <2>1. CASE q <= a
    <3>1. p <= a
      BY <1>1, <1>4, <2>1
    <3>2. p \in 1..a /\ q \in 1..a /\ Z[p] = X[p] /\ Z[q] = X[q]
      BY <1>1, <2>1, <3>1
    <3> QED
      BY <1>4, <3>2 DEF Rising, a
  <2>2. CASE p <= a /\ q > a
    <3>1. p \in 1..a /\ q - a \in 1..b /\ Z[p] = X[p] /\ Z[q] = Y[q - a]
      BY <1>1, <2>2
    <3> QED
      BY <1>3, <1>4, <3>1
  <2>3. CASE p > a
    <3>1. q > a
      BY <1>1, <1>4, <2>3
    <3>2. p - a \in 1..b /\ q - a \in 1..b /\ Z[p] = Y[p - a] /\ Z[q] = Y[q - a] /\ p - a < q - a
      BY <1>1, <1>4, <2>3, <3>1
    <3> QED
      BY <1>4, <3>2 DEF Rising, b
  <2> QED
    BY <1>1, <2>1, <2>2, <2>3
<1>5. ASSUME NEW p \in 1..(a+b), Z[p].kind = "tool"
      PROVE  \E i \in 1..(n+1) : \E k \in DOMAIN messages[i].calls : Z[p].of = messages[i].calls[k].id
  <2>1. CASE p <= a
    <3>1. p \in 1..a /\ Z[p] = X[p]
      BY <1>1, <2>1
    <3>2. PICK i \in 1..n : \E k \in DOMAIN messages[i].calls : X[p].of = messages[i].calls[k].id
      BY <1>5, <3>1 DEF FromFirst, a
    <3>3. i \in 1..(n+1)
      OBVIOUS
    <3> QED
      BY <3>1, <3>2, <3>3
  <2>2. CASE p > a
    <3>1. p - a \in 1..b /\ Z[p] = Y[p - a]
      BY <1>1, <2>2
    <3>2. \E k \in DOMAIN messages[n+1].calls : Z[p].of = messages[n+1].calls[k].id
      BY <1>5, <3>1 DEF FromMessage, b
    <3>3. n + 1 \in 1..(n+1)
      OBVIOUS
    <3> QED
      BY <3>2, <3>3
  <2> QED
    BY <1>1, <2>1, <2>2
<1> QED
  BY <1>1, <1>4, <1>5 DEF Rising, FromFirst, Z

(* What streamMessagesToUi has made of the first n messages.                *)
Uis == [id : Nat, author : {"user", "agent"}, chunks : Seq(Shown)]
Reads == [ui : Seq(Uis), turn : [id : Nat, chunks : Seq(Shown)]]
AllRising(ui) == \A k \in 1..Len(ui) : Rising(ui[k].chunks)
HasRead(n, acc) ==
    /\ acc \in Reads /\ AllRising(acc.ui) /\ Rising(acc.turn.chunks) /\ FromFirst(acc.turn.chunks, n)
    /\ Turns!FlattenSeq(KeptAll(n)) = Turns!ChunksIn(acc.ui) \o Turns!mergeTextChunks(acc.turn.chunks)
    /\ Turns!FlattenSeq(SpokenAll(n)) = Turns!ChunksIn(acc.ui) \o Turns!WithoutText(acc.turn.chunks)

(* Nothing is left of nothing.                                              *)
LEMMA FiltersOfNothing ==
    Turns!mergeTextChunks(<<>>) = <<>> /\ Turns!WithoutText(<<>>) = <<>> /\ Rising(<<>>) /\ (\A n : FromFirst(<<>>, n))
<1>1. <<>> \in Seq({}) /\ Len(<<>>) = 0 /\ 1..0 = {}
  OBVIOUS
<1>2. Turns!mergeTextChunks(<<>>) = Chosen(<<>>, MergedAt(<<>>)) /\ Turns!WithoutText(<<>>) = Chosen(<<>>, NoTextAt(<<>>))
  BY <1>1, TextFilters
<1>3. Chosen(<<>>, MergedAt(<<>>)) = <<>> /\ Chosen(<<>>, NoTextAt(<<>>)) = <<>>
  BY <1>1, ChosenAll
<1>4. Rising(<<>>) /\ \A n : FromFirst(<<>>, n)
  BY <1>1 DEF Rising, FromFirst
<1> QED
  BY <1>2, <1>3, <1>4

(* A list of user messages and turns with one more at its end.              *)
LEMMA UisJoined ==
    /\ Chunky(Uis, Shown)
    /\ \A ui \in Seq(Uis), u \in Uis : /\ Append(ui, u) \in Seq(Uis)
                                       /\ Turns!ChunksIn(Append(ui, u)) = Turns!ChunksIn(ui) \o u.chunks
                                       /\ Turns!ChunksIn(ui) \in Seq(Shown)
                                       /\ AllRising(ui) /\ Rising(u.chunks) => AllRising(Append(ui, u))
<1>1. Chunky(Uis, Shown)
  BY DEF Chunky, Uis
<1> DEFINE R == Uis
           W == Shown
<1>2. Chunky(R, W)
  BY <1>1
<1> HIDE DEF R, W
<1>3. ASSUME NEW ui \in Seq(R), NEW u \in R
      PROVE  /\ Append(ui, u) \in Seq(R) /\ Turns!ChunksIn(Append(ui, u)) = Turns!ChunksIn(ui) \o u.chunks
             /\ Turns!ChunksIn(ui) \in Seq(W) /\ (AllRising(ui) /\ Rising(u.chunks) => AllRising(Append(ui, u)))
  <2> DEFINE one == <<u>>
             more == Append(ui, u)
             n == Len(ui)
  <2>1. /\ one \in Seq(R) /\ more \in Seq(R) /\ more = ui \o one /\ n \in Nat /\ Len(more) = n + 1
        /\ more[n+1] = u /\ \A k \in 1..n : more[k] = ui[k]
    OBVIOUS
  <2>2. \A r \in R : ChunksWith(r) = r.chunks
    BY <1>2, ChunksOfOne
  <2>3. \A a, b \in Seq(R) : Turns!ChunksIn(a \o b) = Turns!ChunksIn(a) \o Turns!ChunksIn(b) /\ Turns!ChunksIn(a) \in Seq(W)
    BY <1>2, ChunksInConcat
  <2>4. Turns!ChunksIn(one) = u.chunks
    BY <2>2 DEF ChunksWith
  <2> HIDE DEF one, more, n
  <2>5. Turns!ChunksIn(more) = Turns!ChunksIn(ui) \o u.chunks /\ Turns!ChunksIn(ui) \in Seq(W)
    BY <2>1, <2>3, <2>4
  <2>6. ASSUME AllRising(ui), Rising(u.chunks) PROVE AllRising(more)
    <3>1. \A k \in 1..Len(more) : k = n + 1 \/ k \in 1..n
      BY <2>1
    <3>2. \A k \in 1..n : Rising(ui[k].chunks)
      BY <2>6 DEF AllRising, n
    <3>3. \A k \in 1..Len(more) : Rising(more[k].chunks)
      BY <2>1, <2>6, <3>1, <3>2
    <3> QED
      BY <3>3 DEF AllRising
  <2> QED
    BY <2>1, <2>5, <2>6 DEF more
<1> QED
  BY <1>1, <1>3 DEF R, W

(* flushAgentTurn adds the turn that is open: the chunks are then those     *)
(* expected.                                                                *)
LEMMA TurnFlushed ==
    ASSUME Turns!Shaped, Turns!Numbered, NEW n, NEW acc, HasRead(n, acc)
    PROVE  /\ Turns!flushAgentTurn(acc) \in Reads /\ Turns!flushAgentTurn(acc).turn = Turns!NoTurn
           /\ AllRising(Turns!flushAgentTurn(acc).ui)
           /\ Turns!ChunksIn(Turns!flushAgentTurn(acc).ui) = Turns!FlattenSeq(KeptAll(n))
<1> DEFINE f == Turns!flushAgentTurn(acc)
           X == Turns!mergeTextChunks(acc.turn.chunks)
           u == [id |-> acc.turn.id, author |-> "agent", chunks |-> X]
           ui == acc.ui
           W == Shown
<1>1. /\ acc \in Reads /\ ui \in Seq(Uis) /\ acc.turn.chunks \in Seq(W) /\ acc.turn.id \in Nat
      /\ AllRising(ui) /\ Rising(acc.turn.chunks)
  BY DEF HasRead, Reads
<1>2. Turns!FlattenSeq(KeptAll(n)) = Turns!ChunksIn(ui) \o X
  BY DEF HasRead
<1>3. X \in Seq(W)
  BY <1>1, TextFilters
<1>4. Rising(X)
  BY <1>1, MergedRising, ShownAre
<1>5. CASE acc.turn = Turns!NoTurn
  <2>1. f = acc
    BY <1>5 DEF Turns!flushAgentTurn
  <2>2. X = <<>>
    BY <1>5, FiltersOfNothing DEF Turns!NoTurn
  <2>3. Turns!ChunksIn(ui) \in Seq(W)
    BY <1>1, UisJoined, ChunksInConcat
  <2>4. Turns!ChunksIn(ui) \o <<>> = Turns!ChunksIn(ui)
    BY <2>3, ConcatEmptySeq
  <2> QED
    BY <1>1, <1>2, <1>5, <2>1, <2>2, <2>4
<1>6. CASE acc.turn # Turns!NoTurn
  <2>1. u \in Uis /\ u.chunks = X
    BY <1>1, <1>3 DEF Uis
  <2>2. f = [ui |-> Append(ui, u), turn |-> Turns!NoTurn]
    BY <1>6 DEF Turns!flushAgentTurn
  <2> HIDE DEF u, f, X, ui
  <2>3. /\ Append(ui, u) \in Seq(Uis) /\ Turns!ChunksIn(Append(ui, u)) = Turns!ChunksIn(ui) \o u.chunks
        /\ AllRising(Append(ui, u))
    BY <1>1, <1>4, <2>1, UisJoined
  <2>4. Turns!NoTurn \in [id : Nat, chunks : Seq(W)]
    BY DEF Turns!NoTurn
  <2>5. f \in Reads /\ f.turn = Turns!NoTurn /\ f.ui = Append(ui, u)
    BY <2>2, <2>3, <2>4 DEF Reads
  <2> QED
    BY <1>2, <2>1, <2>3, <2>5 DEF f
<1> QED
  BY <1>5, <1>6

(* A message of the user closes the turn of the agent.                      *)
LEMMA UserRead ==
    ASSUME Turns!Shaped, Turns!Numbered, NEW n \in Nat, n + 1 \in 1..Len(messages), NEW acc, HasRead(n, acc), ByUser(n + 1)
    PROVE  HasRead(n + 1, Turns!ReadMessage(acc, n + 1))
<1> DEFINE i == n + 1
           C == Turns!ChunksOf(i)
           f == Turns!flushAgentTurn(acc)
           u == [id |-> i, author |-> "user", chunks |-> C]
           R == Turns!ReadMessage(acc, i)
           W == Shown
           old == Turns!FlattenSeq(KeptAll(n))
<1>1. n \in 0..Len(messages) /\ i \in 0..Len(messages) /\ i \in 1..Len(messages) /\ i \in Nat
  BY DEF Turns!Shaped
<1>2. C \in Seq(W) /\ Rising(C)
  BY <1>1, ChunksOfMessage
<1>3. f \in Reads /\ f.turn = Turns!NoTurn /\ AllRising(f.ui) /\ Turns!ChunksIn(f.ui) = old
  BY TurnFlushed
<1>4. R = IF C = <<>> THEN f ELSE [f EXCEPT !.ui = Append(f.ui, u)]
  BY DEF Turns!ReadMessage, Turns!HumanMessage, ByUser
<1>5. Turns!FlattenSeq(KeptAll(i)) = old \o C /\ Turns!FlattenSeq(SpokenAll(i)) = old \o C
  <2>1. /\ KeptAll(n) \in Seq(Seq(W)) /\ Len(KeptAll(n)) = n
        /\ KeptAll(i) \in Seq(Seq(W)) /\ Len(KeptAll(i)) = n + 1
        /\ SpokenAll(i) \in Seq(Seq(W)) /\ Len(SpokenAll(i)) = n + 1
    BY <1>1, KeptTyped
  <2>2. \A j \in 1..n : Kept(i, j) = Kept(n, j) /\ Spoken(i, j) = Kept(n, j)
    BY KeptMore
  <2>3. \A j \in 1..n : KeptAll(i)[j] = KeptAll(n)[j] /\ SpokenAll(i)[j] = KeptAll(n)[j]
    <3>1. \A j \in 1..n : j \in 1..i
      OBVIOUS
    <3> QED
      BY <2>2, <3>1 DEF KeptAll, SpokenAll
  <2>4. KeptAll(i)[n+1] = C /\ SpokenAll(i)[n+1] = C
    <3>1. i \in 1..i
      BY <1>1
    <3>2. Kept(i, i) = C /\ Spoken(i, i) = C
      BY <1>1, KeptLast
    <3> QED
      BY <3>1, <3>2 DEF KeptAll, SpokenAll
  <2> DEFINE s == KeptAll(n)
             t == KeptAll(i)
             v == SpokenAll(i)
  <2>5. /\ s \in Seq(Seq(W)) /\ Len(s) = n /\ t \in Seq(Seq(W)) /\ Len(t) = n + 1 /\ \A j \in 1..n : t[j] = s[j]
        /\ v \in Seq(Seq(W)) /\ Len(v) = n + 1 /\ \A j \in 1..n : v[j] = s[j]
    BY <2>1, <2>3
  <2> HIDE DEF W, C, i, s, t, v
  <2>6. Turns!FlattenSeq(t) = Turns!FlattenSeq(s) \o t[n+1]
    BY <2>5, JoinedMore
  <2>7. Turns!FlattenSeq(v) = Turns!FlattenSeq(s) \o v[n+1]
    BY <2>5, JoinedMore
  <2> QED
    BY <2>4, <2>6, <2>7 DEF s, t, v, old
<1>6. Turns!NoTurn.chunks = <<>>
  BY DEF Turns!NoTurn
<1>7. /\ Rising(Turns!NoTurn.chunks) /\ FromFirst(Turns!NoTurn.chunks, i)
      /\ Turns!mergeTextChunks(Turns!NoTurn.chunks) = <<>> /\ Turns!WithoutText(Turns!NoTurn.chunks) = <<>>
  BY <1>6, FiltersOfNothing
<1>8. u \in Uis /\ u.chunks = C
  BY <1>1, <1>2 DEF Uis
<1> HIDE DEF i, C, f, u, R, old, W
<1>9. Turns!ChunksIn(f.ui) \in Seq(W)
  BY <1>3, <1>8, UisJoined DEF Reads, W
<1>10. R \in Reads /\ R.turn = Turns!NoTurn /\ AllRising(R.ui) /\ Turns!ChunksIn(R.ui) = old \o C
  <2>1. CASE C = <<>>
    <3>1. old \o <<>> = old
      BY <1>3, <1>9, ConcatEmptySeq
    <3> QED
      BY <1>3, <1>4, <2>1, <3>1
  <2>2. CASE C # <<>>
    <3>1. f.ui \in Seq(Uis)
      BY <1>3 DEF Reads
    <3>2. /\ Append(f.ui, u) \in Seq(Uis) /\ Turns!ChunksIn(Append(f.ui, u)) = Turns!ChunksIn(f.ui) \o u.chunks
          /\ AllRising(Append(f.ui, u))
      BY <1>2, <1>3, <1>8, <3>1, UisJoined
    <3>3. R = [f EXCEPT !.ui = Append(f.ui, u)]
      BY <1>4, <2>2
    <3>4. R \in Reads /\ R.turn = Turns!NoTurn /\ R.ui = Append(f.ui, u)
      BY <1>3, <3>2, <3>3 DEF Reads
    <3> QED
      BY <1>3, <1>8, <3>2, <3>4
  <2> QED
    BY <2>1, <2>2
<1>11. (old \o C) \o <<>> = old \o C
  <2>1. old \o C \in Seq(W)
    BY <1>2, <1>3, <1>9
  <2> QED
    BY <2>1, ConcatEmptySeq
<1>12. HasRead(i, R)
  BY <1>5, <1>7, <1>10, <1>11 DEF HasRead
<1> QED
  BY <1>12 DEF R, i

(* A message of the agent continues the turn, or opens one.                 *)
LEMMA AgentRead ==
    ASSUME Turns!Shaped, Turns!Numbered, NEW n \in Nat, n + 1 \in 1..Len(messages), NEW acc, HasRead(n, acc), ~ByUser(n + 1)
    PROVE  LET R == Turns!ReadMessage(acc, n + 1)
               C == Turns!ChunksOf(n + 1)
           IN  /\ R \in Reads /\ R.ui = acc.ui /\ R.turn.chunks = acc.turn.chunks \o C
               /\ Rising(R.turn.chunks) /\ FromFirst(R.turn.chunks, n + 1)
<1> DEFINE i == n + 1
           C == Turns!ChunksOf(i)
           R == Turns!ReadMessage(acc, i)
           W == Shown
           X == acc.turn.chunks
<1>1. i \in 1..Len(messages) /\ i \in Nat
  OBVIOUS
<1>2. C \in Seq(W) /\ Rising(C) /\ FromMessage(C, i)
  BY <1>1, ChunksOfMessage
<1>3. /\ acc \in Reads /\ X \in Seq(W) /\ Rising(X) /\ FromFirst(X, n)
      /\ acc.turn \in [id : Nat, chunks : Seq(W)]
  BY DEF HasRead, Reads
<1>4. X \o C \in Seq(W) /\ Rising(X \o C) /\ FromFirst(X \o C, i)
  BY <1>2, <1>3, RisingMore
<1>5. R = IF C # <<>> THEN Turns!appendAgentChunks(acc, i) ELSE acc
  BY DEF Turns!ReadMessage, ByUser
<1>6. CASE C = <<>>
  <2>1. X \o <<>> = X
    BY <1>3, ConcatEmptySeq
  <2> QED
    BY <1>3, <1>4, <1>5, <1>6, <2>1
<1>7. CASE C # <<>> /\ acc.turn = Turns!NoTurn
  <2>1. R = [acc EXCEPT !.turn = [id |-> i, chunks |-> C]]
    BY <1>5, <1>7 DEF Turns!appendAgentChunks
  <2>2. X = <<>>
    BY <1>7 DEF Turns!NoTurn
  <2>3. <<>> \o C = C
    BY <1>2, ConcatEmptySeq
  <2>4. X \o C = C
    BY <2>2, <2>3
  <2> HIDE DEF C, X, R, i
  <2>5. R.ui = acc.ui /\ R.turn = [id |-> i, chunks |-> C] /\ R.turn.chunks = C /\ R \in Reads
    BY <1>1, <1>2, <1>3, <2>1 DEF Reads, W
  <2> QED
    BY <1>4, <2>4, <2>5 DEF C, X, R, i
<1>8. CASE C # <<>> /\ acc.turn # Turns!NoTurn
  <2>1. R = [acc EXCEPT !.turn.chunks = X \o C]
    BY <1>5, <1>8 DEF Turns!appendAgentChunks
  <2> HIDE DEF C, R, i
  <2>2. R.ui = acc.ui /\ R.turn.chunks = X \o C /\ R \in Reads
    BY <1>3, <1>4, <2>1 DEF Reads, W
  <2> QED
    BY <1>4, <2>2 DEF C, R, i
<1> QED
  BY <1>6, <1>7, <1>8

(* After it the turn has what is expected: with a text, the texts before it *)
(* are dropped.                                                             *)
LEMMA AgentKeeps ==
    ASSUME Turns!Shaped, Turns!Numbered, NEW n \in Nat, n + 1 \in 1..Len(messages), NEW acc, HasRead(n, acc), ~ByUser(n + 1)
    PROVE  HasRead(n + 1, Turns!ReadMessage(acc, n + 1))
<1> DEFINE i == n + 1
           C == Turns!ChunksOf(i)
           R == Turns!ReadMessage(acc, i)
           W == Shown
           X == acc.turn.chunks
           U == Turns!ChunksIn(acc.ui)
           s == KeptAll(n)
           v == SpokenAll(n)
           t == KeptAll(i)
           w == SpokenAll(i)
           D == Turns!WithoutText(C)
           B == Turns!WithoutText(X)
           M == Turns!mergeTextChunks(X)
<1>1. n \in 0..Len(messages) /\ i \in 0..Len(messages) /\ i \in 1..Len(messages) /\ i \in Nat
  BY DEF Turns!Shaped
<1>2. /\ C \in Seq(W)
      /\ ~messages[i].text => TextAt(C) = {}
      /\ messages[i].text => \E y \in TextAt(C) : TextAt(C) = {y}
      /\ messages[i].text \in BOOLEAN
  BY <1>1, ChunksOfMessage, MessageShaped
<1>3. /\ acc \in Reads /\ AllRising(acc.ui) /\ X \in Seq(W) /\ acc.ui \in Seq(Uis)
      /\ Turns!FlattenSeq(s) = U \o M /\ Turns!FlattenSeq(v) = U \o B
  BY DEF HasRead, Reads
<1>4. U \in Seq(W) /\ B \in Seq(W) /\ M \in Seq(W) /\ D \in Seq(W)
  BY <1>2, <1>3, UisJoined, ChunksInConcat, TextFilters
<1>5. /\ R \in Reads /\ R.ui = acc.ui /\ R.turn.chunks = X \o C
      /\ Rising(R.turn.chunks) /\ FromFirst(R.turn.chunks, i)
  BY AgentRead
<1>6. /\ Turns!WithoutText(X \o C) = B \o D
      /\ ~messages[i].text => D = C /\ Turns!mergeTextChunks(X \o C) = M \o C
      /\ messages[i].text => Turns!mergeTextChunks(X \o C) = B \o C
  <2>1. X \in Seq(W) /\ C \in Seq(W)
    BY <1>2, <1>3
  <2> HIDE DEF X, C, W
  <2>2. /\ Turns!WithoutText(X \o C) = B \o D
        /\ TextAt(C) = {} => D = C /\ Turns!mergeTextChunks(X \o C) = M \o C
        /\ (\E y \in TextAt(C) : TextAt(C) = {y}) => Turns!mergeTextChunks(X \o C) = B \o C
    BY <2>1, TextsContinued
  <2> QED
    BY <1>2, <2>2
<1>7. /\ s \in Seq(Seq(W)) /\ Len(s) = n /\ v \in Seq(Seq(W)) /\ Len(v) = n
      /\ t \in Seq(Seq(W)) /\ Len(t) = n + 1 /\ w \in Seq(Seq(W)) /\ Len(w) = n + 1
  BY <1>1, KeptTyped
<1>8. /\ \A j \in 1..n : w[j] = v[j]
      /\ messages[i].text => \A j \in 1..n : t[j] = v[j]
      /\ ~messages[i].text => \A j \in 1..n : t[j] = s[j]
  <2>1. \A j \in 1..n : /\ Spoken(i, j) = Spoken(n, j)
                        /\ messages[i].text => Kept(i, j) = Spoken(n, j)
                        /\ ~messages[i].text => Kept(i, j) = Kept(n, j)
    BY KeptMore
  <2>2. \A j \in 1..n : j \in 1..i
    OBVIOUS
  <2>3. \A j \in 1..n : s[j] = Kept(n, j) /\ v[j] = Spoken(n, j) /\ t[j] = Kept(i, j) /\ w[j] = Spoken(i, j)
    BY <2>2 DEF KeptAll, SpokenAll
  <2> HIDE DEF s, v, t, w, i
  <2> QED
    BY <2>1, <2>3
<1>9. t[n+1] = C /\ w[n+1] = D
  <2>1. i \in 1..i
    BY <1>1
  <2>2. Kept(i, i) = C /\ Spoken(i, i) = D
    BY <1>1, KeptLast
  <2> QED
    BY <2>1, <2>2 DEF KeptAll, SpokenAll
<1> HIDE DEF i, C, R, W, X, U, s, v, t, w, D, B, M
<1>10. Turns!FlattenSeq(w) = Turns!FlattenSeq(v) \o D
  BY <1>7, <1>8, <1>9, JoinedMore
<1>11. \A a, b, c \in Seq(W) : (a \o b) \o c = a \o (b \o c)
  <2> SUFFICES ASSUME NEW a \in Seq(W), NEW b \in Seq(W), NEW c \in Seq(W)
               PROVE  (a \o b) \o c = a \o (b \o c)
    OBVIOUS
  <2> QED
    OBVIOUS
<1>12. Turns!FlattenSeq(w) = U \o Turns!WithoutText(X \o C)
  <2>1. (U \o B) \o D = U \o (B \o D)
    BY <1>4, <1>11
  <2> QED
    BY <1>3, <1>6, <1>10, <2>1, Zenon
<1>13. Turns!FlattenSeq(t) = U \o Turns!mergeTextChunks(X \o C)
  <2>1. CASE messages[i].text
    <3>1. Turns!FlattenSeq(t) = Turns!FlattenSeq(v) \o C
      BY <1>7, <1>8, <1>9, <2>1, JoinedMore
    <3>2. (U \o B) \o C = U \o (B \o C)
      <4>1. U \in Seq(W) /\ B \in Seq(W) /\ C \in Seq(W)
        BY <1>2, <1>4
      <4> QED
        BY <4>1, <1>11
    <3>3. Turns!mergeTextChunks(X \o C) = B \o C
      BY <1>6, <2>1
    <3> QED
      BY <1>3, <3>1, <3>2, <3>3, Zenon
  <2>2. CASE ~messages[i].text
    <3>1. Turns!FlattenSeq(t) = Turns!FlattenSeq(s) \o C
      BY <1>7, <1>8, <1>9, <2>2, JoinedMore
    <3>2. (U \o M) \o C = U \o (M \o C)
      <4>1. U \in Seq(W) /\ M \in Seq(W) /\ C \in Seq(W)
        BY <1>2, <1>4
      <4> QED
        BY <4>1, <1>11
    <3>3. Turns!mergeTextChunks(X \o C) = M \o C
      BY <1>6, <2>2
    <3> QED
      BY <1>3, <3>1, <3>2, <3>3, Zenon
  <2> QED
    BY <1>2, <2>1, <2>2
<1>14. HasRead(i, R)
  BY <1>3, <1>5, <1>12, <1>13 DEF HasRead, U, t, w
<1> QED
  BY <1>14 DEF R, i

(* Before the first message nothing has been read.                          *)
LEMMA NothingRead ==
    HasRead(0, [ui |-> <<>>, turn |-> Turns!NoTurn])
<1> DEFINE acc == [ui |-> <<>>, turn |-> Turns!NoTurn]
           R == Uis
           V == [id : Nat, chunks : Seq(Shown)]
<1>1. Turns!NoTurn \in V /\ Turns!NoTurn.chunks = <<>>
  BY DEF Turns!NoTurn
<1>2. <<>> \in Seq(R) /\ Len(<<>>) = 0 /\ 1..0 = {}
  OBVIOUS
<1>3. acc \in Reads /\ acc.ui = <<>> /\ acc.turn.chunks = <<>>
  <2> HIDE DEF R
  <2>1. acc.ui \in Seq(Uis)
    BY <1>2 DEF R
  <2> QED
    BY <1>1, <2>1 DEF Reads
<1>4. ChunkLists(<<>>) = <<>>
  BY DEF ChunkLists
<1>5. <<>> \in Seq({}) /\ Turns!FlattenSeq(<<>>) = <<>>
  <2>1. <<>> \in Seq({})
    OBVIOUS
  <2> QED
    BY <2>1, FlatOne
<1>6. Turns!ChunksIn(<<>>) = <<>>
  BY <1>4, <1>5 DEF Turns!ChunksIn, ChunkLists
<1>7. KeptAll(0) = <<>> /\ SpokenAll(0) = <<>>
  BY <1>2 DEF KeptAll, SpokenAll
<1>8. AllRising(<<>>)
  BY <1>2 DEF AllRising
<1>9. <<>> \o <<>> = <<>>
  OBVIOUS
<1> HIDE DEF acc
<1>10. HasRead(0, acc)
  BY <1>3, <1>5, <1>6, <1>7, <1>8, <1>9, FiltersOfNothing DEF HasRead
<1> QED
  BY <1>10 DEF acc

(* streamMessagesToUi shows what is expected of all messages.               *)
LEMMA AllRead ==
    ASSUME Turns!Shaped, Turns!Numbered
    PROVE  /\ Turns!streamMessagesToUi \in Seq(Uis) /\ AllRising(Turns!streamMessagesToUi)
           /\ Turns!ChunksIn(Turns!streamMessagesToUi) = Turns!FlattenSeq([i \in DOMAIN messages |-> Turns!Expected(i)])
<1> DEFINE n == Len(messages)
           V == Reads
           base == [ui |-> <<>>, turn |-> Turns!NoTurn]
           Step(i) == [acc \in V |-> IF HasRead(i - 1, acc) THEN Turns!ReadMessage(acc, i) ELSE base]
           step == [i \in 1..n |-> Step(i)]
<1>1. n \in Nat /\ base \in V /\ HasRead(0, base) /\ DOMAIN messages = 1..n
  BY NothingRead DEF HasRead, Turns!Shaped
<1>2. ASSUME NEW i \in 1..n, NEW acc \in V, HasRead(i - 1, acc)
      PROVE  Turns!ReadMessage(acc, i) \in V /\ HasRead(i, Turns!ReadMessage(acc, i))
  <2> DEFINE j == i - 1
  <2>1. j \in Nat /\ j + 1 \in 1..Len(messages) /\ j + 1 = i
    BY <1>1
  <2>2. HasRead(j, acc)
    BY <1>2
  <2> HIDE DEF j
  <2>3. HasRead(j + 1, Turns!ReadMessage(acc, j + 1))
    BY <2>1, <2>2, UserRead, AgentKeeps
  <2> QED
    BY <2>1, <2>3 DEF HasRead
<1>3. step \in Steps(n, V)
  <2>1. \A i \in 1..n : Step(i) \in [V -> V]
    <3> HIDE DEF V, base, n
    <3> QED
      BY <1>1, <1>2
  <2> HIDE DEF V, Step
  <2> QED
    BY <2>1 DEF Steps
<1>4. \A i \in 1..n : \A acc \in V : HasRead(i - 1, acc) => step[i][acc] = Turns!ReadMessage(acc, i)
  <2> HIDE DEF V, base
  <2> QED
    OBVIOUS
<1> HIDE DEF V, step, base, n
<1>5. PICK f \in [0..n -> V] : Follows(f, n, base, step)
  BY <1>1, <1>3, RecursionExists
<1>6. f[0] = base /\ \A i \in 1..n : f[i] = step[i][f[i-1]]
  BY <1>5 DEF Follows
<1>7. \A i \in 0..n : HasRead(i, f[i])
  <2> DEFINE Bad == {k \in 0..n : ~HasRead(k, f[k])}
  <2> SUFFICES ASSUME Bad # {} PROVE FALSE
    OBVIOUS
  <2>1. PICK k \in Bad : \A j \in Bad : k <= j
    <3>1. Bad \in SUBSET Nat
      BY <1>1
    <3> HIDE DEF Bad
    <3> QED
      BY <3>1, LeastNumber
  <2>2. k # 0
    BY <1>1, <1>6, <2>1
  <2>3. k \in 1..n /\ k - 1 \in 0..n /\ ~(k <= k - 1)
    BY <1>1, <2>2
  <2>4. HasRead(k - 1, f[k-1]) /\ f[k-1] \in V
    BY <2>1, <2>3
  <2>5. f[k] = Turns!ReadMessage(f[k-1], k)
    BY <1>4, <1>6, <2>3, <2>4
  <2>6. HasRead(k, Turns!ReadMessage(f[k-1], k))
    BY <1>2, <2>3, <2>4
  <2> QED
    BY <2>1, <2>5, <2>6
<1>8. \A i \in 1..n : f[i] = Turns!ReadMessage(f[i-1], i)
  <2> TAKE i \in 1..n
  <2>1. i - 1 \in 0..n
    BY <1>1
  <2>2. HasRead(i - 1, f[i-1]) /\ f[i-1] \in V
    BY <1>7, <2>1
  <2> QED
    BY <1>4, <1>6, <2>2
<1> DEFINE e(g) == [i \in 0..n |-> IF i = 0 THEN base ELSE Turns!ReadMessage(g[i - 1], i)]
           h == CHOOSE g : g = e(g)
<1>9. f = e(f)
  <2>1. \A i \in 0..n : i # 0 => i \in 1..n
    BY <1>1
  <2>2. \A i \in 0..n : f[i] = IF i = 0 THEN base ELSE Turns!ReadMessage(f[i - 1], i)
    BY <1>6, <1>8, <2>1
  <2>3. f = [i \in 0..n |-> f[i]]
    OBVIOUS
  <2> QED
    BY <2>2, <2>3
<1>10. h = e(h)
  <2> HIDE DEF e
  <2> QED
    BY <1>9
<1>11. Turns!streamMessagesToUi = Turns!flushAgentTurn(h[n]).ui
  BY DEF Turns!streamMessagesToUi, base, n
<1>12. \A i \in 0..n : h[i] = IF i = 0 THEN base ELSE Turns!ReadMessage(h[i - 1], i)
  <2> HIDE DEF h
  <2> QED
    BY <1>10
<1> HIDE DEF e, h
<1>13. \A i \in 0..n : h[i] = f[i]
  <2> DEFINE Bad == {k \in 0..n : h[k] # f[k]}
  <2> SUFFICES ASSUME Bad # {} PROVE FALSE
    OBVIOUS
  <2>1. PICK k \in Bad : \A j \in Bad : k <= j
    <3>1. Bad \in SUBSET Nat
      BY <1>1
    <3> HIDE DEF Bad
    <3> QED
      BY <3>1, LeastNumber
  <2>2. k # 0
    BY <1>1, <1>6, <1>12, <2>1
  <2>3. k \in 1..n /\ k - 1 \in 0..n /\ ~(k <= k - 1)
    BY <1>1, <2>2
  <2>4. h[k-1] = f[k-1]
    BY <2>1, <2>3
  <2> QED
    BY <1>8, <1>12, <2>1, <2>2, <2>3, <2>4
<1>14. HasRead(n, h[n])
  BY <1>1, <1>7, <1>13
<1>15. /\ Turns!flushAgentTurn(h[n]) \in Reads /\ AllRising(Turns!flushAgentTurn(h[n]).ui)
       /\ Turns!ChunksIn(Turns!flushAgentTurn(h[n]).ui) = Turns!FlattenSeq(KeptAll(n))
  BY <1>14, TurnFlushed
<1>16. KeptAll(n) = [i \in DOMAIN messages |-> Turns!Expected(i)]
  <2>1. \A i \in 1..n : Kept(n, i) = Turns!Expected(i)
    BY DEF Kept, Turns!Expected, ByUser, FinalIn, Turns!Final, n
  <2> QED
    BY <1>1, <2>1 DEF KeptAll
<1> QED
  BY <1>11, <1>15, <1>16 DEF Reads

(* The items of all messages.                                               *)
UserItems == {Turns!Item("user", <<"user", m>>, l) : m \in Nat, l \in Seq(Shown)}
EveryItem == ItemsOf(Shown) \cup UserItems
ItemLists(ui) == [k \in DOMAIN ui |-> Turns!Items(ui[k])]

(* The items of a user's message or a turn have its chunks.                 *)
LEMMA ItemsOfMessage ==
    ASSUME Turns!Shaped, Turns!Numbered, NEW m \in Uis, Rising(m.chunks)
    PROVE  /\ Turns!Items(m) \in Seq(EveryItem) /\ Turns!ChunksIn(Turns!Items(m)) = m.chunks
           /\ \A j, k \in DOMAIN Turns!Items(m) : j # k => Turns!Items(m)[j].key # Turns!Items(m)[k].key
           /\ \A k \in 2..Len(Turns!Items(m)) : Turns!Items(m)[k].type \in {"explored-group", "subagent-group"} =>
                Turns!Items(m)[k - 1].type # Turns!Items(m)[k].type
<1> DEFINE W == Shown
           X == m.chunks
           rows == Turns!Items(m)
           E == EveryItem
<1>1. X \in Seq(W) /\ m.id \in Nat /\ m.author \in {"user", "agent"}
  BY DEF Uis
<1>2. CASE m.author = "agent"
  <2>1. rows = Turns!buildRenderItems(X)
    BY <1>2 DEF Turns!Items
  <2>2. Listed(W, X, Len(X), Turns!buildRenderItems(X))
    BY <1>1, ShownAre, ItemsListed
  <2> HIDE DEF rows, X, W
  <2>3. /\ rows \in Seq(ItemsOf(W)) /\ Turns!ChunksIn(rows) = SubSeq(X, 1, Len(X))
        /\ \A j, k \in 1..Len(rows) : j # k => rows[j].key # rows[k].key
        /\ \A k \in 2..Len(rows) : Grouped(rows[k].type) => rows[k-1].type # rows[k].type
    BY <2>1, <2>2 DEF Listed
  <2>4. SubSeq(X, 1, Len(X)) = X
    BY <1>1
  <2> DEFINE I == ItemsOf(W)
  <2>5. rows \in Seq(E)
    <3>1. rows \in Seq(I) /\ \A x \in I : x \in E
      BY <2>3 DEF EveryItem, W
    <3> HIDE DEF I, E
    <3> QED
      BY <3>1
  <2>6. DOMAIN rows = 1..Len(rows)
    <3>1. rows \in Seq(I)
      BY <2>3
    <3> HIDE DEF I
    <3> QED
      BY <3>1
  <2> QED
    BY <2>3, <2>4, <2>5, <2>6 DEF Grouped, rows, X
<1>3. CASE m.author = "user"
  <2> DEFINE item == Turns!Item("user", <<"user", m.id>>, X)
  <2>1. rows = <<item>>
    BY <1>3 DEF Turns!Items
  <2>2. item \in E /\ item.chunks = X
    <3>1. item.chunks = X
      BY DEF Turns!Item
    <3>2. item \in UserItems
      BY <1>1 DEF UserItems
    <3> QED
      BY <3>1, <3>2 DEF EveryItem
  <2>3. Chunky({item}, W)
    BY <1>1, <2>2 DEF Chunky
  <2> HIDE DEF item, X, W, rows, E
  <2>4. ChunksWith(item) = item.chunks
    BY <2>3, ChunksOfOne
  <2>5. Turns!ChunksIn(rows) = X
    BY <2>1, <2>2, <2>4 DEF ChunksWith
  <2>6. rows \in Seq(E) /\ Len(rows) = 1 /\ DOMAIN rows = {1} /\ 2..1 = {}
    BY <2>1, <2>2
  <2> QED
    BY <2>5, <2>6 DEF rows, X, E
<1> QED
  BY <1>1, <1>2, <1>3

(* The items of all of them have all their chunks.                          *)
LEMMA ItemsFlat ==
    ASSUME Turns!Shaped, Turns!Numbered
    PROVE  /\ Turns!AllItems \in Seq(EveryItem)
           /\ Turns!ChunksIn(Turns!AllItems) = Turns!ChunksIn(Turns!streamMessagesToUi)
<1> DEFINE ui == Turns!streamMessagesToUi
           L == ItemLists(ui)
           c == ChunkLists(ui)
           R == EveryItem
           W == Shown
           U == Uis
<1>1. ui \in Seq(U) /\ AllRising(ui)
  BY AllRead
<1>2. Turns!AllItems = Turns!FlattenSeq(L)
  BY DEF Turns!AllItems, ItemLists
<1>3. Chunky(R, W)
  <2>1. \A x \in ItemsOf(W) : x.chunks \in Seq(W)
    BY DEF ItemsOf
  <2>2. \A x \in UserItems : x.chunks \in Seq(W)
    BY DEF UserItems, Turns!Item
  <2> QED
    BY <2>1, <2>2 DEF Chunky, EveryItem
<1> HIDE DEF ui, U
<1>4. DOMAIN ui = 1..Len(ui) /\ Len(ui) \in Nat /\ \A k \in 1..Len(ui) : ui[k] \in U
  BY <1>1
<1>5. \A k \in 1..Len(ui) : Turns!Items(ui[k]) \in Seq(R) /\ Turns!ChunksIn(Turns!Items(ui[k])) = ui[k].chunks
  <2> TAKE k \in 1..Len(ui)
  <2> DEFINE x == ui[k]
  <2>1. x \in Uis /\ Rising(x.chunks)
    BY <1>1, <1>4 DEF AllRising, U
  <2> HIDE DEF x
  <2>2. Turns!Items(x) \in Seq(EveryItem) /\ Turns!ChunksIn(Turns!Items(x)) = x.chunks
    BY <2>1, ItemsOfMessage
  <2> QED
    BY <2>2 DEF x
<1>6. L \in Seq(Seq(R)) /\ Len(L) = Len(ui) /\ \A k \in 1..Len(ui) : L[k] = Turns!Items(ui[k])
  <2> DEFINE V == Seq(R)
  <2>1. L = [k \in 1..Len(ui) |-> Turns!Items(ui[k])]
    BY <1>4 DEF ItemLists
  <2> HIDE DEF V, L
  <2>2. \A k \in 1..Len(ui) : Turns!Items(ui[k]) \in V
    BY <1>5 DEF V
  <2>3. L \in Seq(V) /\ Len(L) = Len(ui)
    BY <1>4, <2>1, <2>2
  <2> QED
    BY <2>1, <2>3 DEF V
<1>7. Chunky(U, W)
  BY UisJoined DEF U
<1> HIDE DEF L, R, W
<1>8. c \in Seq(Seq(W)) /\ Len(c) = Len(ui) /\ \A k \in 1..Len(ui) : c[k] = ui[k].chunks
  BY <1>1, <1>7, ChunkListsAre
<1>9. Turns!ChunksIn(ui) = Turns!FlattenSeq(c)
  BY DEF Turns!ChunksIn, ChunkLists
<1> HIDE DEF c
<1>10. Len(c) = Len(L) /\ \A k \in 1..Len(L) : c[k] = Turns!ChunksIn(L[k])
  BY <1>5, <1>6, <1>8
<1>11. Turns!ChunksIn(Turns!FlattenSeq(L)) = Turns!FlattenSeq(c)
  BY <1>3, <1>6, <1>8, <1>10, ChunksInFlat
<1>12. Turns!FlattenSeq(L) \in Seq(R)
  BY <1>6, FlatConcat
<1> QED
  BY <1>2, <1>9, <1>11, <1>12 DEF R, ui

(* Everything is on the page once and in its order.                         *)
LEMMA ItemsAreComplete ==
    ASSUME Turns!Inv
    PROVE  Turns!ItemsComplete
BY ItemsFlat, AllRead DEF Turns!ItemsComplete, Turns!Inv

(* When everything has returned or ended, no chunk is in progress.          *)
LEMMA StatesAreTold ==
    ASSUME Turns!Inv, Turns!AllOver, NEW w \in Shown
    PROVE  w.status # "in_progress"
<1>1. Turns!Shaped /\ Turns!Numbered /\ Turns!Discovered /\ Turns!TypeOK
  BY DEF Turns!Inv
<1>2. CASE \E i \in 1..Len(messages) : w = Turns!Chunk("reasoning", i) \/ w = Turns!Chunk("text", i)
  BY <1>2 DEF Turns!Chunk
<1>3. ASSUME NEW i \in 1..Len(messages), NEW k \in 1..Len(messages[i].calls), w = Turns!ToolChunk(messages[i].calls[k])
      PROVE  w.status # "in_progress"
  <2> DEFINE id == messages[i].calls[k].id
  <2>1. w.status = Turns!subagentStatus(id)
    BY <1>3 DEF Turns!ToolChunk
  <2>2. id \in Turns!Calls /\ id \in 1..Turns!Made
    <3>1. messages[i].calls \in Seq([id : Turns!Calls, name : Tools])
      BY <1>1, MessageShaped
    <3>2. messages[i].calls[k] \in [id : Turns!Calls, name : Tools] /\ k \in DOMAIN messages[i].calls
      <4> DEFINE R == [id : Turns!Calls, name : Tools]
      <4>1. messages[i].calls \in Seq(R)
        BY <3>1
      <4> HIDE DEF R
      <4>2. messages[i].calls[k] \in R /\ k \in DOMAIN messages[i].calls
        BY <4>1
      <4> QED
        BY <4>2 DEF R
    <3>3. i \in DOMAIN messages
      BY <1>1 DEF Turns!Shaped
    <3> QED
      BY <1>1, <3>2, <3>3 DEF Turns!Numbered
  <2> HIDE DEF id
  <2>3. results[id] # "none" /\ results[id] \in {"none", "ok", "error"}
    <3>1. id <= Turns!Made
      BY <1>1, <2>2, CallsCounted
    <3> QED
      BY <1>1, <2>2, <3>1 DEF Turns!Pending, Turns!TypeOK, Turns!AllOver
  <2>4. assembled[id] # "running" /\ assembled[id] \in {"none", "running", "finished", "error"}
    BY <1>1, <2>2 DEF Turns!AllOver, Turns!TypeOK
  <2>5. Turns!toolStatus(id) # "in_progress"
    BY <2>3, <2>4 DEF Turns!toolStatus
  <2>6. subagent.call = id => subagent.status \in {"complete", "error"}
    BY <1>1, <2>2 DEF Turns!AllOver, Turns!Discovered, Turns!TypeOK
  <2> QED
    BY <2>1, <2>5, <2>6 DEF Turns!subagentStatus
<1> QED
  BY <1>2, <1>3 DEF Shown, ToolsShown

(* Keys differ, groups are as long as can be, and states are told.          *)
LEMMA ItemsTellAll ==
    ASSUME Turns!Inv
    PROVE  Turns!ItemsTellTheState
<1> DEFINE ui == Turns!streamMessagesToUi
<1>1. Turns!Shaped /\ Turns!Numbered
  BY DEF Turns!Inv
<1>2. ui \in Seq(Uis) /\ AllRising(ui)
  BY <1>1, AllRead
<1>3. Turns!AllItems \in Seq(EveryItem)
  BY <1>1, ItemsFlat
<1>4. ASSUME NEW m \in Turns!ToSet(ui)
      PROVE  /\ \A j, k \in DOMAIN Turns!Items(m) : j # k => Turns!Items(m)[j].key # Turns!Items(m)[k].key
             /\ \A k \in 2..Len(Turns!Items(m)) : Turns!Items(m)[k].type \in {"explored-group", "subagent-group"} =>
                  Turns!Items(m)[k - 1].type # Turns!Items(m)[k].type
  <2> DEFINE U == Uis
  <2>1. ui \in Seq(U)
    BY <1>2
  <2> HIDE DEF U, ui
  <2>2. PICK k \in 1..Len(ui) : m = ui[k]
    BY <1>4, <2>1 DEF Turns!ToSet
  <2>3. m \in U /\ Rising(m.chunks)
    BY <1>2, <2>1, <2>2 DEF AllRising
  <2> QED
    BY <1>1, <2>3, ItemsOfMessage DEF U
<1>5. ASSUME Turns!AllOver, NEW item \in Turns!ToSet(Turns!AllItems), NEW chunk \in Turns!ToSet(item.chunks)
      PROVE  chunk.status # "in_progress"
  <2> DEFINE E == EveryItem
             W == Shown
  <2>1. \A x \in E : x.chunks \in Seq(W)
    <3>1. \A x \in ItemsOf(W) : x.chunks \in Seq(W)
      BY DEF ItemsOf
    <3>2. \A x \in UserItems : x.chunks \in Seq(W)
      BY DEF UserItems, Turns!Item
    <3> QED
      BY <3>1, <3>2 DEF EveryItem
  <2>2. Turns!AllItems \in Seq(E)
    BY <1>3
  <2> HIDE DEF E, W
  <2>3. item \in E
    BY <1>5, <2>2 DEF Turns!ToSet
  <2>4. chunk \in W
    BY <1>5, <2>1, <2>3 DEF Turns!ToSet
  <2> QED
    BY <1>5, <2>4, StatesAreTold DEF W
<1> QED
  BY <1>4, <1>5 DEF Turns!ItemsTellTheState

(* Lists of messages: of what kind they are, and the numbers of their calls.*)
CallLists == Seq([id : Turns!Calls, name : Tools])
OneMessage == [author : {"user", "agent"}, text : BOOLEAN, reasoning : BOOLEAN, calls : CallLists]
CountOf(ms) == Len(Turns!CallsOf(ms))
NumberedIn(ms) ==
    \A i, j \in 1..Len(ms) : \A k \in 1..Len(ms[i].calls), l \in 1..Len(ms[j].calls) :
        /\ ms[i].calls[k].id \in 1..CountOf(ms)
        /\ i < j \/ (i = j /\ k < l) => ms[i].calls[k].id < ms[j].calls[l].id
UsersCallNothing(ms) == \A i \in 1..Len(ms) : ms[i].author = "user" => ms[i].calls = <<>>
Orderly(ms) == ms \in Seq(OneMessage) /\ NumberedIn(ms) /\ UsersCallNothing(ms)

(* What it means for a list of messages, without abbreviations.             *)
LEMMA OrderlyMeans ==
    ASSUME NEW ms
    PROVE  Orderly(ms) <=>
             /\ ms \in Seq([author : {"user", "agent"}, text : BOOLEAN, reasoning : BOOLEAN,
                            calls : Seq([id : Turns!Calls, name : Tools])])
             /\ \A i, j \in DOMAIN ms : \A k \in DOMAIN ms[i].calls, l \in DOMAIN ms[j].calls :
                  /\ ms[i].calls[k].id \in 1..Len(Turns!CallsOf(ms))
                  /\ i < j \/ (i = j /\ k < l) => ms[i].calls[k].id < ms[j].calls[l].id
             /\ \A m \in Turns!ToSet(ms) : m.author = "user" => m.calls = <<>>
<1> DEFINE M == OneMessage
           C == CallLists
<1>1. ASSUME ms \in Seq(M)
      PROVE  /\ DOMAIN ms = 1..Len(ms) /\ Turns!ToSet(ms) = {ms[i] : i \in 1..Len(ms)}
             /\ \A i \in 1..Len(ms) : DOMAIN ms[i].calls = 1..Len(ms[i].calls)
  <2> HIDE DEF C
  <2>1. \A m \in M : m.calls \in C
    BY DEF OneMessage, C
  <2> HIDE DEF M
  <2>2. DOMAIN ms = 1..Len(ms) /\ \A i \in 1..Len(ms) : ms[i].calls \in C
    BY <1>1, <2>1
  <2>3. \A c \in C : DOMAIN c = 1..Len(c)
    <3> DEFINE R == [id : Turns!Calls, name : Tools]
    <3> SUFFICES ASSUME NEW c \in Seq(R) PROVE DOMAIN c = 1..Len(c)
      BY DEF C, CallLists
    <3> HIDE DEF R
    <3> QED
      OBVIOUS
  <2> QED
    BY <2>2, <2>3 DEF Turns!ToSet
<1>2. Seq(M) = Seq([author : {"user", "agent"}, text : BOOLEAN, reasoning : BOOLEAN,
                    calls : Seq([id : Turns!Calls, name : Tools])])
  BY DEF OneMessage, CallLists
<1>3. CASE ms \in Seq(M)
  <2> HIDE DEF M
  <2>1. NumberedIn(ms) <=>
          \A i, j \in DOMAIN ms : \A k \in DOMAIN ms[i].calls, l \in DOMAIN ms[j].calls :
                  /\ ms[i].calls[k].id \in 1..Len(Turns!CallsOf(ms))
                  /\ i < j \/ (i = j /\ k < l) => ms[i].calls[k].id < ms[j].calls[l].id
    BY <1>1, <1>3 DEF NumberedIn, CountOf
  <2>2. UsersCallNothing(ms) <=> \A m \in Turns!ToSet(ms) : m.author = "user" => m.calls = <<>>
    BY <1>1, <1>3 DEF UsersCallNothing
  <2> QED
    BY <1>2, <1>3, <2>1, <2>2 DEF Orderly, M
<1>4. CASE ms \notin Seq(M)
  BY <1>2, <1>4 DEF Orderly
<1> QED
  BY <1>3, <1>4

(* The messages are such a list ...                                         *)
LEMMA InvMeans == Turns!Shaped /\ Turns!Numbered /\ Turns!TypeOK => Orderly(messages)
BY OrderlyMeans DEF Turns!Shaped, Turns!Numbered, Turns!TypeOK, Turns!Made

(* ... and after a step, what follows from that.                            *)
LEMMA InvMeansAfter ==
    ASSUME Orderly(messages')
    PROVE  Turns!Shaped' /\ Turns!Numbered' /\ \A m \in Turns!ToSet(messages') : m.author \in {"user", "agent"} /\ (m.author = "user" => m.calls = <<>>)
<1> DEFINE M == OneMessage
<1>1. Turns!Shaped' /\ Turns!Numbered' /\ \A m \in Turns!ToSet(messages') : m.author = "user" => m.calls = <<>>
  BY OrderlyMeans DEF Turns!Shaped, Turns!Numbered, Turns!Made
<1>2. \A m \in M : m.author \in {"user", "agent"}
  BY DEF OneMessage
<1>3. messages' \in Seq(M)
  BY DEF Orderly
<1> HIDE DEF M
<1>4. \A m \in Turns!ToSet(messages') : m \in M
  BY <1>3 DEF Turns!ToSet
<1> QED
  BY <1>1, <1>2, <1>4

(* How the calls of a list of messages are counted.                         *)
Callings(ms) == [i \in DOMAIN ms |-> ms[i].calls]
(* How the calls of a list of messages are counted.                         *)
LEMMA CallingsAre ==
    ASSUME NEW ms \in Seq(OneMessage)
    PROVE  /\ Callings(ms) \in Seq(CallLists) /\ Len(Callings(ms)) = Len(ms)
           /\ \A i \in 1..Len(ms) : Callings(ms)[i] = ms[i].calls /\ ms[i].calls \in CallLists
           /\ Turns!CallsOf(ms) = Turns!FlattenSeq(Callings(ms)) /\ Turns!CallsOf(ms) \in CallLists /\ CountOf(ms) \in Nat
<1> DEFINE M == OneMessage
           C == CallLists
           R == [id : Turns!Calls, name : Tools]
<1>1. \A m \in M : m.calls \in C
  BY DEF OneMessage
<1>2. ms \in Seq(M)
  OBVIOUS
<1> HIDE DEF M, C
<1>3. DOMAIN ms = 1..Len(ms) /\ Len(ms) \in Nat /\ \A i \in 1..Len(ms) : ms[i].calls \in C
  BY <1>1, <1>2
<1>4. Callings(ms) = [i \in 1..Len(ms) |-> ms[i].calls]
  BY <1>3 DEF Callings
<1>5. Callings(ms) \in Seq(C) /\ Len(Callings(ms)) = Len(ms) /\ \A i \in 1..Len(ms) : Callings(ms)[i] = ms[i].calls
  BY <1>3, <1>4
<1>6. C = Seq(R)
  BY DEF CallLists, C
<1> HIDE DEF R
<1>7. Turns!FlattenSeq(Callings(ms)) \in Seq(R)
  BY <1>5, <1>6, FlatConcat
<1>8. Turns!CallsOf(ms) = Turns!FlattenSeq(Callings(ms))
  BY DEF Turns!CallsOf, Callings
<1>9. Len(Turns!CallsOf(ms)) \in Nat
  BY <1>7, <1>8
<1> QED
  BY <1>3, <1>5, <1>6, <1>7, <1>8, <1>9 DEF CountOf, C

(* A message without calls is added.                                        *)
LEMMA MessageAdded ==
    ASSUME NEW ms, Orderly(ms), NEW m \in OneMessage, m.calls = <<>>
    PROVE  Orderly(Append(ms, m)) /\ CountOf(Append(ms, m)) = CountOf(ms)
<1> DEFINE ns == Append(ms, m)
           M == OneMessage
           n == Len(ms)
<1>1. ms \in Seq(M)
  BY DEF Orderly
<1>2. /\ ns \in Seq(M) /\ n \in Nat /\ Len(ns) = n + 1 /\ ns[n+1] = m /\ \A i \in 1..n : ns[i] = ms[i]
      /\ \A i \in 1..(n+1) : i = n + 1 \/ i \in 1..n
  <2>1. m \in M
    OBVIOUS
  <2> HIDE DEF M
  <2> QED
    BY <1>1, <2>1
<1> HIDE DEF ns, n
<1>3. CountOf(ns) = CountOf(ms)
  <2> DEFINE R == [id : Turns!Calls, name : Tools]
             s == Callings(ms)
             t == Callings(ns)
  <2>1. /\ s \in Seq(Seq(R)) /\ Len(s) = n /\ t \in Seq(Seq(R)) /\ Len(t) = n + 1
        /\ Turns!CallsOf(ms) = Turns!FlattenSeq(s) /\ Turns!CallsOf(ns) = Turns!FlattenSeq(t)
    BY <1>1, <1>2, CallingsAre DEF CallLists, n
  <2>2. t[n+1] = <<>> /\ \A i \in 1..n : t[i] = s[i]
    <3>1. n + 1 \in 1..Len(ns) /\ \A i \in 1..n : i \in 1..Len(ns) /\ i \in 1..Len(ms)
      BY <1>2 DEF n
    <3>2. /\ \A i \in 1..Len(ms) : s[i] = ms[i].calls
          /\ \A i \in 1..Len(ns) : t[i] = ns[i].calls
      BY <1>1, <1>2, CallingsAre
    <3> HIDE DEF s, t
    <3> QED
      BY <1>2, <3>1, <3>2
  <2> HIDE DEF R, s, t
  <2>3. n \in Nat
    BY <1>2
  <2>4. Turns!FlattenSeq(t) = Turns!FlattenSeq(s) \o t[n+1]
    BY <2>1, <2>2, <2>3, JoinedMore
  <2>5. Turns!FlattenSeq(s) \in Seq(R)
    BY <2>1, FlatConcat
  <2>6. Turns!FlattenSeq(t) = Turns!FlattenSeq(s)
    BY <2>2, <2>4, <2>5, ConcatEmptySeq
  <2> QED
    BY <2>1, <2>6 DEF CountOf
<1>4. Len(<<>>) = 0 /\ 1..0 = {}
  OBVIOUS
<1>5. NumberedIn(ns)
  <2>1. NumberedIn(ms)
    BY DEF Orderly
  <2> SUFFICES ASSUME NEW i \in 1..Len(ns), NEW j \in 1..Len(ns), NEW k \in 1..Len(ns[i].calls), NEW l \in 1..Len(ns[j].calls)
               PROVE  /\ ns[i].calls[k].id \in 1..CountOf(ns)
                      /\ i < j \/ (i = j /\ k < l) => ns[i].calls[k].id < ns[j].calls[l].id
    BY DEF NumberedIn
  <2>2. i # n + 1 /\ j # n + 1
    BY <1>2, <1>4
  <2>3. i \in 1..Len(ms) /\ j \in 1..Len(ms) /\ ns[i] = ms[i] /\ ns[j] = ms[j]
    BY <1>2, <2>2 DEF n
  <2> QED
    BY <1>3, <2>1, <2>3 DEF NumberedIn
<1>6. UsersCallNothing(ns)
  BY <1>2 DEF Orderly, UsersCallNothing, n
<1> QED
  BY <1>2, <1>3, <1>5, <1>6 DEF Orderly, ns

(* The last message is changed; a call that is added has the next number.   *)
Calling(ms, m, call) ==
    \/ m.calls = ms[Len(ms)].calls
    \/ m.calls = Append(ms[Len(ms)].calls, call) /\ call.id = CountOf(ms) + 1
(* The last message is changed: it has the same calls, or one more.         *)
LEMMA LastChanged ==
    ASSUME NEW ms, Orderly(ms), ms # <<>>, NEW m \in OneMessage, m.author = "agent", NEW call,
           Calling(ms, m, call)
    PROVE  Orderly([ms EXCEPT ![Len(ms)] = m])
<1> DEFINE n == Len(ms)
           ns == [ms EXCEPT ![n] = m]
           M == OneMessage
           old == ms[n].calls
           more == m.calls
<1>1. ms \in Seq(M) /\ NumberedIn(ms) /\ UsersCallNothing(ms) /\ m \in M
  BY DEF Orderly
<1>2. n \in Nat /\ n # 0 /\ n \in 1..n /\ DOMAIN ms = 1..n
  <2> HIDE DEF M
  <2> QED
    BY <1>1
<1>3. /\ ns \in Seq(M) /\ Len(ns) = n /\ ns[n] = m /\ \A i \in 1..n : i # n => ns[i] = ms[i]
  <2> HIDE DEF M, n
  <2>1. ns \in [1..n -> M] /\ \A i \in 1..n : ns[i] = IF i = n THEN m ELSE ms[i]
    <3>1. \A i \in 1..n : ms[i] \in M
      BY <1>1 DEF n
    <3>2. ns = [i \in 1..n |-> IF i = n THEN m ELSE ms[i]]
      BY <1>2
    <3> HIDE DEF ns
    <3> QED
      BY <1>1, <3>1, <3>2
  <2> HIDE DEF ns
  <2> QED
    BY <1>2, <2>1
<1> HIDE DEF ns, n
<1>4. old \in CallLists /\ more \in CallLists
  <2>1. \A x \in M : x.calls \in CallLists
    BY DEF OneMessage
  <2>2. ms[n] \in M
    BY <1>1, <1>2 DEF n
  <2> QED
    BY <1>1, <2>1, <2>2
<1>5. /\ Len(old) \in Nat
      /\ more = old \/ /\ Len(more) = Len(old) + 1 /\ more[Len(old) + 1].id = CountOf(ms) + 1
                       /\ \A k \in 1..Len(old) : more[k] = old[k]
  <2> DEFINE R == [id : Turns!Calls, name : Tools]
  <2>1. old \in Seq(R) /\ more \in Seq(R)
    BY <1>4 DEF CallLists
  <2>2. more = old \/ (more = Append(old, call) /\ call.id = CountOf(ms) + 1)
    BY DEF n, Calling
  <2> HIDE DEF R, old, more
  <2> QED
    BY <2>1, <2>2
<1>6. CountOf(ms) \in Nat /\ CountOf(ns) = CountOf(ms) + (Len(more) - Len(old))
  <2> DEFINE R == [id : Turns!Calls, name : Tools]
             s == Callings(ms)
             t == Callings(ns)
             p == n - 1
             q == SubSeq(s, 1, p)
  <2>1. /\ s \in Seq(Seq(R)) /\ Len(s) = n /\ t \in Seq(Seq(R)) /\ Len(t) = n
        /\ Turns!CallsOf(ms) = Turns!FlattenSeq(s) /\ Turns!CallsOf(ns) = Turns!FlattenSeq(t)
        /\ CountOf(ms) \in Nat
    BY <1>1, <1>3, CallingsAre DEF CallLists, n
  <2>2. s[n] = old /\ t[n] = more /\ \A i \in 1..n : i # n => t[i] = s[i]
    <3>1. /\ \A i \in 1..n : s[i] = ms[i].calls
          /\ \A i \in 1..n : t[i] = ns[i].calls
      BY <1>1, <1>3, CallingsAre DEF n
    <3> HIDE DEF s, t, old, more
    <3> QED
      BY <1>2, <1>3, <3>1 DEF old, more
  <2>3. p \in Nat /\ p + 1 = n /\ \A i \in 1..p : i \in 1..n /\ i # n
    BY <1>2
  <2> DEFINE V == Seq(R)
  <2>4. q \in Seq(V) /\ Len(q) = p /\ \A i \in 1..p : q[i] = s[i]
    <3>1. s \in Seq(V) /\ Len(s) = p + 1
      BY <2>1, <2>3
    <3> HIDE DEF V, s, p
    <3> QED
      BY <2>3, <3>1
  <2>5. \A i \in 1..p : t[i] = q[i]
    BY <2>2, <2>3, <2>4
  <2>6. old \in V /\ more \in V /\ t \in Seq(V) /\ s \in Seq(V)
    BY <1>4, <2>1 DEF CallLists
  <2> HIDE DEF s, t, p, q, R, old, more
  <2>13. /\ q \in Seq(Seq(R)) /\ s \in Seq(Seq(R)) /\ t \in Seq(Seq(R))
         /\ Len(q) = p /\ Len(s) = p + 1 /\ Len(t) = p + 1
         /\ (\A i \in 1..p : s[i] = q[i]) /\ (\A i \in 1..p : t[i] = q[i])
    BY <2>1, <2>3, <2>4, <2>5
  <2>7. Turns!FlattenSeq(s) = Turns!FlattenSeq(q) \o s[p+1]
    BY <2>3, <2>13, JoinedMore
  <2>8. Turns!FlattenSeq(t) = Turns!FlattenSeq(q) \o t[p+1]
    BY <2>3, <2>13, JoinedMore
  <2>9. Turns!FlattenSeq(q) \in V
    BY <2>4, FlatConcat
  <2>10. Len(Turns!FlattenSeq(q) \o old) = Len(Turns!FlattenSeq(q)) + Len(old) /\ Len(Turns!FlattenSeq(q) \o more) = Len(Turns!FlattenSeq(q)) + Len(more)
    BY <2>6, <2>9
  <2>11. Len(Turns!FlattenSeq(q)) \in Nat /\ Len(old) \in Nat /\ Len(more) \in Nat
    BY <2>6, <2>9
  <2>12. CountOf(ms) = Len(Turns!FlattenSeq(q)) + Len(old) /\ CountOf(ns) = Len(Turns!FlattenSeq(q)) + Len(more)
    BY <2>1, <2>2, <2>3, <2>7, <2>8, <2>10 DEF CountOf
  <2> QED
    BY <2>11, <2>12
<1> HIDE DEF old, more
<1> DEFINE New(i, k) == i = n /\ k = Len(old) + 1
<1>7. ASSUME NEW i \in 1..n, NEW k \in 1..Len(ns[i].calls)
      PROVE  \/ /\ New(i, k) /\ ns[i].calls[k].id = CountOf(ms) + 1 /\ CountOf(ns) = CountOf(ms) + 1
             \/ /\ ~New(i, k) /\ k \in 1..Len(ms[i].calls) /\ ns[i].calls[k] = ms[i].calls[k]
                /\ ns[i].calls[k].id \in 1..CountOf(ms)
  <2>1. CASE i # n
    <3>1. ns[i] = ms[i] /\ k \in 1..Len(ms[i].calls)
      BY <1>3, <1>7, <2>1
    <3>2. ms[i].calls[k].id \in 1..CountOf(ms)
      BY <1>1, <3>1 DEF NumberedIn, n
    <3> QED
      BY <2>1, <3>1, <3>2
  <2>2. CASE i = n
    <3>1. ns[i].calls = more /\ ms[i].calls = old
      BY <1>3, <2>2 DEF more, old
    <3>2. CASE New(i, k)
      <4>1. Len(more) = Len(old) + 1 /\ more[Len(old) + 1].id = CountOf(ms) + 1
        <5>1. more # old
          BY <1>5, <1>7, <3>1, <3>2
        <5> QED
          BY <1>5, <5>1
      <4> QED
        BY <1>5, <1>6, <3>1, <3>2, <4>1
    <3>3. CASE ~New(i, k)
      <4>1. k \in 1..Len(old) /\ more[k] = old[k]
        BY <1>5, <1>7, <2>2, <3>1, <3>3
      <4>2. old[k].id \in 1..CountOf(ms)
        BY <1>1, <2>2, <3>1, <4>1 DEF NumberedIn, n
      <4> QED
        BY <3>1, <3>3, <4>1, <4>2
    <3> QED
      BY <3>2, <3>3
  <2> QED
    BY <2>1, <2>2
<1>8. ASSUME NEW i \in 1..n, NEW j \in 1..n, NEW k \in 1..Len(ns[i].calls), NEW l \in 1..Len(ns[j].calls)
      PROVE  /\ ns[i].calls[k].id \in 1..CountOf(ns)
             /\ i < j \/ (i = j /\ k < l) => ns[i].calls[k].id < ns[j].calls[l].id
  <2>1. ns[i].calls[k].id \in 1..CountOf(ns)
    <3>1. CountOf(ns) >= CountOf(ms) /\ CountOf(ns) \in Nat
      BY <1>5, <1>6
    <3>2. CASE ns[i].calls[k].id = CountOf(ms) + 1 /\ CountOf(ns) = CountOf(ms) + 1
      BY <1>6, <3>2
    <3>3. CASE ns[i].calls[k].id \in 1..CountOf(ms)
      BY <1>6, <3>1, <3>3
    <3> QED
      BY <1>7, <3>2, <3>3
  <2>2. ASSUME i < j \/ (i = j /\ k < l) PROVE ns[i].calls[k].id < ns[j].calls[l].id
    <3>1. CASE New(i, k)
      <4>1. i = j /\ k < l /\ l \in 1..Len(more)
        BY <1>2, <1>3, <2>2, <3>1 DEF more
      <4>2. Len(more) <= Len(old) + 1 /\ Len(old) \in Nat
        BY <1>5
      <4> QED
        BY <1>5, <3>1, <4>1, <4>2
    <3>2. CASE ~New(i, k) /\ New(j, l)
      BY <1>6, <1>7, <3>2
    <3>3. CASE ~New(i, k) /\ ~New(j, l)
      <4>1. /\ k \in 1..Len(ms[i].calls) /\ ns[i].calls[k] = ms[i].calls[k]
            /\ l \in 1..Len(ms[j].calls) /\ ns[j].calls[l] = ms[j].calls[l]
        BY <1>7, <3>3
      <4> QED
        BY <1>1, <2>2, <4>1 DEF NumberedIn, n
    <3> QED
      BY <3>1, <3>2, <3>3
  <2> QED
    BY <2>1, <2>2
<1>9. NumberedIn(ns)
  BY <1>3, <1>8 DEF NumberedIn
<1>10. UsersCallNothing(ns)
  <2>1. \A i \in 1..n : ns[i].author = "user" => ns[i].calls = <<>>
    BY <1>1, <1>3 DEF UsersCallNothing, n
  <2> QED
    BY <1>3, <2>1 DEF UsersCallNothing
<1> QED
  BY <1>3, <1>9, <1>10 DEF Orderly, ns, n

(* The invariant of the transcript holds at first.                          *)
LEMMA TurnsInit == Turns!Init => Turns!Inv
<1> SUFFICES ASSUME Turns!Init PROVE Turns!Inv
  OBVIOUS
<1>1. Turns!TypeOK
  BY DEF Turns!Init, Turns!TypeOK, Turns!NoSubagent, Turns!ToSet
<1>2. Turns!Shaped
  <2> DEFINE M == [author : {"user", "agent"}, text : BOOLEAN, reasoning : BOOLEAN,
                   calls : Seq([id : Turns!Calls, name : Tools])]
  <2>1. <<>> \in Seq(M)
    <3> HIDE DEF M
    <3> QED
      OBVIOUS
  <2> QED
    BY <2>1 DEF Turns!Init, Turns!Shaped
<1>3. Turns!Numbered
  <2>1. DOMAIN messages = {}
    BY DEF Turns!Init
  <2> QED
    BY <2>1 DEF Turns!Numbered
<1>4. Turns!Discovered
  BY DEF Turns!Init, Turns!Discovered, Turns!NoSubagent, Turns!Calls
<1> QED
  BY <1>1, <1>2, <1>3, <1>4 DEF Turns!Inv

(* The last of the messages is a message.                                   *)
LEMMA LastMessage ==
    ASSUME NEW ms \in Seq(OneMessage), ms # <<>>
    PROVE  Turns!Last(ms) = ms[Len(ms)] /\ ms[Len(ms)] \in OneMessage
<1> DEFINE M == OneMessage
<1>1. ms \in Seq(M)
  OBVIOUS
<1> HIDE DEF M
<1>2. ms[Len(ms)] \in M
  BY <1>1
<1> QED
  BY <1>2 DEF M, Turns!Last

(* Every action keeps what the messages are: calls are numbered as they are *)
(* made.                                                                    *)
LEMMA MessagesStep ==
    ASSUME Turns!Inv, [Turns!Next]_transcriptVars
    PROVE  Orderly(messages')
<1>1. Orderly(messages) /\ messages \in Seq(OneMessage)
  BY InvMeans DEF Turns!Inv, Orderly
<1>2. <<>> \in CallLists
  <2> DEFINE R == [id : Turns!Calls, name : Tools]
  <2>1. <<>> \in Seq(R)
    <3> HIDE DEF R
    <3> QED
      OBVIOUS
  <2> QED
    BY <2>1 DEF CallLists
<1>3. ASSUME NEW text \in BOOLEAN, Turns!Add(Turns!User(text)) PROVE Orderly(messages')
  <2>1. Turns!User(text) \in OneMessage /\ Turns!User(text).calls = <<>>
    BY <1>2 DEF Turns!User, OneMessage
  <2> QED
    BY <1>1, <1>3, <2>1, MessageAdded DEF Turns!Add
<1>4. ASSUME NEW reasoning \in BOOLEAN, Turns!Add(Turns!Agent(reasoning)) PROVE Orderly(messages')
  <2>1. Turns!Agent(reasoning) \in OneMessage /\ Turns!Agent(reasoning).calls = <<>>
    BY <1>2 DEF Turns!Agent, OneMessage
  <2> QED
    BY <1>1, <1>4, <2>1, MessageAdded DEF Turns!Add
<1>5. CASE Turns!Speaks
  <2> DEFINE old == messages[Len(messages)]
             m == [old EXCEPT !.text = TRUE]
             n == Len(messages)
  <2>1. messages # <<>> /\ old.author = "agent" /\ messages' = [messages EXCEPT ![n].text = TRUE] /\ old \in OneMessage
    BY <1>1, <1>5, LastMessage DEF Turns!Speaks
  <2>2. messages' = [messages EXCEPT ![n] = m]
    BY <2>1
  <2> HIDE DEF old
  <2>3. m \in OneMessage /\ m.author = "agent" /\ m.calls = old.calls
    BY <2>1 DEF OneMessage
  <2> HIDE DEF m
  <2>4. Calling(messages, m, <<>>)
    <3>1. m.calls = messages[Len(messages)].calls
      BY <2>3 DEF old
    <3> QED
      BY <3>1 DEF Calling
  <2>5. Orderly([messages EXCEPT ![n] = m])
    BY <1>1, <2>1, <2>3, <2>4, LastChanged
  <2> QED
    BY <2>2, <2>5
<1>6. ASSUME NEW name \in Tools, Turns!CallsTool(name) PROVE Orderly(messages')
  <2> DEFINE old == messages[Len(messages)]
             call == [id |-> Turns!Made + 1, name |-> name]
             more == Append(old.calls, call)
             m == [old EXCEPT !.calls = more]
             n == Len(messages)
  <2>1. /\ messages # <<>> /\ old.author = "agent" /\ messages' = [messages EXCEPT ![n].calls = more]
        /\ old \in OneMessage /\ Turns!Made < MaxCalls
    BY <1>1, <1>6, LastMessage DEF Turns!CallsTool
  <2>2. messages' = [messages EXCEPT ![n] = m]
    BY <2>1
  <2>3. Turns!Made = CountOf(messages) /\ Turns!Made \in Nat
    BY <1>1, CallingsAre DEF Turns!Made, CountOf
  <2>4. call \in [id : Turns!Calls, name : Tools] /\ call.id = CountOf(messages) + 1
    BY <2>1, <2>3, BoundAssumption DEF Turns!Calls
  <2>5. more \in CallLists
    <3> DEFINE R == [id : Turns!Calls, name : Tools]
    <3>1. old.calls \in Seq(R) /\ call \in R
      BY <2>1, <2>4 DEF OneMessage, CallLists
    <3> HIDE DEF R, call, old
    <3>2. more \in Seq(R)
      BY <3>1
    <3> QED
      BY <3>2 DEF CallLists, R
  <2> HIDE DEF old, more
  <2>6. m \in OneMessage /\ m.author = "agent" /\ m.calls = more
    BY <2>1, <2>5 DEF OneMessage
  <2>7. m.calls = Append(messages[Len(messages)].calls, call)
    BY <2>6 DEF more, old
  <2> HIDE DEF m, call
  <2>8. Calling(messages, m, call)
    BY <2>4, <2>7 DEF Calling
  <2>9. Orderly([messages EXCEPT ![n] = m])
    BY <1>1, <2>1, <2>6, <2>8, LastChanged
  <2> QED
    BY <2>2, <2>9
<1>7. ASSUME UNCHANGED messages PROVE Orderly(messages')
  BY <1>1, <1>7
<1> QED
  BY <1>3, <1>4, <1>5, <1>6, <1>7 DEF Turns!Next, Turns!Starts, Turns!Reload, Turns!Returns, Turns!CallEnds,
      Turns!SubagentEnds, transcriptVars

(* Every action keeps Discovered: a subagent is discovered running, and a   *)
(* reload forgets it.                                                       *)
LEMMA DiscoveredStep ==
    ASSUME Turns!Inv, [Turns!Next]_transcriptVars
    PROVE  Turns!Discovered'
<1>1. Turns!Discovered
  BY DEF Turns!Inv
<1>2. CASE UNCHANGED subagent
  BY <1>1, <1>2 DEF Turns!Discovered
<1>3. CASE Turns!Starts
  <2>1. subagent' = subagent \/ subagent'.status = "running"
    BY <1>3 DEF Turns!Starts
  <2> QED
    BY <1>1, <2>1 DEF Turns!Discovered
<1>4. CASE Turns!Reload
  BY <1>4 DEF Turns!Reload, Turns!Discovered, Turns!NoSubagent, Turns!Calls
<1>5. ASSUME NEW outcome \in Outcomes, Turns!SubagentEnds(outcome) PROVE Turns!Discovered'
  <2>1. subagent.status = "running"
        /\ subagent' = [subagent EXCEPT !.status = IF outcome = "error" THEN "error" ELSE "complete"]
    BY <1>5 DEF Turns!SubagentEnds
  <2>2. subagent'.status \in {"error", "complete", "running"}
    BY <2>1
  <2> QED
    BY <2>2 DEF Turns!Discovered
<1> QED
  BY <1>2, <1>3, <1>4, <1>5 DEF Turns!Next, Turns!Add, Turns!Speaks, Turns!CallsTool, Turns!Returns, Turns!CallEnds,
      transcriptVars

(* Every action of the transcript keeps its invariant.                      *)
LEMMA TurnsStep ==
    ASSUME Turns!Inv, [Turns!Next]_transcriptVars
    PROVE  Turns!Inv'
<1>1. Turns!Shaped' /\ Turns!Numbered' /\ \A m \in Turns!ToSet(messages') : m.author \in {"user", "agent"} /\ (m.author = "user" => m.calls = <<>>)
  BY MessagesStep, InvMeansAfter
<1>2. Turns!Discovered'
  BY DiscoveredStep
<1> DEFINE OtherTypes == /\ assembled \in [Turns!Calls -> {"none", "running", "finished", "error"}]
                   /\ results \in [Turns!Calls -> {"none", "ok", "error"}] /\ artifacts \subseteq Turns!Calls
                   /\ subagent.status \in {"none", "running", "complete", "error"}
<1>3. OtherTypes
  BY DEF Turns!Inv, Turns!TypeOK
<1>4. OtherTypes'
  <2>1. CASE UNCHANGED <<assembled, results, artifacts, subagent>>
    BY <1>3, <2>1
  <2>2. CASE Turns!Starts
    BY <1>3, <2>2 DEF Turns!Starts
  <2>3. CASE Turns!Reload
    BY <1>3, <2>3 DEF Turns!Reload, Turns!NoSubagent
  <2>4. ASSUME NEW c \in Turns!Calls, NEW outcome \in Outcomes, Turns!Returns(c, outcome) PROVE OtherTypes'
    BY <1>3, <2>4 DEF Turns!Returns
  <2>5. ASSUME NEW c \in Turns!Calls, NEW outcome \in Outcomes, Turns!CallEnds(c, outcome) PROVE OtherTypes'
    BY <1>3, <2>5 DEF Turns!CallEnds
  <2>6. ASSUME NEW outcome \in Outcomes, Turns!SubagentEnds(outcome) PROVE OtherTypes'
    <3>1. subagent.status = "running"
          /\ subagent' = [subagent EXCEPT !.status = IF outcome = "error" THEN "error" ELSE "complete"]
      BY <2>6 DEF Turns!SubagentEnds
    <3>2. subagent'.status \in {"error", "complete", "running"}
      BY <3>1
    <3> QED
      BY <1>3, <2>6, <3>2 DEF Turns!SubagentEnds
  <2> QED
    BY <2>1, <2>2, <2>3, <2>4, <2>5, <2>6 DEF Turns!Next, Turns!Add, Turns!Speaks, Turns!CallsTool, transcriptVars
<1> QED
  BY <1>1, <1>2, <1>4 DEF Turns!Inv, Turns!TypeOK

(* For all messages, calls and outcomes, live or after any reload, and in   *)
(* whatever order the tool messages and the ends of calls and subagents     *)
(* come: TranscriptComplete.  What users                                    *)
(* sent, the agent's reasoning, its calls and of its texts the last one of  *)
(* every turn are on the page once and in their order, under distinct keys, *)
(* with no two groups of one kind side by side, and nothing is in progress  *)
(* once every call has returned and what was seen to start has ended.       *)
THEOREM TranscriptAlwaysComplete == Spec => []TranscriptComplete
<1> DEFINE I == focus = "transcript" => Turns!Inv
<1>1. Init => I
  BY TurnsInit DEF Init
<1>2. I /\ [Next]_vars => I'
  BY OneEditor, TurnsStep
<1>3. I => TranscriptComplete
  BY ItemsAreComplete, ItemsTellAll DEF TranscriptComplete
<1> QED
  BY <1>1, <1>2, <1>3, PTL DEF Spec

----------------------------------------------------------------------------
(* All thirteen parts                                                       *)

(* For all constants: every part keeps its types.                           *)
THEOREM TypeCorrect == Spec => []TypeOK
<1> DEFINE I == /\ focus = "tree" => Tree!Inv
                /\ focus = "git" => Git!Inv
                /\ focus = "layout" => Layout!Inv
                /\ focus = "profile" => Profile!Inv
                /\ focus = "team" => Team!Inv
                /\ focus = "access" => Access!Inv
                /\ focus = "azure" => Azure!Inv
                /\ focus = "login" => Login!Inv
                /\ focus = "repos" => RepoEditors!Inv
                /\ focus = "auto" => Automation!Inv
                /\ focus = "composer" => Compose!Inv
                /\ focus = "bar" => Bar!Inv
                /\ focus = "transcript" => Turns!Inv
<1>1. Init => I
  BY TreeInit, GitInit, LayoutInit, ProfileInit, TeamInit, AccessInit, AzureInit, LoginInit, RepoEditorsInit,
      AutomationInit, ComposeInit, BarInit, TurnsInit DEF Init
<1>2. I /\ [Next]_vars => I'
  <2> SUFFICES ASSUME I, [Next]_vars PROVE I'
    OBVIOUS
  <2>1. /\ focus = "tree" => Tree!Inv'
        /\ focus = "git" => Git!Inv'
        /\ focus = "layout" => Layout!Inv'
        /\ focus = "profile" => Profile!Inv'
        /\ focus = "team" => Team!Inv'
        /\ focus = "access" => Access!Inv'
        /\ focus = "azure" => Azure!Inv'
        /\ focus = "login" => Login!Inv'
        /\ focus = "repos" => RepoEditors!Inv'
        /\ focus = "composer" => Compose!Inv'
    BY OnePart, TreeStep, GitStep, LayoutStep, ProfileStep, TeamStep, AccessStep, AzureStep, LoginStep,
        RepoEditorsStep, ComposeStep
  <2>2. /\ focus = "auto" => Automation!Inv'
        /\ focus = "bar" => Bar!Inv'
        /\ focus = "transcript" => Turns!Inv'
    BY OneEditor, AutomationStep, BarStep, TurnsStep
  <2> QED
    BY <2>1, <2>2, OnePart
<1>3. I => TypeOK
  BY DEF TypeOK, Tree!Inv, Git!Inv, Layout!Inv, Profile!Inv, Team!Inv, Access!Inv, Azure!Inv, Login!Inv,
      RepoEditors!Inv, Automation!Inv, Compose!Inv, Bar!Inv, Turns!Inv
<1> HIDE DEF I
<1> QED
  BY <1>1, <1>2, <1>3, PTL DEF Spec

=============================================================================
