------------------------------- MODULE FileTree -------------------------------
(***************************************************************************)
(* The changed files of the ported git panel: the tree beside the diffs    *)
(* and the cards with the diffs (SourceControlTile.tsx).  The panel keeps  *)
(* the loaded diffs and the selected path; the tree component keeps which  *)
(* directories are expanded, and loses that when it is unmounted.  A path  *)
(* is a sequence of names, and names are numbers in the order that         *)
(* localeCompare gives them.  Effects run before the next event, so they   *)
(* are part of the action that causes them.                                *)
(***************************************************************************)
EXTENDS Integers, Sequences, FiniteSets, SequencesExt

CONSTANTS
    Paths,      \* paths of files that may change
    NoPath      \* the null of selectedDiffPath

VARIABLES
    diffs,      \* fileDiffs: paths with a loaded diff
    listed,     \* totalChanges > 0
    explorer,   \* fileExplorerOpen
    selected,   \* selectedDiffPath
    expanded,   \* expandedPaths of the mounted tree
    folded,     \* cards that are not expanded
    toggled     \* ghost: a directory was toggled since a selection was revealed

vars == <<diffs, listed, explorer, selected, expanded, folded, toggled>>

ProperPrefix(p, q) == IsStrictPrefix(p, q)
NodesOn(p) == Prefixes(p) \ {<<>>}
Less(p, q) ==
    \/ ProperPrefix(p, q)
    \/ \E i \in 1..Len(p) \cap 1..Len(q) :
          p[i] < q[i] /\ \A j \in 1..(i - 1) : p[j] = q[j]

----------------------------------------------------------------------------
(* insertTreeNode for one path after another: the nodes on the way are      *)
(* found or made, the last one gets the diff.  A tree is the set of its     *)
(* nodes' paths and of those with a diff.                                   *)
buildFileTree(D) == [nodes |-> UNION {NodesOn(p) : p \in D}, diff |-> D]

Children(tree, dir) == {n \in tree.nodes : Len(n) = Len(dir) + 1 /\ ProperPrefix(dir, n)}
isDirectory(tree, n) == Children(tree, n) # {} /\ n \notin tree.diff

(* Mutant: sorted by name alone.                                            *)
MutBefore(tree, a, b) == Last(a) < Last(b)

(* sortNodes: directories first, then by name.                              *)
Before(tree, a, b) ==
    IF isDirectory(tree, a) # isDirectory(tree, b) THEN isDirectory(tree, a) ELSE Last(a) < Last(b)
sortNodes(tree, children) ==
    CHOOSE s \in SetToSeqs(children) : \A i, j \in DOMAIN s : i < j => Before(tree, s[i], s[j])

(* TreeNode: the rows below a directory; an expanded directory is followed  *)
(* by the rows below it.                                                    *)
RowsBelow(tree, open, dir) ==
    LET Below[d \in tree.nodes \cup {<<>>}] ==
          LET children == sortNodes(tree, Children(tree, d))
              Row(n) == <<n>> \o IF isDirectory(tree, n) /\ n \in open THEN Below[n] ELSE <<>>
          IN FlattenSeq([i \in DOMAIN children |-> Row(children[i])])
    IN Below[dir]
Rows(open) == RowsBelow(buildFileTree(diffs), open, <<>>)

getAncestorPaths(p) == NodesOn(p) \ {p}

(* The diffs are sorted; of diffPaths only the first is looked at.          *)
FirstPath(D) == CHOOSE p \in D : \A q \in D \ {p} : Less(p, q)
effectiveSelectedDiffPath(sel, D) ==
    IF sel \in D THEN sel ELSE IF D = {} THEN NoPath ELSE FirstPath(D)
Effective == effectiveSelectedDiffPath(selected, diffs)

MountedIf(some, open) == some /\ open
Mounted == MountedIf(listed, explorer)

----------------------------------------------------------------------------
Init ==
    /\ diffs = {} /\ listed = FALSE
    /\ explorer = TRUE /\ selected = NoPath
    /\ expanded = {} /\ folded = {} /\ toggled = FALSE

(* Mutant: the ancestors are revealed when the tree is mounted only.        *)
MutReveal(base) ==
    LET new == effectiveSelectedDiffPath(selected', diffs') IN
    IF MountedIf(listed', explorer') /\ new # NoPath /\ ~Mounted
      THEN expanded' = base \cup getAncestorPaths(new) /\ toggled' = FALSE
      ELSE expanded' = base /\ UNCHANGED toggled

(* The effect on [selectedPath]: on mounting and when the selection is      *)
(* another one, its ancestors are expanded.  An unmounted tree has no state.*)
Reveal(base) ==
    LET new == effectiveSelectedDiffPath(selected', diffs')
        runs == MountedIf(listed', explorer') /\ new # NoPath /\ (~Mounted \/ new # Effective)
    IN IF runs
         THEN expanded' = base \cup getAncestorPaths(new) /\ toggled' = FALSE
         ELSE expanded' = base /\ UNCHANGED toggled

(* Mutant: a card keeps its fold after it is gone.                          *)
MutLoad(D, some) ==
    /\ (D # {} => some)
    /\ diffs' = D /\ listed' = some
    /\ UNCHANGED <<explorer, selected, folded>>
    /\ Reveal(IF some THEN expanded ELSE {})

(* A refresh brings entries and then diffs; a poll only entries.  Cards     *)
(* that are not shown any more forget that they were folded.                *)
Load(D, some) ==
    /\ (D # {} => some)
    /\ diffs' = D /\ listed' = some
    /\ UNCHANGED <<explorer, selected>>
    /\ folded' = IF some THEN folded \cap D ELSE {}
    /\ Reveal(IF some THEN expanded ELSE {})

PollEntries(some) ==
    /\ listed' = some
    /\ UNCHANGED <<diffs, explorer, selected>>
    /\ folded' = IF some THEN folded ELSE {}
    /\ Reveal(IF some THEN expanded ELSE {})

ToggleExplorer ==
    /\ listed
    /\ explorer' = ~explorer
    /\ UNCHANGED <<diffs, listed, selected, folded>>
    /\ Reveal({})

(* A click on a row: a directory is toggled, a file selected.               *)
ToggleDirectory(n) ==
    /\ Mounted /\ n \in ToSet(Rows(expanded)) /\ isDirectory(buildFileTree(diffs), n)
    /\ expanded' = SymDiff(expanded, {n})
    /\ toggled' = TRUE
    /\ UNCHANGED <<diffs, listed, explorer, selected, folded>>

SelectFile(n) ==
    /\ Mounted /\ n \in ToSet(Rows(expanded)) /\ ~isDirectory(buildFileTree(diffs), n)
    /\ selected' = n
    /\ UNCHANGED <<diffs, listed, explorer, folded>>
    /\ Reveal(expanded)

(* A click on a card's head selects it and folds or unfolds it.             *)
ClickCard(p) ==
    /\ listed /\ p \in diffs
    /\ selected' = p
    /\ folded' = SymDiff(folded, {p})
    /\ UNCHANGED <<diffs, listed, explorer>>
    /\ Reveal(expanded)

Next ==
    \/ \E D \in SUBSET Paths, some \in BOOLEAN : Load(D, some)
    \/ \E some \in BOOLEAN : PollEntries(some)
    \/ ToggleExplorer
    \/ \E n \in buildFileTree(diffs).nodes : ToggleDirectory(n) \/ SelectFile(n)
    \/ \E p \in Paths : ClickCard(p)

Spec == Init /\ [][Next]_vars

----------------------------------------------------------------------------
Dirs == UNION {getAncestorPaths(p) : p \in Paths}
TypeOK ==
    /\ diffs \subseteq Paths /\ listed \in BOOLEAN /\ explorer \in BOOLEAN
    /\ selected \in Paths \cup {NoPath}
    /\ expanded \subseteq Dirs
    /\ folded \subseteq diffs
    /\ toggled \in BOOLEAN

(* A file below a path that itself has a diff (a file replaced by a         *)
(* directory) has no row: such a node is no directory for the tree.         *)
Shadowed(p) == \E q \in diffs : ProperPrefix(q, p)

(* Selecting a file on a card shows its row: unless the user has toggled a  *)
(* directory since, every ancestor of the selected file is expanded, over   *)
(* reloads that change the selection and unmounting of the tree.            *)
SelectionRevealed ==
    Mounted /\ ~toggled /\ Effective # NoPath /\ ~Shadowed(Effective) => Effective \in ToSet(Rows(expanded))

(* With everything expanded each changed file that is not shadowed has one  *)
(* row, each directory one row before those of its files, and the           *)
(* directories of a level come before its files.                            *)
RowsComplete ==
    LET rows == Rows(Dirs)
        files == {p \in diffs : ~Shadowed(p)}
        dirs == {d \in UNION {getAncestorPaths(p) : p \in files} : d \notin diffs}
    IN /\ IsInjective(rows) /\ ToSet(rows) = files \cup dirs
       /\ \A i, j \in DOMAIN rows :
             /\ ProperPrefix(rows[i], rows[j]) => i < j
             /\ Front(rows[i]) = Front(rows[j]) /\ rows[i] \in dirs /\ rows[j] \in files => i < j

(* Why a selection is revealed: the directories above it are expanded; only *)
(* a click on a directory folds one of them, until the next selection.      *)
Revealed == Mounted /\ ~toggled /\ Effective # NoPath => getAncestorPaths(Effective) \subseteq expanded

Inv == TypeOK /\ Revealed
=============================================================================
