------------------------------ MODULE Composer ------------------------------
(***************************************************************************)
(* The prompt bar of a thread (CloudPromptBar.tsx): the draft and its      *)
(* images, the rows of the queued follow-ups with their menu, the overlay  *)
(* for dragged files and the button that sends or stops.  What the bar     *)
(* waits for goes on while the user does other things, and is finished     *)
(* with the values of the render it was started from.                      *)
(***************************************************************************)
EXTENDS Integers, FiniteSets

CONSTANTS
    Queued,     \* follow-ups that are queued at first, <<k, 0>> with k below 0
    MaxDrafts,  \* bound on drafts; they are 1..MaxDrafts
    MaxImages,  \* MAX_IMAGE_COUNT
    MaxClicks   \* bound on what the user does

VARIABLES
    value,      \* the draft in the box, 0 for none
    typed,      \* drafts typed so far
    images,     \* pendingImages: how many
    reading,    \* addFiles calls on their way: how many images each has
    pointer,    \* of a drag: 0 outside, 1 over the bar, 2 over a part of it
    leaving,    \* the browser has still to fire dragleave
    dragDepth, isDragOver,
    queuedMenuOpen, \* a follow-up, or NoRow
    actions,    \* actions on queued follow-ups on their way
    sends,      \* messages on their way
    run,        \* a run is active (stream.isLoading, busy)
    queue,      \* the queued follow-ups, by draft and how often it had been sent
    stopping,   \* handleStop: "no", "clearing" or "stopping"
    before,     \* ghost: the queue when stop was pressed
    kept,       \* ghost: that queue could not be cleared
    resumed,    \* ghost: stopping has started a follow-up of that queue
    sent,       \* ghost: how often each draft, or none with images, was sent
    raced,      \* ghost: drafts sent by Enter while they were to replace a follow-up
    clicks

draft == <<value, typed, images, reading>>
drag == <<pointer, leaving, dragDepth, isDragOver>>
rows == <<queuedMenuOpen, actions>>
runs == <<run, queue, stopping, before, kept, resumed>>
ghosts == <<sent, raced>>
vars == <<draft, drag, rows, sends, runs, ghosts, clicks>>

Drafts == 1..MaxDrafts
NoRow == <<0, 0>>
Click == clicks < MaxClicks /\ clicks' = clicks + 1

Init ==
    /\ value = 0 /\ typed = 0 /\ images = 0 /\ reading = {}
    /\ pointer = 0 /\ leaving = FALSE /\ dragDepth = 0 /\ isDragOver = FALSE
    /\ queuedMenuOpen = NoRow /\ actions = {}
    /\ sends = {}
    /\ run = TRUE /\ queue = Queued /\ stopping = "no" /\ before = {} /\ kept = FALSE /\ resumed = FALSE
    /\ sent = [d \in 0..MaxDrafts |-> 0] /\ raced = {} /\ clicks = 0

----------------------------------------------------------------------------
(* disabled is the isPending of the page's last send.                       *)
disabled == \E s \in sends : s.last
canSubmit == ~disabled /\ (value # 0 \/ images > 0)
queuedActionPending == actions # {}

Type ==
    /\ Click /\ ~disabled /\ typed < MaxDrafts
    /\ value' = typed + 1 /\ typed' = typed + 1
    /\ UNCHANGED <<images, reading, drag, rows, sends, runs, ghosts>>

(* onSubmit: the page's mutation is started, also if one is on its way.     *)
OnSubmit(d) ==
    /\ sends' = {[s EXCEPT !.last = FALSE] : s \in sends} \cup {[draft |-> d, last |-> TRUE, n |-> sent[d] + 1]}
    /\ sent' = [sent EXCEPT ![d] = @ + 1]

(* handleSubmit, by Enter (handleKeyDown) or by the button.                 *)
handleSubmit ==
    /\ Click /\ canSubmit
    /\ OnSubmit(value)
    /\ raced' = IF \E a \in actions : a.kind = "replace" /\ a.draft = value THEN raced \cup {value} ELSE raced
    /\ value' = 0 /\ images' = 0
    /\ UNCHANGED <<typed, reading, drag, rows, runs>>

(* The page's answer: queued behind a run, a run of its own, or refused.    *)
Sent(s, ok) ==
    /\ s \in sends
    /\ sends' = sends \ {s}
    /\ queue' = IF ok /\ run THEN queue \cup {<<s.draft, s.n>>} ELSE queue
    /\ run' = (run \/ ok)
    /\ UNCHANGED <<draft, drag, rows, stopping, before, kept, resumed, ghosts, clicks>>

----------------------------------------------------------------------------
(* Images: fileToImageChunk gives none for a file of another type, that is  *)
(* too large or cannot be read.                                             *)
Least(a, b) == IF a < b THEN a ELSE b
addFiles(n) == reading' = reading \cup {[images |-> n, n |-> clicks]}

handleFileChange(n) ==
    /\ Click /\ ~disabled /\ images < MaxImages
    /\ addFiles(n)
    /\ UNCHANGED <<value, typed, images, drag, rows, sends, runs, ghosts>>

FilesRead(b) ==
    /\ b \in reading
    /\ reading' = reading \ {b}
    /\ images' = Least(images + b.images, MaxImages)
    /\ UNCHANGED <<value, typed, drag, rows, sends, runs, ghosts, clicks>>

RemoveImage ==
    /\ Click /\ images > 0
    /\ images' = images - 1
    /\ UNCHANGED <<value, typed, reading, drag, rows, sends, runs, ghosts>>

(* Dragging files: the browser fires dragenter on what is entered before    *)
(* dragleave on what is left, and both bubble up to the bar.                *)
handleDragEnter(to) ==
    /\ ~leaving /\ to # pointer
    /\ pointer' = to /\ leaving' = (pointer # 0)
    /\ IF to = 0 THEN UNCHANGED <<dragDepth, isDragOver>>
       ELSE dragDepth' = dragDepth + 1 /\ isDragOver' = TRUE
    /\ UNCHANGED <<draft, rows, sends, runs, ghosts, clicks>>

handleDragOver ==
    /\ pointer # 0
    /\ isDragOver' = TRUE
    /\ UNCHANGED <<draft, pointer, leaving, dragDepth, rows, sends, runs, ghosts, clicks>>

(* Mutant: leaving any part takes the overlay away.                         *)
MutHandleDragLeave ==
    /\ leaving /\ leaving' = FALSE
    /\ dragDepth' = dragDepth /\ isDragOver' = FALSE
    /\ UNCHANGED <<draft, pointer, rows, sends, runs, ghosts, clicks>>

handleDragLeave ==
    /\ leaving /\ leaving' = FALSE
    /\ dragDepth' = IF dragDepth > 0 THEN dragDepth - 1 ELSE 0
    /\ isDragOver' = (isDragOver /\ dragDepth' # 0)
    /\ UNCHANGED <<draft, pointer, rows, sends, runs, ghosts, clicks>>

handleDrop(n) ==
    /\ Click /\ pointer # 0 /\ ~leaving
    /\ pointer' = 0 /\ dragDepth' = 0 /\ isDragOver' = FALSE
    /\ addFiles(n)
    /\ UNCHANGED <<value, typed, images, leaving, rows, sends, runs, ghosts>>

----------------------------------------------------------------------------
(* The rows of the queue.                                                   *)
ToggleMenu(q) ==
    /\ Click /\ q \in queue /\ ~queuedActionPending
    /\ queuedMenuOpen' = IF queuedMenuOpen = q THEN NoRow ELSE q
    /\ UNCHANGED <<draft, drag, actions, sends, runs, ghosts>>

RowButtons(kind, q) ==
    /\ q \in queue
    /\ kind = "clear" => queuedMenuOpen = q /\ Cardinality(queue) > 1
MenuButton(q) == q \in queue /\ queuedMenuOpen = q

Act(kind, q) == actions' = actions \cup {[kind |-> kind, on |-> q, draft |-> value, n |-> clicks]}

handleQueuedAction(kind, q) ==
    /\ Click /\ RowButtons(kind, q) /\ ~queuedActionPending
    /\ Act(kind, q)
    /\ UNCHANGED <<draft, drag, queuedMenuOpen, sends, runs, ghosts>>

(* Mutant: without the look at queuedActionPending.                         *)
MutHandleQueuedReplace(q) ==
    /\ Click /\ MenuButton(q) /\ canSubmit
    /\ Act("replace", q)
    /\ UNCHANGED <<draft, drag, queuedMenuOpen, sends, runs, ghosts>>

handleQueuedReplace(q) ==
    /\ Click /\ MenuButton(q) /\ canSubmit /\ ~queuedActionPending
    /\ Act("replace", q)
    /\ UNCHANGED <<draft, drag, queuedMenuOpen, sends, runs, ghosts>>

(* What an action does to the queue.                                        *)
Without(a) == IF a.kind = "clear" THEN {} ELSE queue \ {a.on}

ActionDone(a) ==
    /\ a \in actions
    /\ actions' = actions \ {a}
    /\ queue' = Without(a)
    /\ IF a.kind = "replace"
         THEN OnSubmit(a.draft) /\ value' = 0 /\ images' = 0 /\ queuedMenuOpen' = NoRow
         ELSE UNCHANGED <<sends, sent, value, images, queuedMenuOpen>>
    /\ UNCHANGED <<typed, reading, drag, run, stopping, before, kept, resumed, raced, clicks>>

ActionFails(a) ==
    /\ a \in actions
    /\ actions' = actions \ {a}
    /\ UNCHANGED <<draft, drag, queuedMenuOpen, sends, runs, ghosts, clicks>>

----------------------------------------------------------------------------
(* The button sends if there is something to send, and stops otherwise.     *)
StopButton == run /\ ~canSubmit /\ stopping = "no"

(* Mutant: the run is stopped before the queue is cleared.                  *)
MutHandleStop ==
    /\ Click /\ StopButton
    /\ stopping' = "stopping" /\ before' = queue /\ kept' = FALSE
    /\ UNCHANGED <<draft, drag, rows, sends, run, queue, resumed, ghosts>>

handleStop ==
    /\ Click /\ StopButton
    /\ stopping' = "clearing" /\ before' = queue /\ kept' = FALSE
    /\ UNCHANGED <<draft, drag, rows, sends, run, queue, resumed, ghosts>>

(* The queue is cleared, or that fails and stopping goes on all the same.   *)
Cleared(ok) ==
    /\ stopping = "clearing" /\ stopping' = "stopping"
    /\ queue' = IF ok THEN {} ELSE queue
    /\ kept' = ~ok
    /\ UNCHANGED <<draft, drag, rows, sends, run, before, resumed, ghosts, clicks>>

(* A run that ends, by itself or stopped, is followed by one for the queue  *)
(* (onCompleted of the stream provider).                                    *)
RunEnds ==
    /\ run
    /\ run' = (queue # {}) /\ queue' = {}
    /\ UNCHANGED <<draft, drag, rows, sends, stopping, before, kept, resumed, ghosts, clicks>>

Stopped ==
    /\ stopping = "stopping" /\ stopping' = "no"
    /\ run' = (run /\ queue # {}) /\ queue' = IF run THEN {} ELSE queue
    /\ resumed' = (resumed \/ (run /\ ~kept /\ queue \cap before # {}))
    /\ UNCHANGED <<draft, drag, rows, sends, before, kept, ghosts, clicks>>

Next ==
    \/ Type \/ handleSubmit \/ RemoveImage \/ handleDragOver \/ handleDragLeave \/ handleStop \/ RunEnds \/ Stopped
    \/ \E s \in sends, ok \in BOOLEAN : Sent(s, ok)
    \/ \E n \in 0..2 : handleFileChange(n) \/ handleDrop(n)
    \/ \E b \in reading : FilesRead(b)
    \/ \E to \in 0..2 : handleDragEnter(to)
    \/ \E q \in queue : ToggleMenu(q) \/ handleQueuedReplace(q) \/ \E kind \in {"direct", "discard", "clear"} : handleQueuedAction(kind, q)
    \/ \E a \in actions : ActionDone(a) \/ ActionFails(a)
    \/ \E ok \in BOOLEAN : Cleared(ok)

Spec == Init /\ [][Next]_vars

----------------------------------------------------------------------------
OneAction == \A a, b \in actions : a = b

(* The types; follow-ups are acted on one at a time.                        *)
TypeOK ==
    /\ value \in 0..MaxDrafts /\ images \in 0..MaxImages /\ pointer \in 0..2 /\ dragDepth \in 0..2
    /\ queue \subseteq Queued \cup ((0..MaxDrafts) \X Nat) /\ OneAction
    /\ stopping \in {"no", "clearing", "stopping"} /\ clicks \in 0..MaxClicks

(* A draft is sent once, whether as a message or in place of a queued one,  *)
(* and whatever is pressed meanwhile; except that Enter sends a draft which *)
(* is waiting to replace a follow-up a second time.                         *)
DraftSentOnce == \A d \in Drafts : sent[d] > 1 => d \in raced

(* The overlay is shown exactly while files are dragged over the bar, on    *)
(* whatever way over its parts.                                             *)
OverlayFollowsPointer == ~leaving => (isDragOver <=> pointer # 0)

(* "Stop = stop everything AND discard the queue": a follow-up that was     *)
(* queued when stop was pressed is not started by the run's end, unless the *)
(* queue could not be cleared.                                              *)
StopDiscards == ~resumed

----------------------------------------------------------------------------
(* Why they hold.  A draft that was sent is in the box no more, and if it   *)
(* is to replace a follow-up, then it was sent by Enter meanwhile.  The     *)
(* depth counts the parts that the pointer is over or has still to leave.   *)
(* A message on its way is none of those that were queued when stop was     *)
(* pressed, and none of the others on their way.                            *)
Typed ==
    /\ typed \in 0..MaxDrafts /\ value \in 0..typed
    /\ \A b \in reading : b.images \in 0..2
    /\ leaving \in BOOLEAN /\ isDragOver \in BOOLEAN /\ run \in BOOLEAN /\ kept \in BOOLEAN
    /\ sent \in [0..MaxDrafts -> Nat]
    /\ \A d \in (typed + 1)..MaxDrafts : sent[d] = 0
    /\ \A a \in actions : a.draft \in 0..typed
SentIsGone ==
    \A d \in Drafts : sent[d] > 0 =>
        /\ value # d
        /\ \A a \in actions : a.kind = "replace" /\ a.draft = d => d \in raced
DepthCounts ==
    /\ dragDepth = (IF pointer # 0 THEN 1 ELSE 0) + (IF leaving THEN 1 ELSE 0)
    /\ isDragOver <=> dragDepth # 0
NewMessages ==
    /\ sends \subseteq [draft : 0..MaxDrafts, last : BOOLEAN, n : Nat]
    /\ \A s \in sends : s.n <= sent[s.draft] /\ <<s.draft, s.n>> \notin queue \cup before
    /\ \A s, t \in sends : s.draft = t.draft /\ s.n = t.n => s = t
    /\ \A q \in (queue \cup before) \ Queued : q \in (0..MaxDrafts) \X Nat /\ q[2] <= sent[q[1]]
    /\ stopping = "stopping" /\ ~kept => queue \cap before = {}

Inv == TypeOK /\ Typed /\ SentIsGone /\ DraftSentOnce /\ DepthCounts /\ NewMessages /\ StopDiscards

=============================================================================
