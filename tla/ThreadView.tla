------------------------------ MODULE ThreadView ------------------------------
(***************************************************************************)
(* The page of a thread (AgentThreadView.tsx): its copy of the queued      *)
(* follow-ups, the bubbles of directed ones, the approval card and the     *)
(* retry of a failed run.  The component stays mounted when another thread *)
(* is opened, so its state and the answers on their way belong to the last *)
(* thread for a while.  Order in the queue is module MessageQueue's; a     *)
(* message is its id, and its text decides what is taken for the same.     *)
(***************************************************************************)
EXTENDS Integers, FiniteSets

CONSTANTS
    Threads, First,     \* threads, and the one shown at first
    Messages,           \* follow-ups
    ThreadOf, Text,     \* of each follow-up: its thread and its text
    NoText,             \* the text of a follow-up that has only images
    MaxCalls, MaxClicks \* bounds on requests at a time and on clicks

VARIABLES
    queue,      \* the API's queue of each thread
    committed,  \* user messages in each thread's transcript
    injecting,  \* directed messages that the run has still to take in
    status,     \* of each thread: "idle", "running", "error" or "paused"
    asked,      \* how often each thread's run has been paused
    thread,     \* the thread on display
    view,       \* queuedFollowUps
    bubbles,    \* directedOptimistic
    resolved,   \* resolvedInterruptId: the pause that was answered, 0 for none
    lingering,  \* stream.interrupt of each thread: its last pause
    calls,      \* requests on their way
    snapshot,   \* "idle", "busy" (snapshotting) or "failed" (snapshotError)
    sending,    \* sendMessage.isPending
    answers,    \* resumeInterrupt calls for each pause of a thread
    directed,   \* ghost: messages directed on this visit of the thread, unless that failed
    rolledBack, \* ghost: those whose bubble went when the refresh after it failed
    foreign,    \* ghost: the copy of the queue may be another thread's
    visits, clicks

server == <<queue, committed, injecting, status, asked, lingering>>
local == <<view, bubbles, resolved, snapshot>>
ghosts == <<directed, rolledBack, foreign>>
vars == <<server, thread, local, calls, sending, answers, ghosts, visits, clicks>>

Click == clicks < MaxClicks /\ clicks' = clicks + 1
Call(k, m) == [kind |-> k, thread |-> thread, msg |-> m, done |-> FALSE, data |-> {}, result |-> "none"]
NoMsg == 0
\* Part of handleDirectQueuedFollowUp: its request, or the refresh after it.
Directs(c) == c.kind \in {"direct", "refresh"} /\ c.msg # NoMsg

Init ==
    /\ queue = [t \in Threads |-> {}]
    /\ committed = [t \in Threads |-> {}] /\ injecting = {}
    /\ status = [t \in Threads |-> "running"] /\ asked = [t \in Threads |-> 0]
    /\ lingering = [t \in Threads |-> 0]
    /\ thread = First
    /\ view = {} /\ bubbles = {} /\ resolved = 0
    /\ snapshot = "idle"
    /\ calls = {} /\ sending = FALSE
    /\ answers = [t \in Threads |-> 0]
    /\ directed = {} /\ rolledBack = {} /\ foreign = FALSE /\ visits = 0 /\ clicks = 0

----------------------------------------------------------------------------
Texts(ms) == {Text[m] : m \in ms} \ {NoText}

(* baseMessages: the transcript and the bubbles that are not in it.         *)
pending == {m \in bubbles : m \notin committed[thread] /\ Text[m] \notin Texts(committed[thread])}
baseMessages == committed[thread] \cup pending

(* Mutant: the bubbles are dropped with the queue's entries.                *)
MutPruned(bs, ms) == {}

(* The effect that drops bubbles whose message has landed.                  *)
Pruned(bs, ms) == {m \in bs : m \notin ms /\ Text[m] \notin Texts(ms)}

(* The effect that drops follow-ups whose text is in the transcript.        *)
Uncommitted(v, ms) == {m \in v : Text[m] = NoText \/ Text[m] \notin Texts(ms)}

(* Both run on what is rendered: with transcript ms and new state.          *)
Effects(t, ms, v, bs) ==
    LET base == ms \cup {m \in bs : m \notin ms /\ Text[m] \notin Texts(ms)} IN
    /\ bubbles' = Pruned(bs, ms)
    /\ view' = IF t = thread THEN Uncommitted(v, base) ELSE v

isStreaming == status[thread] = "running"
runError == status[thread] = "error"
lastUserText == Texts(baseMessages)     \* the last of these, as order is not kept
showApproval == lingering[thread] # 0 /\ lingering[thread] # resolved

(* Mutant: the load for the thread that is left is not cancelled.           *)
MutOpen(t) ==
    /\ Click /\ t # thread /\ visits < 3
    /\ thread' = t
    /\ bubbles' = {} /\ resolved' = 0
    /\ calls' = calls \cup {[Call("load", NoMsg) EXCEPT !.thread = t]}
    /\ view' = Uncommitted(view, committed[t])
    /\ directed' = {} /\ rolledBack' = {} /\ foreign' = TRUE /\ visits' = visits + 1
    /\ UNCHANGED <<server, snapshot, sending, answers>>

(* Another thread is opened: the effect on [thread.id] resets bubbles and   *)
(* the answered pause, cancels its last load and starts one.  The copy of   *)
(* the queue stays until that is answered.                                  *)
Open(t) ==
    /\ Click /\ t # thread /\ visits < 3
    /\ thread' = t
    /\ bubbles' = {} /\ resolved' = 0
    /\ calls' = {c \in calls : c.kind # "load"} \cup {[Call("load", NoMsg) EXCEPT !.thread = t]}
    /\ view' = Uncommitted(view, committed[t])
    /\ directed' = {} /\ rolledBack' = {} /\ foreign' = TRUE /\ visits' = visits + 1
    /\ UNCHANGED <<server, snapshot, sending, answers>>

----------------------------------------------------------------------------
(* The prompt bar sends a follow-up: onto the queue while a run is active,  *)
(* as a new run otherwise.  A queued one makes the page refresh its copy.   *)
Send(m) ==
    /\ Click /\ ~sending /\ ThreadOf[m] = thread
    /\ \A t \in Threads : m \notin queue[t] \cup committed[t] /\ m \notin injecting
    /\ \A c \in calls : c.msg # m
    /\ sending' = TRUE
    /\ Cardinality(calls) < MaxCalls
    /\ calls' = calls \cup {Call("send", m)}
    /\ UNCHANGED <<server, thread, local, answers, ghosts, visits>>

(* Controls of the page: retrying after an error, the approval card, and    *)
(* the refresh of the changed files.                                        *)
RetryButton == runError /\ lastUserText # {} /\ ~sending
ApprovalCard == showApproval
RefreshButton == snapshot # "busy"

(* handleRetry: a new message with the text of the last one.                *)
handleRetry(m) ==
    /\ RetryButton /\ Text[m] \in lastUserText
    /\ Send(m)

Request(k, m) ==
    /\ Cardinality(calls) < MaxCalls
    /\ ~\E c \in calls : c.kind = k /\ c.msg = m /\ c.thread = thread
    /\ calls' = calls \cup {Call(k, m)}

handleClearQueuedFollowUps ==
    /\ Click /\ view # {}
    /\ Request("clear", NoMsg)
    /\ UNCHANGED <<server, thread, local, sending, answers, ghosts, visits>>

handleDiscardQueuedFollowUp(m) ==
    /\ Click /\ m \in view
    /\ Request("discard", m)
    /\ UNCHANGED <<server, thread, local, sending, answers, ghosts, visits>>

(* handleDirectQueuedFollowUp shows the message as a bubble at once.        *)
handleDirectQueuedFollowUp(m) ==
    /\ Click /\ m \in view
    /\ Request("direct", m)
    /\ Effects(thread, committed[thread], view, IF Text[m] = NoText THEN bubbles ELSE bubbles \cup {m})
    /\ directed' = directed \cup {m} /\ rolledBack' = rolledBack \ {m}
    /\ UNCHANGED <<server, thread, resolved, snapshot, sending, answers, foreign, visits>>

(* Mutant: the answered pause is not remembered.                            *)
MutHandleApproval ==
    /\ Click /\ ApprovalCard /\ answers[thread] < 3
    /\ answers' = [answers EXCEPT ![thread] = @ + 1]
    /\ status' = [status EXCEPT ![thread] = "running"]
    /\ UNCHANGED <<queue, committed, injecting, asked, lingering, thread, local, calls, sending, ghosts, visits>>

(* handleApproval hides the card and resumes the run.  Nobody looks at the  *)
(* answer: a refused request leaves the run paused without a card.          *)
handleApproval ==
    /\ Click /\ ApprovalCard /\ answers[thread] < 3
    /\ resolved' = lingering[thread]
    /\ answers' = [answers EXCEPT ![thread] = @ + 1]
    /\ status' \in {status, [status EXCEPT ![thread] = "running"]}
    /\ UNCHANGED <<queue, committed, injecting, asked, lingering, thread, view, bubbles, snapshot, calls, sending, ghosts, visits>>

(* handleRefreshChanges asks for a snapshot of the workspace; its outcome   *)
(* is shown under the thread that is on display by then.                    *)
handleRefreshChanges ==
    /\ Click /\ RefreshButton
    /\ snapshot' = "busy"
    /\ UNCHANGED <<server, thread, view, bubbles, resolved, calls, sending, answers, ghosts, visits>>

Snapshot(ok) ==
    /\ snapshot = "busy"
    /\ snapshot' = IF ok THEN "idle" ELSE "failed"
    /\ UNCHANGED <<server, thread, view, bubbles, resolved, calls, sending, answers, ghosts, visits, clicks>>

----------------------------------------------------------------------------
(* The API carries out a request ...                                        *)
Serve(c) ==
    LET t == c.thread
        done(r, q) == calls' = (calls \ {c}) \cup {[c EXCEPT !.done = TRUE, !.result = r, !.data = q]}
    IN
    /\ c \in calls /\ ~c.done
    /\ \/ /\ c.kind \in {"load", "refresh"}
          /\ done("ok", queue[t])
          /\ UNCHANGED <<server, local>>
       \/ /\ c.kind = "clear"
          /\ queue' = [queue EXCEPT ![t] = {}]
          /\ done("ok", {})
          /\ UNCHANGED <<committed, injecting, status, asked, lingering, local>>
       \/ /\ c.kind = "discard"
          /\ queue' = [queue EXCEPT ![t] = @ \ {c.msg}]
          /\ done("ok", queue'[t])
          /\ UNCHANGED <<committed, injecting, status, asked, lingering, local>>
       \/ /\ c.kind = "send" /\ status[t] = "running"
          /\ queue' = [queue EXCEPT ![t] = @ \cup {c.msg}]
          /\ done("queued", queue'[t])
          /\ UNCHANGED <<committed, injecting, status, asked, lingering, local>>
       \/ /\ c.kind = "send" /\ status[t] # "running"
          /\ status' = [status EXCEPT ![t] = "running"]
          /\ committed' = [committed EXCEPT ![t] = @ \cup {c.msg}]
          /\ done("started", {})
          /\ IF t = thread THEN Effects(t, committed'[t], view, bubbles) ELSE UNCHANGED <<view, bubbles>>
          /\ UNCHANGED <<queue, injecting, asked, lingering, resolved, snapshot>>
       \/ /\ c.kind = "direct" /\ c.msg \notin queue[t]
          /\ done("empty", queue[t])
          /\ UNCHANGED <<server, local>>
       \/ /\ c.kind = "direct" /\ c.msg \in queue[t] /\ status[t] = "running"
          /\ queue' = [queue EXCEPT ![t] = @ \ {c.msg}]
          /\ injecting' = injecting \cup {c.msg}
          /\ done("directed", queue'[t])
          /\ UNCHANGED <<committed, status, asked, lingering, local>>
       \/ /\ c.kind = "direct" /\ c.msg \in queue[t] /\ status[t] # "running"
          /\ queue' = [queue EXCEPT ![t] = @ \ {c.msg}]
          /\ injecting' = injecting \cup {c.msg}
          /\ status' = [status EXCEPT ![t] = "running"]
          /\ done("started", queue'[t])
          /\ UNCHANGED <<committed, asked, lingering, local>>
    /\ UNCHANGED <<thread, sending, answers, ghosts, visits, clicks>>

(* ... and the page applies the answer, to the thread it shows by then.     *)
Shows(c, v) ==
    /\ Effects(thread, committed[thread], v, bubbles)
    /\ foreign' = IF c.thread = thread THEN (foreign /\ c.kind = "send") ELSE (foreign \/ c.kind # "load")
    /\ UNCHANGED <<resolved, snapshot>>

Applied(c) ==
    LET rest == calls \ {c} IN
    /\ c \in calls /\ c.done
    /\ sending' = (sending /\ c.kind # "send")
    /\ \/ /\ c.kind \in {"load", "refresh", "discard"} /\ Shows(c, c.data) /\ calls' = rest
       \/ /\ c.kind = "clear" /\ Shows(c, {}) /\ calls' = rest
       \/ /\ c.kind = "send"
          /\ calls' = IF c.result = "queued" /\ c.thread = thread
                        THEN rest \cup {Call("refresh", NoMsg)} ELSE rest
          /\ UNCHANGED <<local, foreign>>
       \/ /\ c.kind = "direct" /\ c.result \in {"started", "empty"}
          /\ calls' = rest \cup {[Call("refresh", c.msg) EXCEPT !.thread = c.thread]}
          /\ UNCHANGED <<local, foreign>>
       \/ /\ c.kind = "direct" /\ c.result = "directed"
          /\ Shows(c, c.data \ {c.msg}) /\ calls' = rest
    /\ UNCHANGED <<server, thread, answers, directed, rolledBack, visits, clicks>>

(* A request fails, carried out or not.  The catch that takes a bubble back *)
(* is around the request of directing and the refresh awaited after it.     *)
Fails(c) ==
    /\ Click /\ c \in calls
    /\ calls' = calls \ {c}
    /\ sending' = (sending /\ c.kind # "send")
    /\ bubbles' = IF Directs(c) THEN bubbles \ {c.msg} ELSE bubbles
    /\ directed' = IF c.kind = "direct" THEN directed \ {c.msg} ELSE directed
    /\ rolledBack' = IF Directs(c) /\ c.kind = "refresh" THEN rolledBack \cup {c.msg} ELSE rolledBack
    /\ UNCHANGED <<server, thread, view, resolved, snapshot, answers, foreign, visits>>

----------------------------------------------------------------------------
(* The run: it takes in a directed message, pauses, ends or fails.          *)
Take(m) ==
    LET t == ThreadOf[m] IN
    /\ m \in injecting /\ status[t] = "running"
    /\ injecting' = injecting \ {m}
    /\ committed' = [committed EXCEPT ![t] = @ \cup {m}]
    /\ IF t = thread THEN Effects(t, committed'[t], view, bubbles) ELSE UNCHANGED <<view, bubbles>>
    /\ UNCHANGED <<queue, status, asked, lingering, thread, resolved, snapshot, calls, sending, answers, ghosts, visits, clicks>>

Pauses(t) ==
    /\ status[t] = "running" /\ asked[t] < 2
    /\ status' = [status EXCEPT ![t] = "paused"]
    /\ asked' = [asked EXCEPT ![t] = @ + 1] /\ lingering' = [lingering EXCEPT ![t] = asked[t] + 1]
    /\ answers' = [answers EXCEPT ![t] = 0]
    /\ visits' = IF t = thread THEN 0 ELSE visits
    /\ UNCHANGED <<queue, committed, injecting, thread, local, calls, sending, ghosts, clicks>>

(* It ends, and a queue is continued at once: the event empties the copy.   *)
RunEnds(t, how) ==
    /\ status[t] = "running" /\ ~\E m \in injecting : ThreadOf[m] = t
    /\ \/ /\ queue[t] = {} \/ how = "error"
          /\ status' = [status EXCEPT ![t] = how]
          /\ UNCHANGED <<queue, committed, view, bubbles>>
       \/ /\ queue[t] # {} /\ how = "idle"
          /\ queue' = [queue EXCEPT ![t] = {}]
          /\ committed' = [committed EXCEPT ![t] = @ \cup queue[t]]
          /\ IF t = thread THEN Effects(t, committed'[t], {}, bubbles) ELSE UNCHANGED <<view, bubbles>>
          /\ UNCHANGED status
    /\ UNCHANGED <<injecting, asked, lingering, thread, resolved, snapshot, calls, sending, answers, ghosts, visits, clicks>>

Next ==
    \/ handleClearQueuedFollowUps \/ handleApproval \/ handleRefreshChanges \/ \E ok \in BOOLEAN : Snapshot(ok)
    \/ \E t \in Threads : Open(t) \/ Pauses(t) \/ \E how \in {"idle", "error"} : RunEnds(t, how)
    \/ \E m \in Messages : Send(m) \/ handleRetry(m) \/ handleDiscardQueuedFollowUp(m) \/ handleDirectQueuedFollowUp(m) \/ Take(m)
    \/ \E c \in calls : Serve(c) \/ Applied(c) \/ Fails(c)

Spec == Init /\ [][Next]_vars

----------------------------------------------------------------------------
TypeOK ==
    /\ thread \in Threads /\ view \subseteq Messages /\ bubbles \subseteq Messages
    /\ DOMAIN queue = Threads /\ DOMAIN committed = Threads /\ injecting \subseteq Messages
    /\ \A c \in calls : c.kind \in {"load", "refresh", "clear", "discard", "direct", "send"}
    /\ snapshot \in {"idle", "busy", "failed"}
    /\ sending \in BOOLEAN /\ resolved \in 0..2 /\ clicks \in 0..MaxClicks

(* A directed follow-up "never vanishes from the queue into a void": from   *)
(* the click on, while the thread stays on display and the request has not  *)
(* failed, its text is on the page: waiting, as a bubble or in the          *)
(* transcript.  (One that has only images has no text to show.)             *)
Visible(m) == Text[m] # NoText => Text[m] \in Texts(view \cup baseMessages)
DirectedNeverVanishes == \A m \in directed : Visible(m)

(* What the code keeps of that: it stays unless the refresh that follows a  *)
(* request that started a run, or found the message gone, fails.            *)
DirectedStaysVisible == \A m \in directed \ rolledBack : Visible(m)

(* The follow-ups offered under a thread are that thread's, except between  *)
(* opening it and the answer of its load, or after an answer that the last  *)
(* thread's page was still waiting for.                                     *)
QueueIsOwn == ~foreign => \A m \in view : ThreadOf[m] = thread

(* A pause is answered once, although stream.interrupt still holds it while *)
(* the resumed run is on its way; unless the user left the thread and came  *)
(* back, which forgets that it was answered.                                *)
AnsweredOnce == answers[thread] > 1 => visits > 0

----------------------------------------------------------------------------
(* Why they hold.  Queues and answers have messages of their thread, and    *)
(* only the thread on display has a load on its way.  A directed message is *)
(* a bubble until its text is in the transcript.  A pause that was answered *)
(* on this visit is remembered.                                             *)
Own(t) == {m \in Messages : ThreadOf[m] = t}
Queues ==
    /\ queue \in [Threads -> SUBSET Messages] /\ \A t \in Threads : queue[t] \subseteq Own(t)
    /\ committed \in [Threads -> SUBSET Messages]
RequestOK(c) ==
    /\ c \in [kind : {"load", "refresh", "clear", "discard", "direct", "send"}, thread : Threads,
          msg : Messages \cup {NoMsg}, done : BOOLEAN, data : SUBSET Messages,
          result : {"none", "ok", "queued", "started", "empty", "directed"}]
    /\ c.data \subseteq Own(c.thread)
    /\ c.kind = "send" => c.msg \in Own(c.thread)
    /\ c.kind = "load" => c.thread = thread
Requested == \A c \in calls : RequestOK(c)
Bubbled == \A m \in directed \ rolledBack : Text[m] # NoText => m \in bubbles \/ Text[m] \in Texts(committed[thread])
Counted ==
    /\ asked \in [Threads -> 0..2] /\ lingering \in [Threads -> 0..2]
    /\ answers \in [Threads -> Nat] /\ visits \in Nat /\ foreign \in BOOLEAN
Remembered == visits = 0 /\ answers[thread] # 0 => answers[thread] = 1 /\ resolved = lingering[thread]

Inv == TypeOK /\ Queues /\ Requested /\ QueueIsOwn /\ Bubbled /\ Counted /\ Remembered
=============================================================================
