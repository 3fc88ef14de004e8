---------------------------- MODULE MessageQueue ----------------------------
(***************************************************************************)
(* The follow-up messages of one thread.  A message sent while a run is    *)
(* active is kept in one item of the LangGraph store, a list that the      *)
(* dashboard's handlers (agent/utils/thread_ops.py, called from            *)
(* thread_api.py), and the before-model middleware of the running agent    *)
(* (on_core/middleware/check_message_queue.py) each read, change and write *)
(* back with nothing that keeps the three steps together.  When a run ends *)
(* a browser that shows the thread (AgentThreadStreamProvider.tsx) looks   *)
(* at the queue and asks for it to be continued.                           *)
(***************************************************************************)
EXTENDS Integers, Sequences, SequencesExt, FiniteSets, Sublists

CONSTANTS
    Handlers,   \* slots for concurrent API requests on this thread
    MaxIds,     \* bound on uuid4() calls, i.e. on messages and requeues
    MaxRuns,    \* bound on runs the user starts
    MaxActive,  \* bound on runs the server executes or keeps waiting
    MaxLooks,   \* bound on browsers that look at the queue or continue it
    Serial,     \* TRUE: requests and middleware do not overlap
    MayDrop     \* whether calls may fail, or lose their answer: what to try

ASSUME BoundsAreNat ==
    MaxIds \in Nat /\ MaxRuns \in Nat /\ MaxActive \in Nat \ {0} /\ MaxLooks \in Nat
ASSUME SwitchesAreBoolean == Serial \in BOOLEAN /\ MayDrop \subseteq BOOLEAN

VARIABLES
    store,      \* the "messages" list; empty when the item does not exist
    active,     \* runs of the thread that execute or wait for their turn
    mw,         \* the middleware: "idle", "write" after it read the list,
                \* "inject" after it wrote the rest back
    mwBuf,      \* the list it read, then the messages it injects
    frame,      \* each request: where it is and what it holds
    checks,     \* browsers whose onCompleted is about to look at the queue
    continues,  \* browsers that saw messages and are about to continue them
    drops,      \* TRUE: calls to the store, and answers of runs.create, may be
                \* lost; settled at the start
    runs,       \* runs the user started
    nextId,     \* next uuid; numbered in the order in which they are used
    accepted,   \* ghost: texts whose sender was told they are queued
    delivered,  \* ghost: how often each text reached an agent: 0, 1 or "2 or more"
    discarded,  \* ghost: texts the user removed, or stopped with the run that
                \* was taking them
    doubted     \* ghost: texts of a run that was created, while the request was
                \* told it was not

vars == <<store, active, mw, mwBuf, frame, checks, continues, drops, runs, nextId,
          accepted, delivered, discarded, doubted>>
browsers == <<checks, continues>>
ghosts == <<accepted, delivered, discarded, doubted>>

Ids == 1..MaxIds
\* A text is named by the id under which it was first queued; the mark is
\* force_for_active_run.
Entry == [id : Ids, text : Ids, forced : BOOLEAN]
Busy == active > 0
NoArg == 0
Idle == [pc |-> "idle", arg |-> NoArg, buf |-> <<>>, hand |-> <<>>]

Texts(list) == {list[i].text : i \in DOMAIN list}
IdsIn(list) == {list[i].id : i \in DOMAIN list}
Forced(list) == At(list, {i \in DOMAIN list : list[i].forced})
Waiting(list) == At(list, {i \in DOMAIN list : ~list[i].forced})
ForceAll(list) == [i \in DOMAIN list |-> [list[i] EXCEPT !.forced = TRUE]]
ForceOne(list, id) ==
    [i \in DOMAIN list |-> IF list[i].id = id THEN [list[i] EXCEPT !.forced = TRUE] ELSE list[i]]
Without(list, id) == At(list, {i \in DOMAIN list : list[i].id # id})
Only(list, id) == At(list, {i \in DOMAIN list : list[i].id = id})

Goto(h, label) == frame' = [frame EXCEPT ![h].pc = label]
Finish(h) == frame' = [frame EXCEPT ![h] = Idle]
AllIdle == (\A h \in Handlers : frame[h].pc = "idle") /\ mw = "idle"
MayStart == Serial => AllIdle

Deliver(texts) == delivered' = [t \in Ids |-> IF t \in texts /\ delivered[t] < 2 THEN delivered[t] + 1 ELSE delivered[t]]

Init ==
    /\ store = <<>>
    /\ active = 0
    /\ mw = "idle" /\ mwBuf = <<>>
    /\ frame = [h \in Handlers |-> Idle]
    /\ checks = 0 /\ continues = 0
    /\ drops \in MayDrop
    /\ runs = 0
    /\ nextId = 1
    /\ accepted = {} /\ discarded = {} /\ doubted = {}
    /\ delivered = [t \in Ids |-> 0]

----------------------------------------------------------------------------
(* Runs.  run.start is accepted on an idle thread, a busy one queues; the   *)
(* end of a run lets the next one execute, if the server has one waiting,   *)
(* and calls the browser's onCompleted.                                     *)
StartRun ==
    /\ ~Busy /\ runs < MaxRuns
    /\ active' = 1
    /\ runs' = runs + 1
    /\ UNCHANGED <<store, mw, mwBuf, frame, browsers, drops, nextId, ghosts>>

(* onCompleted, in every browser that shows the thread; none has to.        *)
Completed ==
    /\ active' = active - 1
    /\ checks' \in {checks, checks + 1} /\ checks' + continues <= MaxLooks
    /\ UNCHANGED <<frame, continues, drops, runs, nextId, accepted, delivered, doubted>>

EndRun ==
    /\ Busy /\ mw = "idle"
    /\ Completed
    /\ UNCHANGED <<store, mw, mwBuf, discarded>>

(* check_message_queue_before_model.  Nothing directed: nothing changes.    *)
MwRead ==
    /\ Busy /\ mw = "idle" /\ MayStart
    /\ Forced(store) # <<>>
    /\ mw' = "write"
    /\ mwBuf' = store
    /\ UNCHANGED <<store, active, frame, browsers, drops, runs, nextId, ghosts>>

(* Mutant: the list is left as it was.                                      *)
MutMwWrite ==
    /\ mw = "write"
    /\ mw' = "inject"
    /\ mwBuf' = Forced(mwBuf)
    /\ UNCHANGED <<store, active, frame, browsers, drops, runs, nextId, ghosts>>

(* The other messages are written back before the directed ones are         *)
(* returned to the agent.                                                   *)
MwWrite ==
    /\ mw = "write"
    /\ store' = Waiting(mwBuf)
    /\ mw' = "inject"
    /\ mwBuf' = Forced(mwBuf)
    /\ UNCHANGED <<active, frame, browsers, drops, runs, nextId, ghosts>>

MwInject ==
    /\ mw = "inject"
    /\ Deliver(Texts(mwBuf))
    /\ mw' = "idle" /\ mwBuf' = <<>>
    /\ UNCHANGED <<store, active, frame, browsers, drops, runs, nextId, accepted, discarded, doubted>>

(* The write raises, applied or not: the middleware logs and injects        *)
(* nothing.                                                                 *)
MwFails ==
    /\ drops /\ mw = "write"
    /\ store' \in {store, Waiting(mwBuf)}
    /\ mw' = "idle" /\ mwBuf' = <<>>
    /\ UNCHANGED <<active, frame, browsers, drops, runs, nextId, ghosts>>

(* The user stops the run inside the middleware: the cancellation is no     *)
(* Exception, so it passes through.  What had left the queue is gone, as    *)
(* handleStop says: stop everything and discard the queue.                  *)
StopRun ==
    /\ Busy /\ mw # "idle"
    /\ Completed
    /\ mw' = "idle" /\ mwBuf' = <<>>
    /\ \/ mw = "write" /\ UNCHANGED <<store, discarded>>
       \/ /\ mw = "write" /\ store' = Waiting(mwBuf)
          /\ discarded' = discarded \cup Texts(Forced(mwBuf))
       \/ /\ mw = "inject" /\ UNCHANGED store
          /\ discarded' = discarded \cup Texts(mwBuf)

----------------------------------------------------------------------------
(* send_dashboard_message: only a busy thread takes a follow-up.            *)
Send(h) ==
    /\ frame[h].pc = "idle" /\ MayStart
    /\ Busy /\ nextId <= MaxIds
    /\ Goto(h, "queueRead")
    /\ UNCHANGED <<store, active, mw, mwBuf, browsers, drops, runs, nextId, ghosts>>

(* What _read_queue returns: the list, or an empty one if the call failed.  *)
ReadQueue(list) == list = store \/ (drops /\ list = <<>>)

(* A message as queue_message_for_thread makes it.                          *)
NewEntry(id, text) == [id |-> id, text |-> text, forced |-> FALSE]

(* Mutant: new messages go to the front.                                    *)
MutNewList(list, text) == <<NewEntry(nextId, text)>> \o list

NewList(list, text) == Append(list, NewEntry(nextId, text))

(* queue_message_for_thread: read, append, ...                              *)
QueueRead(h) ==
    /\ frame[h].pc = "queueRead"
    /\ nextId <= MaxIds
    /\ nextId' = nextId + 1
    /\ \E list \in {store, <<>>} :
         /\ ReadQueue(list)
         /\ frame' = [frame EXCEPT ![h].pc = "queueWrite", ![h].arg = nextId,
                                   ![h].buf = NewList(list, nextId)]
    /\ UNCHANGED <<store, active, mw, mwBuf, browsers, drops, runs, ghosts>>

(* ... write, and tell the sender.                                          *)
QueueWrite(h) ==
    /\ frame[h].pc = "queueWrite"
    /\ store' = frame[h].buf
    /\ accepted' = accepted \cup {frame[h].arg}
    /\ Finish(h)
    /\ UNCHANGED <<active, mw, mwBuf, browsers, drops, runs, nextId, delivered, discarded, doubted>>

(* Any of the writes of a request raises: the store did not take it, or     *)
(* only the answer was lost.  The caller sees an error.                     *)
WriteFails(h) ==
    /\ drops
    /\ frame[h].pc \in {"queueWrite", "forceWrite", "forceAllWrite", "popWrite",
                        "deleteWrite", "drainDelete", "clearDelete"}
    /\ store' \in {store, frame[h].buf}
    /\ Finish(h)
    /\ UNCHANGED <<active, mw, mwBuf, browsers, drops, runs, nextId, ghosts>>

(* direct_dashboard_queued_message: the user presses "Dirigir" on a message *)
(* that the queue showed at some time.                                      *)
Direct(h, id) ==
    /\ frame[h].pc = "idle" /\ MayStart
    /\ id < nextId
    /\ frame' = [frame EXCEPT ![h] = [Idle EXCEPT !.pc = IF Busy THEN "forceRead" ELSE "popRead",
                                                  !.arg = id]]
    /\ UNCHANGED <<store, active, mw, mwBuf, browsers, drops, runs, nextId, ghosts>>

(* force_queued_message_for_thread: 404 when the message is not there.      *)
ForceRead(h) ==
    /\ frame[h].pc = "forceRead"
    /\ \E list \in {store, <<>>} :
         /\ ReadQueue(list)
         /\ IF frame[h].arg \in IdsIn(list)
              THEN frame' = [frame EXCEPT ![h].pc = "forceWrite",
                                          ![h].buf = ForceOne(list, frame[h].arg)]
              ELSE Finish(h)
    /\ UNCHANGED <<store, active, mw, mwBuf, browsers, drops, runs, nextId, ghosts>>

ForceWrite(h) ==
    /\ frame[h].pc = "forceWrite"
    /\ store' = frame[h].buf
    /\ Finish(h)
    /\ UNCHANGED <<active, mw, mwBuf, browsers, drops, runs, nextId, ghosts>>

(* pop_queued_message_for_thread, for a directed message of an idle thread  *)
(* and for delete_dashboard_queued_message.                                 *)
Delete(h, id) ==
    /\ frame[h].pc = "idle" /\ MayStart
    /\ id < nextId
    /\ frame' = [frame EXCEPT ![h] = [Idle EXCEPT !.pc = "deleteRead", !.arg = id]]
    /\ UNCHANGED <<store, active, mw, mwBuf, browsers, drops, runs, nextId, ghosts>>

PopRead(h) ==
    /\ frame[h].pc \in {"popRead", "deleteRead"}
    /\ \E list \in {store, <<>>} :
         /\ ReadQueue(list)
         /\ IF frame[h].arg \in IdsIn(list)
              THEN frame' = [frame EXCEPT
                     ![h].pc = IF frame[h].pc = "popRead" THEN "popWrite" ELSE "deleteWrite",
                     ![h].buf = Without(list, frame[h].arg),
                     ![h].hand = Only(list, frame[h].arg)]
              ELSE Finish(h)
    /\ UNCHANGED <<store, active, mw, mwBuf, browsers, drops, runs, nextId, ghosts>>

PopWrite(h) ==
    /\ frame[h].pc \in {"popWrite", "deleteWrite"}
    /\ store' = frame[h].buf
    /\ IF frame[h].pc = "popWrite"
         THEN /\ frame' = [frame EXCEPT ![h].pc = "create", ![h].buf = <<>>, ![h].arg = NoArg]
              /\ UNCHANGED discarded
         ELSE /\ Finish(h)
              /\ discarded' = discarded \cup Texts(frame[h].hand)
    /\ UNCHANGED <<active, mw, mwBuf, browsers, drops, runs, nextId, accepted, delivered, doubted>>

(* clear_dashboard_queued_messages: drain, and throw away.                  *)
Clear(h) ==
    /\ frame[h].pc = "idle" /\ MayStart
    /\ store # <<>>
    /\ frame' = [frame EXCEPT ![h] = [Idle EXCEPT !.pc = "clearDelete", !.hand = store]]
    /\ UNCHANGED <<store, active, mw, mwBuf, browsers, drops, runs, nextId, ghosts>>

ClearDelete(h) ==
    /\ frame[h].pc = "clearDelete"
    /\ store' = <<>>
    /\ discarded' = discarded \cup Texts(frame[h].hand)
    /\ Finish(h)
    /\ UNCHANGED <<active, mw, mwBuf, browsers, drops, runs, nextId, accepted, delivered, doubted>>

----------------------------------------------------------------------------
(* The browser's onCompleted: ask for the queue, then for its continuation. *)
BrowserCheck ==
    /\ checks > 0
    /\ checks' = checks - 1
    /\ \E list \in {store, <<>>} :
         /\ ReadQueue(list)
         /\ continues' = IF list = <<>> THEN continues ELSE continues + 1
    /\ UNCHANGED <<store, active, mw, mwBuf, frame, drops, runs, nextId, ghosts>>

(* continue_dashboard_queued_messages reads the thread's status once.       *)
Continue(h) ==
    /\ frame[h].pc = "idle" /\ MayStart
    /\ continues > 0
    /\ continues' = continues - 1
    /\ Goto(h, IF Busy THEN "forceAllRead" ELSE "drainRead")
    /\ UNCHANGED <<store, active, mw, mwBuf, checks, drops, runs, nextId, ghosts>>

(* force_queued_messages_for_thread.                                        *)
ForceAllRead(h) ==
    /\ frame[h].pc = "forceAllRead"
    /\ \E list \in {store, <<>>} :
         /\ ReadQueue(list)
         /\ IF list # <<>>
              THEN frame' = [frame EXCEPT ![h].pc = "forceAllWrite", ![h].buf = ForceAll(list)]
              ELSE Finish(h)
    /\ UNCHANGED <<store, active, mw, mwBuf, browsers, drops, runs, nextId, ghosts>>

ForceAllWrite(h) ==
    /\ frame[h].pc = "forceAllWrite"
    /\ store' = frame[h].buf
    /\ Finish(h)
    /\ UNCHANGED <<active, mw, mwBuf, browsers, drops, runs, nextId, ghosts>>

(* Mutant: an empty queue is drained like any other.                        *)
MutDrainRead(h) ==
    /\ frame[h].pc = "drainRead"
    /\ \E list \in {store, <<>>} :
         /\ ReadQueue(list)
         /\ frame' = [frame EXCEPT ![h].pc = "drainDelete", ![h].hand = list]
    /\ UNCHANGED <<store, active, mw, mwBuf, browsers, drops, runs, nextId, ghosts>>

(* drain_queued_messages_for_thread.                                        *)
DrainRead(h) ==
    /\ frame[h].pc = "drainRead"
    /\ \E list \in {store, <<>>} :
         /\ ReadQueue(list)
         /\ IF list # <<>>
              THEN frame' = [frame EXCEPT ![h].pc = "drainDelete", ![h].hand = list]
              ELSE Finish(h)
    /\ UNCHANGED <<store, active, mw, mwBuf, browsers, drops, runs, nextId, ghosts>>

(* Mutant: the drained list stays in the store.                             *)
MutDrainDelete(h) ==
    /\ frame[h].pc = "drainDelete"
    /\ Goto(h, "create")
    /\ UNCHANGED <<store, active, mw, mwBuf, browsers, drops, runs, nextId, ghosts>>

DrainDelete(h) ==
    /\ frame[h].pc = "drainDelete"
    /\ store' = <<>>
    /\ Goto(h, "create")
    /\ UNCHANGED <<active, mw, mwBuf, browsers, drops, runs, nextId, ghosts>>

(* _create_queued_followup_run: the messages become the input of a new run; *)
(* on a thread that is busy again the server makes it wait its turn.        *)
CreateRun(h) ==
    /\ frame[h].pc = "create" /\ active < MaxActive
    /\ active' = active + 1
    /\ Deliver(Texts(frame[h].hand))
    /\ Finish(h)
    /\ UNCHANGED <<store, mw, mwBuf, browsers, drops, runs, nextId, accepted, discarded, doubted>>

(* Reading the user's profile for the run's configuration raises, outside   *)
(* the try: the request ends and what it drained is gone.                   *)
PrepareFails(h) ==
    /\ drops /\ frame[h].pc = "create"
    /\ Finish(h)
    /\ UNCHANGED <<store, active, mw, mwBuf, browsers, drops, runs, nextId, ghosts>>

(* runs.create raises: every message goes back to the queue, one at a time, *)
(* as a new message with a new id.  With lost answers the run may exist.    *)
CreateFails(h) ==
    /\ frame[h].pc = "create"
    /\ nextId + Len(frame[h].hand) <= MaxIds + 1
    /\ \/ UNCHANGED <<active, delivered, doubted>>
       \/ /\ drops /\ active < MaxActive
          /\ active' = active + 1
          /\ Deliver(Texts(frame[h].hand))
          /\ doubted' = doubted \cup Texts(frame[h].hand)
    /\ Goto(h, "requeueRead")
    /\ UNCHANGED <<store, mw, mwBuf, browsers, drops, runs, nextId, accepted, discarded>>

RequeueRead(h) ==
    /\ frame[h].pc = "requeueRead"
    /\ nextId <= MaxIds
    /\ nextId' = nextId + 1
    /\ \E list \in {store, <<>>} :
         /\ ReadQueue(list)
         /\ frame' = [frame EXCEPT ![h].pc = "requeueWrite",
                                   ![h].buf = NewList(list, Head(frame[h].hand).text)]
    /\ UNCHANGED <<store, active, mw, mwBuf, browsers, drops, runs, ghosts>>

(* Whether it was queued is not looked at.                                  *)
RequeueWrite(h) ==
    /\ frame[h].pc = "requeueWrite"
    /\ store' = frame[h].buf \/ (drops /\ store' = store)
    /\ IF Len(frame[h].hand) = 1
         THEN Finish(h)
         ELSE frame' = [frame EXCEPT ![h].pc = "requeueRead", ![h].buf = <<>>,
                                     ![h].hand = Tail(frame[h].hand)]
    /\ UNCHANGED <<active, mw, mwBuf, browsers, drops, runs, nextId, ghosts>>

HandlerStep(h) ==
    \/ QueueRead(h) \/ QueueWrite(h) \/ ForceRead(h) \/ ForceWrite(h)
    \/ PopRead(h) \/ PopWrite(h) \/ ClearDelete(h)
    \/ ForceAllRead(h) \/ ForceAllWrite(h) \/ DrainRead(h) \/ DrainDelete(h)
    \/ CreateRun(h) \/ CreateFails(h) \/ RequeueRead(h) \/ RequeueWrite(h)

Next ==
    \/ StartRun \/ EndRun \/ StopRun
    \/ MwRead \/ MwWrite \/ MwInject \/ MwFails \/ BrowserCheck
    \/ \E h \in Handlers : \/ Send(h) \/ Clear(h) \/ Continue(h)
                           \/ HandlerStep(h) \/ WriteFails(h) \/ PrepareFails(h)
                           \/ \E id \in Ids : Direct(h, id) \/ Delete(h, id)

Spec == Init /\ [][Next]_vars

----------------------------------------------------------------------------
Lists == {store, mwBuf} \cup {frame[h].buf : h \in Handlers} \cup {frame[h].hand : h \in Handlers}

(* Types; a request that is about to create a run, or to requeue, holds     *)
(* messages for it.                                                         *)
TypeOK ==
    /\ \A h \in Handlers :
         frame[h].pc \in {"drainDelete", "create", "requeueRead", "requeueWrite"} => frame[h].hand # <<>>
    /\ \A list \in Lists : \A i \in DOMAIN list : list[i] \in Entry
    /\ active \in 0..MaxActive
    /\ mw \in {"idle", "write", "inject"} /\ drops \in BOOLEAN
    /\ checks \in Nat /\ continues \in Nat /\ checks + continues <= MaxLooks
    /\ nextId \in 1..(MaxIds + 1) /\ runs \in 0..MaxRuns

(* The inductive invariant behind it, requests and middleware overlapping   *)
(* or not: every list, in the store or in flight, is in the order of its    *)
(* ids and has only ids that were given out.                                *)
PCs == {"idle", "queueRead", "queueWrite", "forceRead", "forceWrite", "forceAllRead",
        "forceAllWrite", "popRead", "popWrite", "deleteRead", "deleteWrite", "clearDelete",
        "drainRead", "drainDelete", "create", "requeueRead", "requeueWrite"}
Frames == [pc : PCs, arg : 0..MaxIds, buf : Seq(Entry), hand : Seq(Entry)]
Fits(list, n) ==
    /\ list \in Seq(Entry)
    /\ \A i, j \in DOMAIN list : i < j => list[i].id < list[j].id
    /\ \A i \in DOMAIN list : list[i].id < n
FrameFits(f, n) ==
    /\ f \in Frames /\ Fits(f.buf, n) /\ Fits(f.hand, n)
    /\ f.pc \in {"popWrite", "drainDelete", "create", "requeueRead", "requeueWrite"} => f.hand # <<>>
ListInv ==
    /\ Fits(store, nextId) /\ Fits(mwBuf, nextId)
    /\ frame \in [Handlers -> Frames] /\ \A h \in Handlers : FrameFits(frame[h], nextId)
    /\ active \in 0..MaxActive /\ mw \in {"idle", "write", "inject"} /\ drops \in BOOLEAN
    /\ checks \in Nat /\ continues \in Nat /\ checks + continues <= MaxLooks
    /\ nextId \in 1..(MaxIds + 1) /\ runs \in 0..MaxRuns

(* Where a text may be: waiting; taken by a request that starts a run with  *)
(* it or puts it back; taken by the middleware; with an agent; removed.     *)
InStore(t) == t \in Texts(store)
InHand(t) ==
    \E h \in Handlers : /\ frame[h].pc \in {"create", "requeueRead", "requeueWrite"}
                       /\ t \in Texts(frame[h].hand)
Taken(t) == mw = "inject" /\ t \in Texts(mwBuf)
One(b) == IF b THEN 1 ELSE 0
Places(t) == One(InStore(t)) + One(InHand(t)) + One(Taken(t)) + delivered[t] + One(t \in discarded)

(* Requests and middleware do not overlap, and the calls work.              *)
orderly == Serial /\ ~drops

(* When requests and middleware do not overlap and the calls work, a        *)
(* follow-up is never lost: it waits in the queue, a request or the         *)
(* middleware holds it, an agent got it once, or the user removed it.       *)
ExactlyOnce == orderly => \A t \in accepted : Places(t) = 1

(* The middleware writes the rest back before it injects, so that it cannot *)
(* inject twice, and drains delete before they create.  So a text is never  *)
(* in two places and never with an agent twice, whatever calls fail or lose *)
(* their answers, but for one: the answer of runs.create (the texts are put *)
(* back although the run has them).                                         *)
AtMostOnce == Serial => \A t \in Ids \ doubted : Places(t) <= 1

(* The inductive invariant behind both.  Nothing overlaps; what a step in   *)
(* progress is about to write is made from what it read of the store as it  *)
(* still is; and every text is in one place at most.                        *)
Alone ==
    \A h \in Handlers : frame[h].pc # "idle" =>
        mw = "idle" /\ \A g \in Handlers : g # h => frame[g].pc = "idle"
Located(t) == InStore(t) \/ InHand(t) \/ Taken(t) \/ delivered[t] > 0 \/ t \in discarded
Grown(buf, id, text) ==
    \E list \in {store, <<>>} : ReadQueue(list) /\ buf = Append(list, NewEntry(id, text))
UpToDate(f) ==
    /\ f.pc = "queueWrite" => /\ Grown(f.buf, f.arg, f.arg)
                              /\ f.arg \in Ids /\ f.arg < nextId /\ f.arg \notin accepted /\ ~Located(f.arg)
    /\ f.pc = "forceWrite" => f.buf = ForceOne(store, f.arg)
    /\ f.pc = "forceAllWrite" => f.buf = ForceAll(store)
    /\ f.pc \in {"popWrite", "deleteWrite"} => /\ f.buf = Without(store, f.arg) /\ f.hand = Only(store, f.arg)
                                               /\ f.arg \in IdsIn(store)
    /\ f.pc \in {"clearDelete", "drainDelete"} => f.hand = store /\ store # <<>>
    /\ f.pc \in {"idle", "drainRead", "clearDelete", "drainDelete"} => f.buf = <<>>
    /\ f.pc = "requeueWrite" => Grown(f.buf, nextId - 1, Head(f.hand).text)
Distinct(list) == \A i, j \in DOMAIN list : list[i].text = list[j].text => i = j
Placed(t) ==
    /\ InStore(t) => ~InHand(t) /\ ~Taken(t)
    /\ InHand(t) => ~Taken(t)
    /\ t \in discarded => ~InStore(t) /\ ~InHand(t) /\ ~Taken(t)
    /\ t \notin doubted => delivered[t] \in {0, 1}
    /\ t \notin doubted /\ delivered[t] > 0 => ~InStore(t) /\ ~InHand(t) /\ ~Taken(t) /\ t \notin discarded
    /\ Located(t) => t < nextId
    /\ ~drops => (t \in accepted <=> Located(t))
PlaceInv ==
    /\ delivered \in [Ids -> 0..2] /\ accepted \subseteq Ids /\ \A t \in accepted : t < nextId
    /\ discarded \subseteq Ids /\ (~drops => doubted = {})
    /\ Distinct(store) /\ Distinct(mwBuf)
    /\ \A h \in Handlers : frame[h].pc \in {"create", "requeueRead", "requeueWrite"} => Distinct(frame[h].hand)
    /\ \A t \in Ids : Placed(t)
SerialInv ==
    /\ ListInv /\ Alone
    /\ mw = "write" => mwBuf = store /\ Forced(store) # <<>>
    /\ mw = "inject" => mwBuf # <<>>
    /\ \A h \in Handlers : UpToDate(frame[h])
    /\ PlaceInv

(* A follow-up whose sender was told it is queued stays somewhere until an  *)
(* agent gets it or the user removes it.                                    *)
NoFollowUpLost ==
    \A t \in accepted :
       \/ delivered[t] > 0 \/ t \in discarded
       \/ \E list \in Lists : t \in Texts(list)

(* The abstract queue: texts leave the line for the hands of a request or   *)
(* of the middleware when the store's list was written, and are in them     *)
(* until a run has them or they were put back.                              *)
InHands == {h \in Handlers : frame[h].pc \in {"create", "requeueRead", "requeueWrite"}}
TextsOf(list) == [i \in DOMAIN list |-> list[i].text]
Line == INSTANCE FollowUps WITH
    Names <- Ids,
    waiting <- TextsOf(store),
    held <- IF InHands = {} THEN <<>> ELSE TextsOf(frame[CHOOSE h \in InHands : TRUE].hand),
    taken <- IF mw = "inject" THEN TextsOf(mwBuf) ELSE <<>>,
    given <- {t \in Ids : delivered[t] > 0},
    removed <- discarded

(* When requests and middleware do not overlap and the calls work, each of  *)
(* the requests, with its reads, writes and failed run creations, and the   *)
(* middleware come to what the abstract queue allows: FIFO, and given or    *)
(* removed once, requeued messages included.                                *)
ImplementsFollowUps == (orderly => Line!Init) /\ [][orderly => Line!Next]_(Line!vars)
=============================================================================
