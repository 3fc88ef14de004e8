----------------------------- MODULE FollowUps -----------------------------
(***************************************************************************)
(* What the queue of a thread promises of its follow-ups, however many     *)
(* requests it takes: a text waits in line, is held while a run is made    *)
(* for it or taken by the running agent, and ends with an agent or         *)
(* removed, once.  MessageQueue implements this where requests and         *)
(* middleware do not overlap and the calls work.                           *)
(***************************************************************************)
EXTENDS Integers, Sequences, SequencesExt, Sublists

CONSTANT Names

VARIABLES
    waiting,    \* the line
    held,       \* taken out of the line for a run that is being made
    taken,      \* taken out of the line by the running agent, in its order
    given,      \* texts an agent got
    removed     \* texts the user removed

vars == <<waiting, held, taken, given, removed>>

Those(texts) == {i \in DOMAIN waiting : waiting[i] \in texts}
Leave(texts) == waiting' = At(waiting, DOMAIN waiting \ Those(texts))

Init == waiting = <<>> /\ held = <<>> /\ taken = <<>> /\ given = {} /\ removed = {}

(* A new text joins the line at its end.                                    *)
Accept(t) ==
    /\ t \notin ToSet(waiting) \cup ToSet(held) \cup ToSet(taken) \cup given \cup removed
    /\ waiting' = Append(waiting, t)
    /\ UNCHANGED <<held, taken, given, removed>>

(* The running agent takes some texts out of the line, in its order, and    *)
(* gets them, unless it is stopped before.                                  *)
Take(texts) ==
    /\ taken = <<>> /\ texts # {} /\ texts \subseteq ToSet(waiting)
    /\ Leave(texts) /\ taken' = At(waiting, Those(texts))
    /\ UNCHANGED <<held, given, removed>>

Get ==
    /\ taken # <<>>
    /\ given' = given \cup ToSet(taken) /\ taken' = <<>>
    /\ UNCHANGED <<waiting, held, removed>>

Stop ==
    /\ taken # <<>>
    /\ removed' = removed \cup ToSet(taken) /\ taken' = <<>>
    /\ UNCHANGED <<waiting, held, given>>

Discard(texts) ==
    /\ texts # {} /\ texts \subseteq ToSet(waiting)
    /\ Leave(texts) /\ removed' = removed \cup texts
    /\ UNCHANGED <<held, taken, given>>

(* One text or the whole line is taken out for a new run, in its order.     *)
Hold(texts) ==
    /\ held = <<>> /\ (texts = ToSet(waiting) \/ \E t \in ToSet(waiting) : texts = {t})
    /\ Leave(texts) /\ held' = At(waiting, Those(texts))
    /\ UNCHANGED <<taken, given, removed>>

(* The run is made, or the texts go back to the end of the line one by one. *)
Give ==
    /\ held # <<>>
    /\ given' = given \cup ToSet(held) /\ held' = <<>>
    /\ UNCHANGED <<waiting, taken, removed>>

PutBack ==
    /\ held # <<>>
    /\ waiting' = Append(waiting, Head(held)) /\ held' = Tail(held)
    /\ UNCHANGED <<taken, given, removed>>

Next ==
    \/ \E t \in Names : Accept(t)
    \/ \E texts \in SUBSET Names : Take(texts) \/ Discard(texts) \/ Hold(texts)
    \/ Get \/ Stop \/ Give \/ PutBack

Spec == Init /\ [][Next]_vars
=============================================================================
