------------------------------ MODULE Schedules ------------------------------
(***************************************************************************)
(* One recurring agent schedule (agent_dashboard/schedules.py and the      *)
(* scheduler graph of agent/scheduler.py).  A schedule is a record in the  *)
(* LangGraph store and, while it is enabled, a cron of the LangGraph       *)
(* server; no transaction spans the two.  Requests of the owner create,    *)
(* update and delete; a cron that fires launches a run, and the launch     *)
(* writes back the record it has read.  Prompt, repository, model and the  *)
(* last_* fields are not told apart.                                       *)
(***************************************************************************)
EXTENDS Integers, FiniteSets

CONSTANTS
    Requests,   \* slots for API requests and launches in flight
    Timetables, \* cron expressions
    MaxCrons,   \* bound on crons created
    Overlap,    \* TRUE: requests and launches may overlap
    Drops       \* TRUE: calls to store and server may fail

ASSUME MaxCronsIsNat == MaxCrons \in Nat
ASSUME NoneIsNoTimetable == "none" \notin Timetables
ASSUME SwitchesAreBoolean == Overlap \in BOOLEAN /\ Drops \in BOOLEAN

VARIABLES
    record,     \* the store item, or NoRecord
    crons,      \* the server's crons for this schedule
    nextCron,   \* the next cron_id
    frame,      \* each request: where it is, its record and the cron to delete
    told,       \* ghost: the state the owner was told of by the last answer
    failed      \* ghost: some call has failed

vars == <<record, crons, nextCron, frame, told, failed>>
ghosts == <<told, failed>>

NoCron == 0
Rec(enabled, timetable, cron) == [enabled |-> enabled, timetable |-> timetable, cron |-> cron]
NoRecord == Rec(FALSE, "none", NoCron)
Exists(rec) == rec # NoRecord
WithCron(rec, cron) == Rec(rec.enabled, rec.timetable, cron)
PCs == {"idle", "createPut", "createCron", "createUndo", "createSave", "updateCron", "updateDelete", "updatePut",
        "deleteCron", "deleteItem", "launchRead", "launchRun", "launchPut"}
Frame(label, rec, old) == [pc |-> label, rec |-> rec, old |-> old]
Idle == Frame("idle", NoRecord, NoCron)

Quiet == \A h \in Requests : frame[h].pc = "idle"
MayStart(h) == frame[h].pc = "idle" /\ (Overlap \/ Quiet)
Step(h, f) == frame' = [frame EXCEPT ![h] = f]
CronOf(rec) == [id |-> rec.cron, timetable |-> rec.timetable]

Init ==
    /\ record = NoRecord
    /\ crons = {}
    /\ nextCron = 1
    /\ frame = [h \in Requests |-> Idle]
    /\ told = "nothing"
    /\ failed = FALSE

(* What the owner is told with an answer: the state of the record.          *)
Answer(rec) == told' = IF rec.enabled THEN "on" ELSE "off"

(* A call fails: it had no effect, or only its answer was lost.  What the   *)
(* owner sees is an error.                                                  *)
Fails == Drops /\ failed' = TRUE
Error == told' = "error"

(* _create_cron                                                             *)
CreateCron(timetable) ==
    /\ nextCron <= MaxCrons
    /\ crons' = crons \cup {[id |-> nextCron, timetable |-> timetable]}
    /\ nextCron' = nextCron + 1

(* _delete_cron: an unknown id changes nothing, without an id there is no   *)
(* call, and a failed call is swallowed.                                    *)
DeleteCron(id) ==
    \/ crons' = {c \in crons : c.id # id} /\ UNCHANGED failed
    \/ id # NoCron /\ Fails /\ UNCHANGED crons

(* _put_value and delete_item, of which the latter writes NoRecord.         *)
Put(rec) == record' = rec

----------------------------------------------------------------------------
(* create_agent_schedule: record, cron, record with the cron's id.          *)
Create(h, timetable) ==
    /\ MayStart(h) /\ told = "nothing"
    /\ Step(h, Frame("createPut", Rec(TRUE, timetable, NoCron), NoCron))
    /\ told' = "pending"
    /\ UNCHANGED <<record, crons, nextCron, failed>>

CreatePut(h) ==
    /\ frame[h].pc = "createPut"
    /\ Put(frame[h].rec)
    /\ Step(h, Frame("createCron", frame[h].rec, NoCron))
    /\ UNCHANGED <<crons, nextCron, ghosts>>

CreateRegister(h) ==
    /\ frame[h].pc = "createCron"
    /\ CreateCron(frame[h].rec.timetable)
    /\ Step(h, Frame("createSave", WithCron(frame[h].rec, nextCron), NoCron))
    /\ UNCHANGED <<record, ghosts>>

CreateRegisterFails(h) ==
    /\ frame[h].pc = "createCron"
    /\ Fails
    /\ CreateCron(frame[h].rec.timetable) \/ UNCHANGED <<crons, nextCron>>
    /\ Step(h, Frame("createUndo", NoRecord, NoCron))
    /\ UNCHANGED <<record, told>>

CreateUndo(h) ==
    /\ frame[h].pc = "createUndo"
    /\ Put(NoRecord)
    /\ Error
    /\ Step(h, Idle)
    /\ UNCHANGED <<crons, nextCron, failed>>

(* Mutant: the id is taken before the server has given one.                 *)
MutCreateSave(h) ==
    /\ frame[h].pc = "createSave"
    /\ Put(WithCron(frame[h].rec, nextCron))
    /\ Answer(frame[h].rec)
    /\ Step(h, Idle)
    /\ UNCHANGED <<crons, nextCron, failed>>

CreateSave(h) ==
    /\ frame[h].pc = "createSave"
    /\ Put(frame[h].rec)
    /\ Answer(frame[h].rec)
    /\ Step(h, Idle)
    /\ UNCHANGED <<crons, nextCron, failed>>

(* Mutant: a new timetable alone does not make a new cron.                  *)
MutUpdateBranch(old, new) ==
    CASE new.enabled /\ new.enabled # old.enabled -> "updateCron"
      [] ~new.enabled /\ old.cron # NoCron -> "updateDelete"
      [] OTHER -> "updatePut"

(* update_agent_schedule: which of the three ways it takes.  An enabled     *)
(* schedule whose timetable or switch changed needs a new cron; one that is *)
(* switched off loses the cron it names.                                    *)
UpdateBranch(old, new) ==
    CASE new.enabled /\ (new.timetable # old.timetable \/ new.enabled # old.enabled) -> "updateCron"
      [] ~new.enabled /\ old.cron # NoCron -> "updateDelete"
      [] OTHER -> "updatePut"

Update(h, enabled, timetable) ==
    LET new == Rec(enabled, timetable, record.cron)
        way == UpdateBranch(record, new)
    IN  /\ MayStart(h) /\ Exists(record)
        /\ Step(h, Frame(way, IF way = "updateDelete" THEN WithCron(new, NoCron) ELSE new,
                         record.cron))
        /\ UNCHANGED <<record, crons, nextCron, ghosts>>

UpdateRegister(h) ==
    /\ frame[h].pc = "updateCron"
    /\ CreateCron(frame[h].rec.timetable)
    /\ Step(h, Frame("updateDelete", WithCron(frame[h].rec, nextCron), frame[h].old))
    /\ UNCHANGED <<record, ghosts>>

UpdateRegisterFails(h) ==
    /\ frame[h].pc = "updateCron"
    /\ Fails /\ Error
    /\ CreateCron(frame[h].rec.timetable) \/ UNCHANGED <<crons, nextCron>>
    /\ Step(h, Idle)
    /\ UNCHANGED record

UpdateDelete(h) ==
    /\ frame[h].pc = "updateDelete"
    /\ DeleteCron(frame[h].old)
    /\ Step(h, Frame("updatePut", frame[h].rec, NoCron))
    /\ UNCHANGED <<record, nextCron, told>>

UpdatePut(h) ==
    /\ frame[h].pc = "updatePut"
    /\ Put(frame[h].rec)
    /\ Answer(frame[h].rec)
    /\ Step(h, Idle)
    /\ UNCHANGED <<crons, nextCron, failed>>

(* delete_agent_schedule                                                    *)
Delete(h) ==
    /\ MayStart(h) /\ Exists(record)
    /\ Step(h, Frame("deleteCron", NoRecord, record.cron))
    /\ UNCHANGED <<record, crons, nextCron, ghosts>>

DeleteUnregister(h) ==
    /\ frame[h].pc = "deleteCron"
    /\ DeleteCron(frame[h].old)
    /\ Step(h, Frame("deleteItem", NoRecord, NoCron))
    /\ UNCHANGED <<record, nextCron, told>>

(* Mutant: the record is marked instead of deleted.                         *)
MutDeleteItem(h) ==
    /\ frame[h].pc = "deleteItem"
    /\ Put(Rec(FALSE, record.timetable, NoCron))
    /\ told' = "gone"
    /\ Step(h, Idle)
    /\ UNCHANGED <<crons, nextCron, failed>>

DeleteItem(h) ==
    /\ frame[h].pc = "deleteItem"
    /\ Put(NoRecord)
    /\ told' = "gone"
    /\ Step(h, Idle)
    /\ UNCHANGED <<crons, nextCron, failed>>

(* The writes of a request to the store raise.                              *)
WriteFails(h) ==
    /\ frame[h].pc \in {"createPut", "createUndo", "createSave", "updatePut", "deleteItem"}
    /\ Fails /\ Error
    /\ Put(frame[h].rec) \/ UNCHANGED record
    /\ Step(h, Idle)
    /\ UNCHANGED <<crons, nextCron>>

----------------------------------------------------------------------------
(* A cron fires: the scheduler graph calls launch_scheduled_agent_run.      *)
Fire(h) ==
    /\ MayStart(h) /\ crons # {}
    /\ Step(h, Frame("launchRead", NoRecord, NoCron))
    /\ UNCHANGED <<record, crons, nextCron, ghosts>>

(* Missing and disabled schedules launch nothing.                           *)
LaunchRead(h) ==
    /\ frame[h].pc = "launchRead"
    /\ Step(h, IF record.enabled THEN Frame("launchRun", record, NoCron) ELSE Idle)
    /\ UNCHANGED <<record, crons, nextCron, ghosts>>

(* A fresh thread and its run; any of the calls may raise.                  *)
LaunchRun(h) ==
    /\ frame[h].pc = "launchRun"
    /\ \/ Step(h, Frame("launchPut", frame[h].rec, NoCron)) /\ UNCHANGED failed
       \/ Step(h, Idle) /\ Fails
    /\ UNCHANGED <<record, crons, nextCron, told>>

(* The record as it was read, with the last_* fields of this launch.        *)
LaunchPut(h) ==
    /\ frame[h].pc = "launchPut"
    /\ \/ Put(frame[h].rec) /\ UNCHANGED failed
       \/ Fails /\ UNCHANGED record
    /\ Step(h, Idle)
    /\ UNCHANGED <<crons, nextCron, told>>

Next ==
    \E h \in Requests :
       \/ \E t \in Timetables : Create(h, t) \/ \E e \in BOOLEAN : Update(h, e, t)
       \/ Delete(h) \/ Fire(h)
       \/ CreatePut(h) \/ CreateRegister(h) \/ CreateRegisterFails(h) \/ CreateUndo(h) \/ CreateSave(h)
       \/ UpdateRegister(h) \/ UpdateRegisterFails(h) \/ UpdateDelete(h) \/ UpdatePut(h)
       \/ DeleteUnregister(h) \/ DeleteItem(h) \/ WriteFails(h)
       \/ LaunchRead(h) \/ LaunchRun(h) \/ LaunchPut(h)

Spec == Init /\ [][Next]_vars

----------------------------------------------------------------------------
(* Types; every cron_id that is remembered or registered was handed out.    *)
Given == 1..(nextCron - 1)
Records == [enabled : BOOLEAN, timetable : Timetables, cron : Given \cup {NoCron}] \cup {NoRecord}
Frames == [pc : PCs, rec : Records, old : Given \cup {NoCron}]
TypeOK ==
    /\ nextCron \in 1..(MaxCrons + 1)
    /\ record \in Records
    /\ crons \subseteq [id : Given, timetable : Timetables]
    /\ frame \in [Requests -> Frames]
    /\ told \in {"nothing", "pending", "on", "off", "gone", "error"}
    /\ failed \in BOOLEAN

(* Unless a call has failed, the two places agree whenever no request is in *)
(* progress: an enabled schedule has one cron, the one its record names,    *)
(* with the record's timetable, so it fires once per tick; a paused or      *)
(* deleted one has none.  This spans the order of the steps of create,      *)
(* update (its three branches) and delete, and what launches write back.    *)
Due(rec) == IF rec.enabled THEN {CronOf(rec)} ELSE {}
CronMatches == Quiet /\ ~failed => crons = Due(record)

(* What the owner was told stays so until the owner changes it, whichever   *)
(* calls fail: a paused schedule stays paused, a deleted one is not written *)
(* back by a launch (test_update_agent_schedule_pause_deletes_cron).        *)
StaysAsTold ==
    /\ told = "on" => record.enabled
    /\ told = "off" => Exists(record) /\ ~record.enabled
    /\ told = "gone" => ~Exists(record)

(* The strengthening, for requests that do not overlap: what a request      *)
(* holds, and which crons there are, at each place where it can be.         *)
Crons(set) == ~failed => crons = set
FrameFits(f) ==
    /\ f.pc \in {"createPut", "createCron", "createSave"} => f.rec.enabled /\ told = "pending"
    /\ f.pc \in {"createPut", "createCron"} => Crons({})
    /\ f.pc = "createUndo" => f.rec = NoRecord /\ failed /\ told = "pending"
    /\ f.pc = "createSave" => Crons(Due(f.rec))
    /\ f.pc = "updateCron" => Exists(f.rec) /\ f.rec.enabled /\ Crons(Due(record))
    /\ f.pc = "updateDelete" =>
         /\ Exists(f.rec)
         /\ f.rec.enabled => f.rec.cron # f.old
         /\ Crons(Due(record) \cup Due(f.rec))
    /\ f.pc = "updatePut" => Exists(f.rec) /\ Crons(Due(f.rec))
    /\ f.pc = "deleteCron" => Crons(Due(record))
    /\ f.pc = "deleteItem" => f.rec = NoRecord /\ Crons({})
    /\ f.pc \in {"updateCron", "updateDelete", "deleteCron"} => f.old = record.cron
    /\ f.pc \in {"launchRead", "launchRun", "launchPut"} => Crons(Due(record))
    /\ f.pc \in {"launchRun", "launchPut"} => f.rec = record

OneAtATime == \A g, h \in Requests : frame[g].pc # "idle" /\ frame[h].pc # "idle" => g = h

Inv ==
    /\ TypeOK /\ CronMatches /\ StaysAsTold /\ OneAtATime
    /\ told = "nothing" => record = NoRecord
    /\ \A h \in Requests : FrameFits(frame[h])
=============================================================================
