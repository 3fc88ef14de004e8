--------------------------- MODULE SchedulesProofs ---------------------------
(***************************************************************************)
(* Proofs about Schedules for any number of request slots, timetables and  *)
(* crons, and for failing calls, as long as requests do not overlap.       *)
(***************************************************************************)
EXTENDS Schedules, TLAPS

LEMMA InitInv == Init => Inv
<1> SUFFICES ASSUME Init PROVE Inv OBVIOUS
<1>1. Idle \in Frames BY DEF Idle, Frame, Frames, PCs, Records
<1>2. TypeOK
  <2>1. nextCron \in 1..(MaxCrons + 1) BY MaxCronsIsNat DEF Init
  <2>2. record \in Records BY DEF Init, Records
  <2> QED BY <1>1, <2>1, <2>2 DEF Init, TypeOK
<1>3. CronMatches /\ StaysAsTold BY DEF Init, CronMatches, Due, NoRecord, Rec, StaysAsTold
<1>4. OneAtATime BY DEF Init, OneAtATime, Idle, Frame
<1>5. \A h \in Requests : FrameFits(frame[h]) BY DEF Init, FrameFits, Idle, Frame
<1> QED BY <1>2, <1>3, <1>4, <1>5 DEF Inv, Init

LEMMA IntervalGrows ==
    ASSUME NEW m \in Nat, NEW n \in Nat, m <= n PROVE 1..(m - 1) \subseteq 1..(n - 1)
OBVIOUS

(* Ids that were handed out stay so.                                        *)
LEMMA GivenGrows ==
    ASSUME TypeOK, nextCron' \in 1..(MaxCrons + 1), nextCron <= nextCron'
    PROVE  /\ Given \subseteq Given'
           /\ Records \subseteq Records'
           /\ Frames \subseteq Frames'
           /\ [id : Given, timetable : Timetables] \subseteq [id : Given', timetable : Timetables]
<1>1. Given \subseteq Given'
  <2>1. nextCron \in Nat /\ nextCron' \in Nat BY MaxCronsIsNat DEF TypeOK
  <2>2. 1..(nextCron - 1) \subseteq 1..(nextCron' - 1) BY <2>1, IntervalGrows
  <2> QED BY <2>2 DEF Given
<1>2. Records \subseteq Records' BY <1>1 DEF Records
<1>3. Frames \subseteq Frames' BY <1>1, <1>2 DEF Frames
<1> QED BY <1>1, <1>2, <1>3

(* The request in progress takes a step, the others have nothing to do.     *)
LEMMA OneStep ==
    ASSUME Inv, NEW h \in Requests,
           \A g \in Requests : g # h => frame[g].pc = "idle",
           frame'[h] \in Frames', frame' = [frame EXCEPT ![h] = frame'[h]],
           nextCron' \in 1..(MaxCrons + 1), nextCron <= nextCron',
           record' \in Records', crons' \subseteq [id : Given', timetable : Timetables],
           told' \in {"pending", "on", "off", "gone", "error"} \cup {told}, failed' \in BOOLEAN,
           StaysAsTold', told' = "nothing" => record' = record,
           frame'[h].pc = "idle" => Crons(Due(record))',
           FrameFits(frame[h])'
    PROVE  Inv'
<1>1. frame \in [Requests -> Frames'] BY GivenGrows DEF Inv, TypeOK
<1>2. frame' \in [Requests -> Frames'] BY <1>1
<1>3. TypeOK' BY <1>2 DEF Inv, TypeOK
<1>4. \A g \in Requests : g # h => frame'[g].pc = "idle" BY DEF Inv, TypeOK
<1>5. OneAtATime' BY <1>4 DEF OneAtATime
<1>6. CronMatches' BY DEF CronMatches, Quiet, Crons
<1>7. ASSUME NEW g \in Requests PROVE FrameFits(frame[g])'
  <2>1. CASE g = h BY <2>1
  <2>2. CASE g # h BY <1>4, <2>2 DEF FrameFits
  <2> QED BY <2>1, <2>2
<1>8. (told = "nothing" => record = NoRecord)' BY DEF Inv
<1> QED BY <1>3, <1>5, <1>6, <1>7, <1>8 DEF Inv

(* The same for a step that makes no cron.                                  *)
LEMMA PlainStep ==
    ASSUME Inv, NEW h \in Requests,
           \A g \in Requests : g # h => frame[g].pc = "idle",
           NEW f \in Frames, frame' = [frame EXCEPT ![h] = f], UNCHANGED nextCron,
           record' \in Records, crons' \subseteq crons,
           told' \in {"pending", "on", "off", "gone", "error"} \cup {told}, failed' \in BOOLEAN,
           StaysAsTold', told' = "nothing" => record' = record,
           f.pc = "idle" => Crons(Due(record))',
           FrameFits(frame[h])'
    PROVE  Inv'
<1>1. Records' = Records /\ Frames' = Frames /\ Given' = Given BY DEF Frames, Records, Given
<1>2. frame'[h] = f BY DEF Inv, TypeOK
<1>3. nextCron' \in 1..(MaxCrons + 1) /\ nextCron <= nextCron'
  BY MaxCronsIsNat DEF Inv, TypeOK
<1>4. crons' \subseteq [id : Given', timetable : Timetables] BY <1>1 DEF Inv, TypeOK
<1>0. f \in Frames' BY <1>1
<1>5. frame'[h] \in Frames' BY <1>0, <1>2
<1>8. frame' = [frame EXCEPT ![h] = frame'[h]] BY <1>2
<1>6. record' \in Records' BY <1>1
<1>7. frame'[h].pc = "idle" => Crons(Due(record))' BY <1>2
<1> QED BY <1>3, <1>4, <1>5, <1>6, <1>7, <1>8, OneStep

(* A step that makes a cron: the new id is none of the known ones.          *)
LEMMA RegisterFacts ==
    ASSUME Inv, NEW t \in Timetables, CreateCron(t)
    PROVE  /\ nextCron' \in 1..(MaxCrons + 1) /\ nextCron <= nextCron'
           /\ nextCron \in Given' /\ nextCron \notin Given \cup {NoCron}
           /\ crons' \subseteq [id : Given', timetable : Timetables]
<1>1. nextCron \in Nat /\ nextCron >= 1 /\ nextCron <= MaxCrons /\ nextCron' = nextCron + 1
  BY MaxCronsIsNat DEF CreateCron, Inv, TypeOK
<1>2. nextCron' \in 1..(MaxCrons + 1) /\ nextCron <= nextCron' BY <1>1, MaxCronsIsNat
<1>3. nextCron \in Given' /\ nextCron \notin Given \cup {NoCron}
  <2>1. Given' = 1..nextCron BY <1>1 DEF Given
  <2> QED BY <1>1, <2>1 DEF Given, NoCron
<1>4. crons' \subseteq [id : Given', timetable : Timetables]
  <2>1. crons \subseteq [id : Given', timetable : Timetables] BY <1>2, GivenGrows DEF Inv, TypeOK
  <2> QED BY <2>1, <1>3 DEF CreateCron
<1> QED BY <1>2, <1>3, <1>4

(* Records and frames as the actions build them.                            *)
LEMMA RecFields ==
    ASSUME NEW e, NEW t, NEW c
    PROVE  Rec(e, t, c).enabled = e /\ Rec(e, t, c).timetable = t /\ Rec(e, t, c).cron = c
BY DEF Rec

LEMMA FrameFields ==
    ASSUME NEW l, NEW r, NEW o
    PROVE  Frame(l, r, o).pc = l /\ Frame(l, r, o).rec = r /\ Frame(l, r, o).old = o
BY DEF Frame

LEMMA FrameIsFrame ==
    ASSUME NEW l \in PCs, NEW r \in Records, NEW o \in Given \cup {NoCron}
    PROVE  Frame(l, r, o) \in Frames
BY DEF Frame, Frames

LEMMA NoRecordFits == NoRecord \in Records /\ ~NoRecord.enabled /\ NoCron \in Given \cup {NoCron}
BY DEF NoRecord, Rec, Records

LEMMA RecordTypes ==
    ASSUME NEW r \in Records
    PROVE  /\ r.enabled \in BOOLEAN /\ r.cron \in Given \cup {NoCron}
           /\ r.enabled => Exists(r)
           /\ Exists(r) => r.timetable \in Timetables
<1>1. CASE r = NoRecord BY <1>1 DEF NoRecord, Rec, Exists
<1>2. CASE r # NoRecord
  <2>1. r \in [enabled : BOOLEAN, timetable : Timetables, cron : Given \cup {NoCron}]
    BY <1>2 DEF Records
  <2> QED BY <1>2, <2>1 DEF Exists
<1> QED BY <1>1, <1>2

LEMMA RecIsRecord ==
    ASSUME NEW e \in BOOLEAN, NEW t \in Timetables, NEW c \in Given \cup {NoCron}
    PROVE  Rec(e, t, c) \in Records /\ Exists(Rec(e, t, c))
BY NoneIsNoTimetable DEF Rec, Records, Exists, NoRecord

(* The steps that begin a request or a launch, on a quiet thread.           *)
LEMMA BeginInv ==
    ASSUME Inv, Overlap = FALSE, NEW h \in Requests,
           \/ \E t \in Timetables, e \in BOOLEAN : Create(h, t) \/ Update(h, e, t)
           \/ Delete(h) \/ Fire(h)
    PROVE  Inv'
<1>0. /\ \A g \in Requests : frame[g].pc = "idle"
      /\ UNCHANGED <<record, crons, nextCron, failed>>
  BY DEF Create, Update, Delete, Fire, MayStart, Quiet, ghosts
<1>1. Crons(Due(record)) BY <1>0 DEF Inv, CronMatches, Quiet, Crons
<1>2. record \in Records /\ record.cron \in Given \cup {NoCron} /\ failed \in BOOLEAN
      /\ crons \subseteq [id : Given, timetable : Timetables] /\ frame \in [Requests -> Frames]
  BY RecordTypes DEF Inv, TypeOK
<1>3. ASSUME NEW t \in Timetables, Create(h, t) PROVE Inv'
  <2> DEFINE f == Frame("createPut", Rec(TRUE, t, NoCron), NoCron)
  <2>1. f \in Frames BY RecIsRecord, FrameIsFrame DEF PCs
  <2>2. frame' = [frame EXCEPT ![h] = f] /\ told' = "pending" BY <1>3 DEF Create, Step
  <2>3. frame'[h] = f BY <1>2, <2>2
  <2>4. f.pc = "createPut" /\ f.rec.enabled BY DEF Frame, Rec
  <2>5. record = NoRecord BY <1>3 DEF Create, Inv
  <2>6. Crons({})' BY <1>0, <1>1, <2>5, NoRecordFits DEF Crons, Due
  <2> HIDE DEF f
  <2>7. FrameFits(frame[h])' BY <2>2, <2>3, <2>4, <2>6 DEF FrameFits
  <2>8. StaysAsTold' BY <2>2 DEF StaysAsTold
  <2> QED BY <1>0, <1>2, <2>1, <2>2, <2>4, <2>7, <2>8, PlainStep
<1>4. ASSUME NEW t \in Timetables, NEW e \in BOOLEAN, Update(h, e, t) PROVE Inv'
  <2> DEFINE new == Rec(e, t, record.cron)
             way == UpdateBranch(record, new)
             r == IF way = "updateDelete" THEN WithCron(new, NoCron) ELSE new
             f == Frame(way, r, record.cron)
  <2>1. Exists(record) /\ frame' = [frame EXCEPT ![h] = f] /\ told' = told
    BY <1>4 DEF Update, Step, ghosts
  <2>2. new \in Records /\ Exists(new) BY <1>2, RecIsRecord
  <2>3. new.enabled = e /\ new.timetable = t /\ new.cron = record.cron BY RecFields
  <2>4. WithCron(new, NoCron) \in Records /\ Exists(WithCron(new, NoCron))
        /\ WithCron(new, NoCron).enabled = e
    BY <2>3, RecIsRecord, RecFields DEF WithCron
  <2>5. way \in {"updateCron", "updateDelete", "updatePut"} BY DEF UpdateBranch
  <2>6. f \in Frames BY <1>2, <2>2, <2>4, <2>5, FrameIsFrame DEF PCs
  <2>7. f.pc = way /\ f.rec = r /\ f.old = record.cron BY FrameFields
  <2>8. frame'[h] = f BY <1>2, <2>1
  <2>9. CASE way = "updateCron"
    <3>1. r = new /\ e BY <2>9, <2>3 DEF UpdateBranch
    <3>2. Exists(f.rec) /\ f.rec.enabled BY <2>2, <2>3, <2>7, <3>1
    <3> HIDE DEF f, r, way, new
    <3>3. FrameFits(frame[h])' BY <1>0, <1>1, <2>7, <2>8, <2>9, <3>2 DEF FrameFits, Crons, Due
    <3> QED BY <1>0, <1>2, <2>1, <2>6, <2>7, <2>9, <3>3, PlainStep DEF Inv, StaysAsTold
  <2>10. CASE way = "updateDelete"
    <3>1. ~e BY <2>10, <2>3 DEF UpdateBranch
    <3>2. Exists(f.rec) /\ ~f.rec.enabled BY <2>4, <2>7, <2>10, <3>1
    <3> HIDE DEF f, r, way, new
    <3>3. FrameFits(frame[h])' BY <1>0, <1>1, <2>7, <2>8, <2>10, <3>2 DEF FrameFits, Crons, Due
    <3> QED BY <1>0, <1>2, <2>1, <2>6, <2>7, <2>10, <3>3, PlainStep DEF Inv, StaysAsTold
  <2>11. CASE way = "updatePut"
    <3>1. r = new BY <2>11
    <3>2. (e => t = record.timetable /\ record.enabled) /\ (~e => record.cron = NoCron)
      BY <2>11, <2>3, <2>1, <1>2, RecordTypes DEF UpdateBranch
    <3>3. ~failed => crons = Due(new)
      <4> SUFFICES ASSUME ~failed PROVE crons = Due(new) OBVIOUS
      <4>1. crons = Due(record) BY <1>1 DEF Crons
      <4>2. CASE e BY <4>1, <4>2, <3>2, <2>3 DEF Due, CronOf
      <4>3. CASE ~e
        <5>1. NoCron \notin Given BY DEF NoCron, Given
        <5>2. \A c \in crons : c.id # NoCron BY <5>1, <1>2
        <5>3. ~record.enabled BY <4>1, <4>3, <3>2, <5>2 DEF Due, CronOf
        <5> QED BY <4>1, <4>3, <5>3, <2>3 DEF Due
      <4> QED BY <4>2, <4>3
    <3>4. Exists(f.rec) /\ (~failed => crons = Due(f.rec)) BY <2>2, <2>7, <3>1, <3>3
    <3> HIDE DEF f, r, way, new
    <3>5. FrameFits(frame[h])' BY <1>0, <2>7, <2>8, <2>11, <3>4 DEF FrameFits, Crons, Due
    <3> QED BY <1>0, <1>2, <2>1, <2>6, <2>7, <2>11, <3>5, PlainStep DEF Inv, StaysAsTold
  <2> QED BY <2>5, <2>9, <2>10, <2>11
<1>5. CASE Delete(h)
  <2> DEFINE f == Frame("deleteCron", NoRecord, record.cron)
  <2>1. f \in Frames BY <1>2, NoRecordFits, FrameIsFrame DEF PCs
  <2>2. frame' = [frame EXCEPT ![h] = f] /\ told' = told BY <1>5 DEF Delete, Step, ghosts
  <2>3. frame'[h] = f /\ f.pc = "deleteCron" /\ f.old = record.cron BY <1>2, <2>2, FrameFields
  <2> HIDE DEF f
  <2>4. FrameFits(frame[h])' BY <1>0, <1>1, <2>3 DEF FrameFits, Crons, Due
  <2> QED BY <1>0, <1>2, <2>1, <2>2, <2>3, <2>4, PlainStep DEF Inv, StaysAsTold
<1>6. CASE Fire(h)
  <2> DEFINE f == Frame("launchRead", NoRecord, NoCron)
  <2>1. f \in Frames BY NoRecordFits, FrameIsFrame DEF PCs
  <2>2. frame' = [frame EXCEPT ![h] = f] /\ told' = told BY <1>6 DEF Fire, Step, ghosts
  <2>3. frame'[h] = f /\ f.pc = "launchRead" BY <1>2, <2>2, FrameFields
  <2> HIDE DEF f
  <2>4. FrameFits(frame[h])' BY <1>0, <1>1, <2>3 DEF FrameFits, Crons, Due
  <2> QED BY <1>0, <1>2, <2>1, <2>2, <2>3, <2>4, PlainStep DEF Inv, StaysAsTold
<1> QED BY <1>3, <1>4, <1>5, <1>6

(* The steps of creating a schedule.                                        *)
LEMMA CreateInv ==
    ASSUME Inv, NEW h \in Requests,
           \/ CreatePut(h) \/ CreateRegister(h) \/ CreateRegisterFails(h)
           \/ CreateUndo(h) \/ CreateSave(h)
    PROVE  Inv'
<1> DEFINE f == frame[h]
<1>0. /\ \A g \in Requests : g # h => frame[g].pc = "idle"
      /\ f \in Frames /\ f.rec \in Records /\ f.rec.enabled \in BOOLEAN /\ FrameFits(f)
  <2>1. f.pc # "idle"
    BY DEF CreatePut, CreateRegister, CreateRegisterFails, CreateUndo, CreateSave
  <2>2. \A g \in Requests : g # h => frame[g].pc = "idle" BY <2>1 DEF Inv, OneAtATime
  <2>3. f \in Frames /\ FrameFits(f) BY DEF Inv, TypeOK
  <2>4. f.rec \in Records BY <2>3 DEF Frames
  <2> QED BY <2>2, <2>3, <2>4, RecordTypes
<1>1. /\ record \in Records /\ failed \in BOOLEAN /\ frame \in [Requests -> Frames]
      /\ crons \subseteq crons /\ StaysAsTold
  BY DEF Inv, TypeOK
<1>2. Idle \in Frames /\ Idle.pc = "idle"
  BY NoRecordFits, FrameIsFrame, FrameFields DEF Idle, PCs
<1>3. CASE CreatePut(h)
  <2> DEFINE n == Frame("createCron", f.rec, NoCron)
  <2>1. n \in Frames BY <1>0, NoRecordFits, FrameIsFrame DEF PCs
  <2>2. frame' = [frame EXCEPT ![h] = n] /\ record' = f.rec
        /\ UNCHANGED <<crons, nextCron, told, failed>>
    BY <1>3 DEF CreatePut, Step, Put, ghosts
  <2>3. f.rec.enabled /\ told = "pending" /\ (~failed => crons = {})
    BY <1>0, <1>3 DEF CreatePut, FrameFits, Crons
  <2>4. frame'[h] = n /\ n.pc = "createCron" /\ n.rec = f.rec BY <1>1, <2>2, FrameFields
  <2> HIDE DEF f, n
  <2>5. FrameFits(frame[h])' BY <2>2, <2>3, <2>4 DEF FrameFits, Crons
  <2>6. StaysAsTold' BY <2>2, <2>3 DEF StaysAsTold
  <2> QED BY <1>0, <1>1, <2>1, <2>2, <2>3, <2>4, <2>5, <2>6, PlainStep
<1>4. CASE CreateRegister(h)
  <2> DEFINE r == WithCron(f.rec, nextCron)
             n == Frame("createSave", r, NoCron)
  <2>1. f.rec.enabled /\ told = "pending" /\ (~failed => crons = {})
    BY <1>0, <1>4 DEF CreateRegister, FrameFits, Crons
  <2>2. f.rec.timetable \in Timetables BY <1>0, <2>1, RecordTypes
  <2>3. CreateCron(f.rec.timetable) /\ UNCHANGED <<record, told, failed>>
        /\ frame' = [frame EXCEPT ![h] = n]
    BY <1>4 DEF CreateRegister, Step, ghosts
  <2>4. r.enabled /\ r.timetable = f.rec.timetable /\ r.cron = nextCron
    BY <2>1 DEF WithCron, Rec
  <2>5. r \in Records'
    <3>1. nextCron \in Given' BY <2>2, <2>3, RegisterFacts
    <3> QED BY <1>0, <2>2, <3>1 DEF Records, WithCron, Rec
  <2>6. n \in Frames' BY <2>5 DEF Frames, Frame, PCs
  <2>7. frame'[h] = n /\ n.pc = "createSave" /\ n.rec = r BY <1>1, <2>3, FrameFields
  <2>8. ~failed => crons' = Due(r) BY <2>1, <2>3, <2>4 DEF Due, CronOf, CreateCron
  <2>9. record' \in Records' BY <1>1, <2>2, <2>3, RegisterFacts, GivenGrows DEF Inv
  <2> HIDE DEF f, n, r
  <2>10. FrameFits(frame[h])' BY <2>1, <2>3, <2>4, <2>7, <2>8 DEF FrameFits, Crons, Due
  <2>11. StaysAsTold' BY <2>1, <2>3 DEF StaysAsTold
  <2>12. frame'[h] \in Frames' /\ frame' = [frame EXCEPT ![h] = frame'[h]] BY <2>3, <2>6, <2>7
  <2> QED BY <1>0, <1>1, <2>1, <2>2, <2>3, <2>7, <2>9, <2>10, <2>11, <2>12, RegisterFacts, OneStep
<1>5. CASE CreateRegisterFails(h)
  <2> DEFINE n == Frame("createUndo", NoRecord, NoCron)
  <2>1. f.rec.enabled /\ told = "pending" BY <1>0, <1>5 DEF CreateRegisterFails, FrameFits
  <2>2. f.rec.timetable \in Timetables BY <1>0, <2>1, RecordTypes
  <2>3. n \in Frames BY NoRecordFits, FrameIsFrame DEF PCs
  <2>4. frame' = [frame EXCEPT ![h] = n] /\ UNCHANGED <<record, told>> /\ failed' = TRUE
    BY <1>5 DEF CreateRegisterFails, Step, Fails
  <2>5. frame'[h] = n /\ n.pc = "createUndo" /\ n.rec = NoRecord BY <1>1, <2>4, FrameFields
  <2> HIDE DEF n
  <2>6. FrameFits(frame[h])' BY <2>1, <2>4, <2>5 DEF FrameFits
  <2>7. StaysAsTold' BY <2>1, <2>4 DEF StaysAsTold
  <2>8. CASE CreateCron(f.rec.timetable)
    <3>1. record' \in Records' /\ n \in Frames'
      BY <1>1, <2>2, <2>3, <2>4, <2>8, RegisterFacts, GivenGrows DEF Inv
    <3>2. frame'[h] \in Frames' /\ frame' = [frame EXCEPT ![h] = frame'[h]] BY <2>4, <2>5, <3>1
    <3> QED BY <1>0, <1>1, <2>1, <2>2, <2>4, <2>5, <2>6, <2>7, <2>8, <3>1, <3>2, RegisterFacts, OneStep
  <2>9. CASE UNCHANGED <<crons, nextCron>>
    BY <1>0, <1>1, <2>1, <2>3, <2>4, <2>5, <2>6, <2>7, <2>9, PlainStep
  <2> QED BY <1>5, <2>8, <2>9 DEF CreateRegisterFails
<1>6. CASE CreateUndo(h)
  <2>1. frame' = [frame EXCEPT ![h] = Idle] /\ record' = NoRecord /\ told' = "error"
        /\ UNCHANGED <<crons, nextCron, failed>>
    BY <1>6 DEF CreateUndo, Put, Error, Step
  <2>2. failed BY <1>0, <1>6 DEF CreateUndo, FrameFits
  <2>3. frame'[h] = Idle BY <1>1, <2>1
  <2>4. FrameFits(frame[h])' BY <1>2, <2>3 DEF FrameFits
  <2> QED BY <1>0, <1>1, <1>2, <2>1, <2>2, <2>4, NoRecordFits, PlainStep DEF StaysAsTold, Crons
<1>7. CASE CreateSave(h)
  <2>1. f.rec.enabled /\ (~failed => crons = Due(f.rec))
    BY <1>0, <1>7 DEF CreateSave, FrameFits, Crons
  <2>2. frame' = [frame EXCEPT ![h] = Idle] /\ record' = f.rec /\ told' = "on"
        /\ UNCHANGED <<crons, nextCron, failed>>
    BY <1>7, <2>1 DEF CreateSave, Put, Answer, Step
  <2>3. frame'[h] = Idle BY <1>1, <2>2
  <2>4. FrameFits(frame[h])' BY <1>2, <2>3 DEF FrameFits
  <2>5. Crons(Due(record))' BY <2>1, <2>2 DEF Crons, Due
  <2>6. StaysAsTold' BY <2>1, <2>2 DEF StaysAsTold
  <2> QED BY <1>0, <1>1, <1>2, <2>2, <2>4, <2>5, <2>6, PlainStep
<1> QED BY <1>3, <1>4, <1>5, <1>6, <1>7

(* The steps of updating one.                                               *)
LEMMA UpdateInv ==
    ASSUME Inv, NEW h \in Requests,
           UpdateRegister(h) \/ UpdateRegisterFails(h) \/ UpdateDelete(h) \/ UpdatePut(h)
    PROVE  Inv'
<1> DEFINE f == frame[h]
<1>0. /\ \A g \in Requests : g # h => frame[g].pc = "idle"
      /\ f \in Frames /\ f.rec \in Records /\ f.old \in Given \cup {NoCron} /\ FrameFits(f)
      /\ f.rec.enabled \in BOOLEAN
  <2>1. f.pc # "idle" BY DEF UpdateRegister, UpdateRegisterFails, UpdateDelete, UpdatePut
  <2>2. \A g \in Requests : g # h => frame[g].pc = "idle" BY <2>1 DEF Inv, OneAtATime
  <2>3. f \in Frames /\ FrameFits(f) BY DEF Inv, TypeOK
  <2>4. f.rec \in Records /\ f.old \in Given \cup {NoCron} BY <2>3 DEF Frames
  <2> QED BY <2>2, <2>3, <2>4, RecordTypes
<1>1. /\ record \in Records /\ failed \in BOOLEAN /\ frame \in [Requests -> Frames]
      /\ crons \subseteq crons /\ StaysAsTold /\ (told = "nothing" => record = NoRecord)
  BY DEF Inv, TypeOK
<1>2. Idle \in Frames /\ Idle.pc = "idle"
  BY NoRecordFits, FrameIsFrame, FrameFields DEF Idle, PCs
<1>3. CASE UpdateRegister(h)
  <2> DEFINE r == WithCron(f.rec, nextCron)
             n == Frame("updateDelete", r, f.old)
  <2>1. f.rec.enabled /\ f.old = record.cron /\ (~failed => crons = Due(record))
    BY <1>0, <1>3 DEF UpdateRegister, FrameFits, Crons
  <2>2. f.rec.timetable \in Timetables BY <1>0, <2>1, RecordTypes
  <2>3. CreateCron(f.rec.timetable) /\ UNCHANGED <<record, told, failed>>
        /\ frame' = [frame EXCEPT ![h] = n]
    BY <1>3 DEF UpdateRegister, Step, ghosts
  <2>4. r.enabled /\ r.timetable = f.rec.timetable /\ r.cron = nextCron
    BY <2>1 DEF WithCron, Rec
  <2>5. r \in Records' /\ Exists(r) /\ f.old \in Given' \cup {NoCron} /\ f.old # nextCron
    <3>1. nextCron \in Given' /\ nextCron \notin Given \cup {NoCron} /\ Given \subseteq Given'
      BY <2>2, <2>3, RegisterFacts, GivenGrows DEF Inv
    <3>2. r \in Records' BY <1>0, <2>2, <3>1 DEF Records, WithCron, Rec
    <3>3. Exists(r) BY <2>4, NoRecordFits DEF Exists
    <3> QED BY <1>0, <3>1, <3>2, <3>3
  <2>6. n \in Frames' BY <2>5 DEF Frames, Frame, PCs
  <2>7. frame'[h] = n /\ n.pc = "updateDelete" /\ n.rec = r /\ n.old = f.old
    BY <1>1, <2>3, FrameFields
  <2>8. ~failed => crons' = Due(record) \cup Due(r) BY <2>1, <2>3, <2>4 DEF Due, CronOf, CreateCron
  <2>9. record' \in Records' BY <1>1, <2>2, <2>3, RegisterFacts, GivenGrows DEF Inv
  <2> HIDE DEF f, n, r
  <2>10. FrameFits(frame[h])'
    BY <2>1, <2>3, <2>4, <2>5, <2>7, <2>8 DEF FrameFits, Crons, Due
  <2>11. StaysAsTold' BY <1>1, <2>3 DEF StaysAsTold
  <2>12. frame'[h] \in Frames' /\ frame' = [frame EXCEPT ![h] = frame'[h]] BY <2>3, <2>6, <2>7
  <2> QED BY <1>0, <1>1, <2>2, <2>3, <2>7, <2>9, <2>10, <2>11, <2>12, RegisterFacts, OneStep
<1>4. CASE UpdateRegisterFails(h)
  <2>1. f.rec.enabled BY <1>0, <1>4 DEF UpdateRegisterFails, FrameFits
  <2>2. f.rec.timetable \in Timetables BY <1>0, <2>1, RecordTypes
  <2>3. frame' = [frame EXCEPT ![h] = Idle] /\ UNCHANGED record /\ told' = "error" /\ failed' = TRUE
    BY <1>4 DEF UpdateRegisterFails, Step, Fails, Error
  <2>4. frame'[h] = Idle BY <1>1, <2>3
  <2>5. FrameFits(frame[h])' BY <1>2, <2>4 DEF FrameFits
  <2>6. StaysAsTold' /\ Crons(Due(record))' BY <2>3 DEF StaysAsTold, Crons
  <2>7. CASE CreateCron(f.rec.timetable)
    <3>1. record' \in Records' /\ Idle \in Frames'
      BY <1>1, <1>2, <2>2, <2>3, <2>7, RegisterFacts, GivenGrows DEF Inv
    <3>2. frame'[h] \in Frames' /\ frame' = [frame EXCEPT ![h] = frame'[h]] BY <2>3, <2>4, <3>1
    <3> QED BY <1>0, <1>1, <2>2, <2>3, <2>4, <2>5, <2>6, <2>7, <3>1, <3>2, RegisterFacts, OneStep
  <2>8. CASE UNCHANGED <<crons, nextCron>>
    BY <1>0, <1>1, <1>2, <2>3, <2>5, <2>6, <2>8, PlainStep
  <2> QED BY <1>4, <2>7, <2>8 DEF UpdateRegisterFails
<1>5. CASE UpdateDelete(h)
  <2> DEFINE n == Frame("updatePut", f.rec, NoCron)
  <2>1. /\ Exists(f.rec) /\ f.old = record.cron /\ (f.rec.enabled => f.rec.cron # f.old)
        /\ ~failed => crons = Due(record) \cup Due(f.rec)
    BY <1>0, <1>5 DEF UpdateDelete, FrameFits, Crons
  <2>2. n \in Frames BY <1>0, NoRecordFits, FrameIsFrame DEF PCs
  <2>3. frame' = [frame EXCEPT ![h] = n] /\ UNCHANGED <<record, nextCron, told>> /\ DeleteCron(f.old)
    BY <1>5 DEF UpdateDelete, Step
  <2>4. frame'[h] = n /\ n.pc = "updatePut" /\ n.rec = f.rec BY <1>1, <2>3, FrameFields
  <2>5. crons' \subseteq crons /\ failed' \in BOOLEAN BY <1>1, <2>3 DEF DeleteCron, Fails
  <2>6. ~failed' => crons' = Due(f.rec)
    <3> SUFFICES ASSUME ~failed' PROVE crons' = Due(f.rec) OBVIOUS
    <3>1. crons' = {c \in crons : c.id # f.old} /\ ~failed BY <2>3 DEF DeleteCron, Fails
    <3>2. crons = Due(record) \cup Due(f.rec) BY <2>1, <3>1
    <3>3. \A c \in Due(record) : c.id = f.old BY <2>1 DEF Due, CronOf
    <3>4. \A c \in Due(f.rec) : c.id # f.old BY <2>1 DEF Due, CronOf
    <3> QED BY <3>1, <3>2, <3>3, <3>4
  <2> HIDE DEF f, n
  <2>7. FrameFits(frame[h])' BY <2>1, <2>4, <2>6 DEF FrameFits, Crons, Due
  <2>8. StaysAsTold' BY <1>1, <2>3 DEF StaysAsTold
  <2> QED BY <1>0, <1>1, <2>2, <2>3, <2>4, <2>5, <2>7, <2>8, PlainStep
<1>6. CASE UpdatePut(h)
  <2>1. Exists(f.rec) /\ (~failed => crons = Due(f.rec))
    BY <1>0, <1>6 DEF UpdatePut, FrameFits, Crons
  <2>2. frame' = [frame EXCEPT ![h] = Idle] /\ record' = f.rec
        /\ told' = (IF f.rec.enabled THEN "on" ELSE "off") /\ UNCHANGED <<crons, nextCron, failed>>
    BY <1>6 DEF UpdatePut, Put, Answer, Step
  <2>3. frame'[h] = Idle BY <1>1, <2>2
  <2>4. FrameFits(frame[h])' BY <1>2, <2>3 DEF FrameFits
  <2>5. Crons(Due(record))' BY <2>1, <2>2 DEF Crons, Due
  <2>6. StaysAsTold' /\ told' \in {"on", "off"} BY <1>0, <2>1, <2>2 DEF StaysAsTold
  <2> QED BY <1>0, <1>1, <1>2, <2>2, <2>4, <2>5, <2>6, PlainStep
<1> QED BY <1>3, <1>4, <1>5, <1>6

(* The steps of deleting one, and the writes that raise.                    *)
LEMMA DeleteInv ==
    ASSUME Inv, NEW h \in Requests, DeleteUnregister(h) \/ DeleteItem(h) \/ WriteFails(h)
    PROVE  Inv'
<1> DEFINE f == frame[h]
<1>0. /\ \A g \in Requests : g # h => frame[g].pc = "idle"
      /\ f \in Frames /\ f.rec \in Records /\ FrameFits(f)
  <2>1. f.pc # "idle" BY DEF DeleteUnregister, DeleteItem, WriteFails
  <2>2. \A g \in Requests : g # h => frame[g].pc = "idle" BY <2>1 DEF Inv, OneAtATime
  <2>3. f \in Frames /\ FrameFits(f) BY DEF Inv, TypeOK
  <2>4. f.rec \in Records BY <2>3 DEF Frames
  <2> QED BY <2>2, <2>3, <2>4
<1>1. /\ record \in Records /\ failed \in BOOLEAN /\ frame \in [Requests -> Frames]
      /\ crons \subseteq crons /\ StaysAsTold /\ (told = "nothing" => record = NoRecord)
  BY DEF Inv, TypeOK
<1>2. Idle \in Frames /\ Idle.pc = "idle"
  BY NoRecordFits, FrameIsFrame, FrameFields DEF Idle, PCs
<1>3. CASE DeleteUnregister(h)
  <2> DEFINE n == Frame("deleteItem", NoRecord, NoCron)
  <2>1. f.old = record.cron /\ (~failed => crons = Due(record))
    BY <1>0, <1>3 DEF DeleteUnregister, FrameFits, Crons
  <2>2. n \in Frames BY NoRecordFits, FrameIsFrame DEF PCs
  <2>3. frame' = [frame EXCEPT ![h] = n] /\ UNCHANGED <<record, nextCron, told>> /\ DeleteCron(f.old)
    BY <1>3 DEF DeleteUnregister, Step
  <2>4. frame'[h] = n /\ n.pc = "deleteItem" /\ n.rec = NoRecord BY <1>1, <2>3, FrameFields
  <2>5. crons' \subseteq crons /\ failed' \in BOOLEAN BY <1>1, <2>3 DEF DeleteCron, Fails
  <2>6. ~failed' => crons' = {}
    <3> SUFFICES ASSUME ~failed' PROVE crons' = {} OBVIOUS
    <3>1. crons' = {c \in crons : c.id # f.old} /\ ~failed BY <2>3 DEF DeleteCron, Fails
    <3>2. \A c \in crons : c.id = f.old BY <2>1, <3>1 DEF Due, CronOf
    <3> QED BY <3>1, <3>2
  <2> HIDE DEF f, n
  <2>7. FrameFits(frame[h])' BY <2>4, <2>6 DEF FrameFits, Crons
  <2>8. StaysAsTold' BY <1>1, <2>3 DEF StaysAsTold
  <2> QED BY <1>0, <1>1, <2>2, <2>3, <2>4, <2>5, <2>7, <2>8, PlainStep
<1>4. CASE DeleteItem(h)
  <2>1. ~failed => crons = {} BY <1>0, <1>4 DEF DeleteItem, FrameFits, Crons
  <2>2. frame' = [frame EXCEPT ![h] = Idle] /\ record' = NoRecord /\ told' = "gone"
        /\ UNCHANGED <<crons, nextCron, failed>>
    BY <1>4 DEF DeleteItem, Put, Step
  <2>3. frame'[h] = Idle BY <1>1, <2>2
  <2>4. FrameFits(frame[h])' BY <1>2, <2>3 DEF FrameFits
  <2>5. Crons(Due(record))' BY <2>1, <2>2, NoRecordFits DEF Crons, Due
  <2>6. StaysAsTold' BY <2>2 DEF StaysAsTold, Exists
  <2> QED BY <1>0, <1>1, <1>2, <2>2, <2>4, <2>5, <2>6, NoRecordFits, PlainStep
<1>5. CASE WriteFails(h)
  <2>1. /\ frame' = [frame EXCEPT ![h] = Idle] /\ told' = "error" /\ failed' = TRUE
        /\ record' \in {record, f.rec} /\ UNCHANGED <<crons, nextCron>>
    BY <1>5 DEF WriteFails, Put, Step, Fails, Error
  <2>2. record' \in Records BY <1>0, <1>1, <2>1
  <2>3. frame'[h] = Idle BY <1>1, <2>1
  <2>4. FrameFits(frame[h])' BY <1>2, <2>3 DEF FrameFits
  <2>5. StaysAsTold' /\ Crons(Due(record))' BY <2>1 DEF StaysAsTold, Crons
  <2> QED BY <1>0, <1>1, <1>2, <2>1, <2>2, <2>4, <2>5, PlainStep
<1> QED BY <1>3, <1>4, <1>5

(* The steps of a launch: it writes back the record it has read, and no     *)
(* request has changed it since.                                            *)
LEMMA LaunchInv ==
    ASSUME Inv, NEW h \in Requests, LaunchRead(h) \/ LaunchRun(h) \/ LaunchPut(h)
    PROVE  Inv'
<1> DEFINE f == frame[h]
<1>0. /\ \A g \in Requests : g # h => frame[g].pc = "idle"
      /\ f \in Frames /\ f.rec \in Records /\ FrameFits(f)
  <2>1. f.pc # "idle" BY DEF LaunchRead, LaunchRun, LaunchPut
  <2>2. \A g \in Requests : g # h => frame[g].pc = "idle" BY <2>1 DEF Inv, OneAtATime
  <2>3. f \in Frames /\ FrameFits(f) BY DEF Inv, TypeOK
  <2>4. f.rec \in Records BY <2>3 DEF Frames
  <2> QED BY <2>2, <2>3, <2>4
<1>1. /\ record \in Records /\ failed \in BOOLEAN /\ frame \in [Requests -> Frames]
      /\ crons \subseteq crons /\ StaysAsTold
  BY DEF Inv, TypeOK
<1>2. Idle \in Frames /\ Idle.pc = "idle"
  BY NoRecordFits, FrameIsFrame, FrameFields DEF Idle, PCs
<1>3. ~failed => crons = Due(record)
  BY <1>0 DEF LaunchRead, LaunchRun, LaunchPut, FrameFits, Crons
<1>4. /\ UNCHANGED <<crons, nextCron, told, record>> /\ failed' \in BOOLEAN /\ (failed => failed')
  <2>1. CASE LaunchRead(h) BY <1>1, <2>1 DEF LaunchRead, ghosts
  <2>2. CASE LaunchRun(h) BY <1>1, <2>2 DEF LaunchRun, Fails
  <2>3. CASE LaunchPut(h)
    <3>1. f.rec = record BY <1>0, <2>3 DEF LaunchPut, FrameFits
    <3>2. record' = record BY <2>3, <3>1 DEF LaunchPut, Put
    <3>3. UNCHANGED <<crons, nextCron, told>> BY <2>3 DEF LaunchPut
    <3>4. failed' = failed \/ failed' = TRUE BY <2>3 DEF LaunchPut, Fails
    <3> QED BY <1>1, <3>2, <3>3, <3>4
  <2> QED BY <2>1, <2>2, <2>3
<1>5. Crons(Due(record))' BY <1>1, <1>3, <1>4 DEF Crons, Due
<1>6. StaysAsTold' BY <1>1, <1>4 DEF StaysAsTold
<1>7. ASSUME frame' = [frame EXCEPT ![h] = Idle] PROVE Inv'
  <2>1. frame'[h] = Idle BY <1>1, <1>7
  <2>2. FrameFits(frame[h])' BY <1>2, <2>1 DEF FrameFits
  <2> QED BY <1>0, <1>1, <1>2, <1>4, <1>5, <1>6, <1>7, <2>2, PlainStep
<1>8. ASSUME NEW l \in {"launchRun", "launchPut"},
             frame' = [frame EXCEPT ![h] = Frame(l, record, NoCron)]
      PROVE  Inv'
  <2> DEFINE n == Frame(l, record, NoCron)
  <2>1. n \in Frames BY <1>1, NoRecordFits, FrameIsFrame DEF PCs
  <2>2. frame'[h] = n /\ n.pc = l /\ n.rec = record BY <1>1, <1>8, FrameFields
  <2>3. frame' = [frame EXCEPT ![h] = n] BY <1>8
  <2> HIDE DEF n
  <2>4. FrameFits(frame[h])' BY <1>4, <1>5, <2>2 DEF FrameFits
  <2> QED BY <1>0, <1>1, <1>4, <1>5, <1>6, <2>1, <2>2, <2>3, <2>4, PlainStep
<1>9. CASE LaunchRead(h) BY <1>7, <1>8, <1>9 DEF LaunchRead, Step
<1>10. CASE LaunchRun(h)
  <2>1. f.rec = record BY <1>0, <1>10 DEF LaunchRun, FrameFits
  <2> QED BY <1>7, <1>8, <1>10, <2>1 DEF LaunchRun, Step
<1>11. CASE LaunchPut(h) BY <1>7, <1>11 DEF LaunchPut, Step
<1> QED BY <1>9, <1>10, <1>11

(* Every step of a system whose requests do not overlap keeps the invariant. *)
LEMMA NextInv == ASSUME Overlap = FALSE, Inv, [Next]_vars PROVE Inv'
<1>1. CASE UNCHANGED vars
  BY <1>1 DEF vars, Inv, TypeOK, CronMatches, StaysAsTold, OneAtATime, Quiet, Given, Records, Frames,
     FrameFits, Crons, Due
<1>2. CASE Next
  <2>1. PICK h \in Requests :
          \/ \E t \in Timetables, e \in BOOLEAN : Create(h, t) \/ Update(h, e, t)
          \/ Delete(h) \/ Fire(h)
          \/ CreatePut(h) \/ CreateRegister(h) \/ CreateRegisterFails(h) \/ CreateUndo(h) \/ CreateSave(h)
          \/ UpdateRegister(h) \/ UpdateRegisterFails(h) \/ UpdateDelete(h) \/ UpdatePut(h)
          \/ DeleteUnregister(h) \/ DeleteItem(h) \/ WriteFails(h)
          \/ LaunchRead(h) \/ LaunchRun(h) \/ LaunchPut(h)
    BY <1>2 DEF Next
  <2> QED BY <2>1, BeginInv, CreateInv, UpdateInv, DeleteInv, LaunchInv
<1> QED BY <1>1, <1>2

(* The inductive invariant holds throughout, for every number of request    *)
(* slots, timetables and crons and whichever calls fail, as long as         *)
(* requests and launches of one schedule do not overlap.                    *)
THEOREM Invariance == ASSUME Overlap = FALSE PROVE Spec => []Inv
BY InitInv, NextInv, PTL DEF Spec

(* Every cron id that is remembered or registered was handed out before.    *)
THEOREM TypeCorrect == ASSUME Overlap = FALSE PROVE Spec => []TypeOK
<1>1. Inv => TypeOK BY DEF Inv
<1> QED BY <1>1, Invariance, PTL

(* Between requests, as long as no call has failed, the server holds the    *)
(* cron of the enabled record and no other: create, the three ways of       *)
(* update, delete and launches keep the two places in step.                 *)
THEOREM CronsAlwaysMatch == ASSUME Overlap = FALSE PROVE Spec => []CronMatches
<1>1. Inv => CronMatches BY DEF Inv
<1> QED BY <1>1, Invariance, PTL

(* What the owner was told last stays true until the owner's next request,  *)
(* whichever calls fail; MCScheduleRevived.cfg shows that it needs the      *)
(* assumption.                                                              *)
THEOREM ToldStaysTrue == ASSUME Overlap = FALSE PROVE Spec => []StaysAsTold
<1>1. Inv => StaysAsTold BY DEF Inv
<1> QED BY <1>1, Invariance, PTL
=============================================================================
