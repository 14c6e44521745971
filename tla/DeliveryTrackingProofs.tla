----------------------- MODULE DeliveryTrackingProofs -----------------------
(***************************************************************************)
(* Theorems about DeliveryTracking, for any number of pools and clients.   *)
(***************************************************************************)
EXTENDS DeliveryTracking, TLAPS

\* A running request is about a pool, and asks for one of the delivery statuses.
TypeInv == /\ TypeOK
           /\ \A s \in Sessions : req[s].at # "idle" => req[s].pool \in Pools /\ req[s].to \in DeliveryStatuses

Steps == {"row", "pool", "warn", "write", "confirm"}

LEMMA YesNoType == ASSUME NEW b \in BOOLEAN PROVE YesNo(b) \in {"yes", "no"} /\ (YesNo(b) = "yes" <=> b)
BY Zenon DEF YesNo

LEMMA IdleType == Idle \in Local /\ Idle.at = "idle"
BY DEF Idle, Local, Notes

LEMMA AdvancedType ==
  ASSUME NEW r \in Local, NEW step \in Steps, NEW read \in Notes, NEW flag \in {"yes", "no"}, NEW fr \in {"yes", "no"}
  PROVE  /\ Advanced(r, step, read, flag, fr) \in Local
         /\ Advanced(r, step, read, flag, fr).at = step /\ Advanced(r, step, read, flag, fr).op = r.op
         /\ Advanced(r, step, read, flag, fr).pool = r.pool /\ Advanced(r, step, read, flag, fr).to = r.to
         /\ Advanced(r, step, read, flag, fr).flag = flag /\ Advanced(r, step, read, flag, fr).fragile = fr
BY DEF Advanced, Local, Steps

LEMMA AnswerType == ASSUME TypeInv, NEW s \in Sessions, Answer(s)
                    PROVE  /\ req' \in [Sessions -> Local]
                           /\ \A t \in Sessions : req'[t].at # "idle" => req'[t] = req[t]
BY IdleType DEF Answer, TypeInv, TypeOK

LEMMA AdvanceType ==
  ASSUME TypeInv, NEW s \in Sessions, NEW step \in Steps,
         NEW read \in Notes, NEW flag \in {"yes", "no"}, NEW fr \in {"yes", "no"}, Advance(s, step, read, flag, fr)
  PROVE  /\ req' \in [Sessions -> Local]
         /\ req'[s].at = step /\ req'[s].op = req[s].op /\ req'[s].pool = req[s].pool /\ req'[s].to = req[s].to
         /\ req'[s].flag = flag /\ req'[s].fragile = fr
         /\ \A t \in Sessions \ {s} : req'[t] = req[t]
<1>1. req \in [Sessions -> Local] /\ req[s] \in Local
  BY DEF TypeInv, TypeOK
<1>2. \E r \in Local : r = Advanced(req[s], step, read, flag, fr)
                       /\ r.at = step /\ r.op = req[s].op /\ r.pool = req[s].pool /\ r.to = req[s].to /\ r.flag = flag
                       /\ r.fragile = fr
  <2>1. Advanced(req[s], step, read, flag, fr) \in Local
    BY <1>1, AdvancedType, Zenon
  <2>2. /\ Advanced(req[s], step, read, flag, fr).at = step
        /\ Advanced(req[s], step, read, flag, fr).op = req[s].op
        /\ Advanced(req[s], step, read, flag, fr).pool = req[s].pool
        /\ Advanced(req[s], step, read, flag, fr).to = req[s].to
        /\ Advanced(req[s], step, read, flag, fr).flag = flag
        /\ Advanced(req[s], step, read, flag, fr).fragile = fr
    BY DEF Advanced
  <2> QED
    BY <2>1, <2>2, Zenon
<1>3. PICK r \in Local : /\ req' = [req EXCEPT ![s] = r]
                         /\ r.at = step /\ r.op = req[s].op /\ r.pool = req[s].pool /\ r.to = req[s].to /\ r.flag = flag
                         /\ r.fragile = fr
  BY <1>2, Zenon DEF Advance
<1> QED
  BY <1>1, <1>3

LEMMA InitType == Init => TypeInv
BY IdleType DEF Init, TypeInv, TypeOK, NoTracking, Notes

(***************************************************************************)
(* One lemma per kind of step: what it does to the requests.  A request    *)
(* after the step is the one it was before, a new one, or the stepping     *)
(* one, advanced.                                                          *)
(***************************************************************************)
LEMMA SendType == ASSUME TypeInv, NEW s \in Sessions, Send(s) PROVE TypeInv'
<1>1. PICK r \in ClientRequests : req' = [req EXCEPT ![s] = r]
  BY DEF Send
<1>2. r \in Local /\ r.pool \in Pools /\ r.to \in DeliveryStatuses
  BY DEF ClientRequests, Request, Local, Notes, DeliveryStatuses
<1> QED
  BY <1>1, <1>2 DEF Send, flags, row, TypeInv, TypeOK

\* What a running request carries.
LEMMA Carried == ASSUME TypeInv, NEW s \in Sessions, req[s].at # "idle"
                 PROVE  /\ req[s].pool \in Pools /\ req[s].to \in DeliveryStatuses /\ req[s].notes \in Notes
                        /\ req[s].read \in Notes /\ req[s].flag \in {"yes", "no"} /\ req[s].fragile \in {"yes", "no"}
BY DEF TypeInv, TypeOK, Local

\* The two SELECTs leave the tables alone and answer, or go on with the flags of the pool or of its row.
LEMMA PoolOutcome ==
  ASSUME TypeInv, NEW s \in Sessions, NEW op, NEW step \in {"read", "pool"}, NEW checks \in BOOLEAN, NEW next \in Steps,
         ReadPool(s, op, step, checks, next)
  PROVE  /\ UNCHANGED <<status, fragile, editing, late, track, carried, warned, stamped, emailed>>
         /\ req[s].at = step /\ req[s].op = op
         /\ \/ Answer(s)
            \/ \E fr \in {"yes", "no"} : /\ fr = "yes" <=> req[s].pool \in fragile
                                         /\ Advance(s, next, req[s].read, req[s].flag, fr)
<1>1. YesNo(req[s].pool \in fragile) \in {"yes", "no"} /\ (YesNo(req[s].pool \in fragile) = "yes" <=> req[s].pool \in fragile)
  BY DEF YesNo
<1> QED
  BY <1>1 DEF ReadPool, At, flags, row

LEMMA RowOutcome ==
  ASSUME TypeInv, NEW s \in Sessions, NEW op, NEW step \in {"read", "row"}, NEW checks \in BOOLEAN, NEW next \in Steps,
         ReadRow(s, op, step, checks, next)
  PROVE  /\ UNCHANGED <<status, fragile, editing, late, track, carried, warned, stamped, emailed>>
         /\ req[s].at = step /\ req[s].op = op
         /\ \/ Answer(s)
            \/ /\ checks
               /\ \E read \in Notes, flag \in {"yes", "no"} :
                    /\ flag = "yes" => req[s].pool \in warned \/ req[s].flag = "yes"
                    /\ Advance(s, next, read, flag, req[s].fragile)
<1>1. req[s].at = step /\ req[s].op = op /\ UNCHANGED <<status, fragile, editing, late, track, carried, warned, stamped, emailed>>
  BY DEF ReadRow, At, flags, row
<1>2. /\ req[s].pool \in Pools /\ req[s].read \in Notes /\ req[s].flag \in {"yes", "no"}
  BY <1>1, Carried
<1>3. track[req[s].pool].notes \in Notes
  BY <1>2 DEF TypeInv, TypeOK
<1>4. YesNo(req[s].pool \in warned) \in {"yes", "no"} /\ (YesNo(req[s].pool \in warned) = "yes" <=> req[s].pool \in warned)
  BY DEF YesNo
<1> QED
  BY <1>1, <1>2, <1>3, <1>4 DEF ReadRow, Goto

\* Each read of a handler is one of the two.
PoolRead(s) == ReadForTracking(s) \/ ReadForCarrier(s) \/ ReadPoolOfRow(s)
RowRead(s) == ReadNoTracking(s) \/ ReadPrepared(s) \/ ReadForStatusChange(s)

\* What every read does: nothing to the tables, and the flag it goes on with was carried or is in the row.
LEMMA ReadOutcome ==
  ASSUME TypeInv, NEW s \in Sessions, PoolRead(s) \/ RowRead(s)
  PROVE  /\ UNCHANGED <<status, fragile, editing, late, track, carried, warned, stamped, emailed>>
         /\ req[s].at # "idle"
         /\ \/ Answer(s)
            \/ \E step \in Steps, read \in Notes, flag \in {"yes", "no"}, fr \in {"yes", "no"} :
                 /\ flag = "yes" => req[s].pool \in warned \/ req[s].flag = "yes"
                 /\ Advance(s, step, read, flag, fr)
<1>1. CASE PoolRead(s)
  <2>1. /\ UNCHANGED <<status, fragile, editing, late, track, carried, warned, stamped, emailed>>
        /\ req[s].at # "idle"
        /\ \/ Answer(s)
           \/ \E next \in Steps, fr \in {"yes", "no"} : Advance(s, next, req[s].read, req[s].flag, fr)
    BY <1>1, PoolOutcome DEF PoolRead, ReadForTracking, ReadForCarrier, ReadPoolOfRow, Steps
  <2> QED
    BY <2>1, Carried
<1>2. CASE RowRead(s)
  <2>1. /\ UNCHANGED <<status, fragile, editing, late, track, carried, warned, stamped, emailed>>
        /\ req[s].at # "idle"
        /\ \/ Answer(s)
           \/ \E next \in Steps, read \in Notes, flag \in {"yes", "no"} :
                /\ flag = "yes" => req[s].pool \in warned \/ req[s].flag = "yes"
                /\ Advance(s, next, read, flag, req[s].fragile)
    <3>1. PICK there \in BOOLEAN : there <=> <<track[req[s].pool].status, req[s].to>> \in ValidTransitions
      OBVIOUS
    <3>2. /\ {"pool", "warn", "write"} \subseteq Steps
          /\ ReadForStatusChange(s) => ReadRow(s, "updateStatus", "read", there, "pool")
      BY <3>1 DEF ReadForStatusChange, ReadRow, Steps
    <3>3. CASE ReadForStatusChange(s)
      BY <3>2, <3>3, RowOutcome
    <3>4. CASE ReadNoTracking(s) \/ ReadPrepared(s)
      BY <3>2, <3>4, RowOutcome DEF ReadNoTracking, ReadPrepared
    <3> QED
      BY <1>2, <3>3, <3>4 DEF RowRead
  <2> QED
    BY <2>1, Carried
<1> QED
  BY <1>1, <1>2

LEMMA ReadType == ASSUME TypeInv, NEW s \in Sessions, PoolRead(s) \/ RowRead(s) PROVE TypeInv'
<1>1. UNCHANGED <<status, fragile, editing, late, track, carried, warned, stamped, emailed>> /\ req[s].at # "idle"
  BY ReadOutcome
<1>2. req[s].pool \in Pools /\ req[s].to \in DeliveryStatuses
  BY <1>1, Carried
<1>3. CASE Answer(s)
  BY <1>1, <1>3, AnswerType DEF TypeInv, TypeOK
<1>4. ASSUME NEW step \in Steps, NEW read \in Notes, NEW flag \in {"yes", "no"}, NEW fr \in {"yes", "no"},
             Advance(s, step, read, flag, fr)
      PROVE  TypeInv'
  BY <1>1, <1>2, <1>4, AdvanceType DEF TypeInv, TypeOK
<1> QED
  BY <1>3, <1>4, ReadOutcome

StatusTypes == {"FUNDING", "FUNDED", "PURCHASED", "DELIVERED"}
TrackTypes == [status : DeliveryStatuses \cup {"NONE"}, notes : Notes]

LEMMA CreateType == ASSUME TypeInv, NEW s \in Sessions, InsertTracking(s) PROVE TypeInv'
<1>1. req[s].pool \in Pools
  BY DEF InsertTracking, At, TypeInv
<1>2. track' \in [Pools -> TrackTypes]
  BY <1>1 DEF InsertTracking, TypeInv, TypeOK, TrackTypes, DeliveryStatuses, Notes, row
<1> QED
  BY <1>1, <1>2, AnswerType DEF InsertTracking, flags, row, TypeInv, TypeOK, TrackTypes

LEMMA WarnType == ASSUME TypeInv, NEW s \in Sessions, WarnCarrier(s) PROVE TypeInv'
<1>1. req[s].pool \in Pools /\ req[s].to \in DeliveryStatuses /\ req[s] \in Local
  BY DEF WarnCarrier, At, TypeInv, TypeOK
<1>2. req[s].read \in Notes /\ req[s].flag \in {"yes", "no"} /\ req[s].fragile \in {"yes", "no"} /\ "write" \in Steps
  BY <1>1 DEF Local, Steps
<1>3. CASE Goto(s, "write") /\ UNCHANGED emailed
  BY <1>1, <1>2, <1>3, AdvanceType DEF Goto, WarnCarrier, flags, row, TypeInv, TypeOK
<1>4. ASSUME NEW sent \in BOOLEAN, emailed' = IF sent THEN emailed \cup {req[s].pool} ELSE emailed,
             Advance(s, "write", req[s].read, FlagAfter(sent), req[s].fragile)
      PROVE  TypeInv'
  <2>1. FlagAfter(sent) \in {"yes", "no"}
    BY YesNoType DEF FlagAfter
  <2>2. emailed' \subseteq Pools
    BY <1>1, <1>4, Zenon DEF TypeInv, TypeOK
  <2>3. UNCHANGED <<status, flags, row>>
    BY DEF WarnCarrier
  <2> QED
    BY <1>1, <1>2, <1>4, <2>1, <2>2, <2>3, AdvanceType DEF flags, row, TypeInv, TypeOK
<1> QED
  BY <1>3, <1>4 DEF WarnCarrier

LEMMA WriteCarrierType == ASSUME TypeInv, NEW s \in Sessions, WriteCarrier(s) PROVE TypeInv'
<1>1. req[s].pool \in Pools /\ req[s].read \in Notes
  BY DEF WriteCarrier, At, TypeInv, TypeOK, Local
<1>2. track' \in [Pools -> TrackTypes]
  BY <1>1 DEF WriteCarrier, TypeInv, TypeOK, TrackTypes, DeliveryStatuses, Notes
<1> QED
  BY <1>1, <1>2, AnswerType DEF WriteCarrier, flags, TypeInv, TypeOK, TrackTypes

LEMMA WriteStatusType == ASSUME TypeInv, NEW s \in Sessions, WriteDeliveryStatus(s) PROVE TypeInv'
<1>1. req[s].pool \in Pools /\ req[s].to \in DeliveryStatuses /\ req[s] \in Local
  BY DEF WriteDeliveryStatus, At, TypeInv, TypeOK
<1>2. /\ req[s].to \in DeliveryStatuses \cup {"NONE"} /\ req[s].notes \in Notes
      /\ req[s].read \in Notes /\ req[s].flag \in {"yes", "no"} /\ req[s].fragile \in {"yes", "no"} /\ "confirm" \in Steps
  BY <1>1 DEF Local, Steps
<1>3. track' \in [Pools -> TrackTypes]
  <2>1. \A n \in Notes : NotesFor(req[s].fragile, req[s].to, req[s].notes, n) \in Notes
    BY <1>2 DEF NotesFor, Notes
  <2> QED
    BY <1>1, <1>2, <2>1 DEF WriteDeliveryStatus, TypeInv, TypeOK, TrackTypes
<1>4. stamped' \subseteq Pools /\ UNCHANGED <<status, fragile, editing, late, carried, warned, emailed>>
  BY <1>1 DEF WriteDeliveryStatus, flags, TypeInv, TypeOK
<1>5. CASE Goto(s, "confirm")
  BY <1>1, <1>2, <1>3, <1>4, <1>5, AdvanceType DEF Goto, TypeInv, TypeOK, TrackTypes
<1>6. CASE Answer(s)
  BY <1>3, <1>4, <1>6, AnswerType DEF TypeInv, TypeOK, TrackTypes
<1> QED
  BY <1>5, <1>6 DEF WriteDeliveryStatus

LEMMA ConfirmType == ASSUME TypeInv, NEW s \in Sessions, ConfirmPool(s) PROVE TypeInv'
<1>1. req[s].pool \in Pools
  BY DEF ConfirmPool, At, TypeInv
<1> QED
  BY <1>1, AnswerType DEF ConfirmPool, flags, row, TypeInv, TypeOK

LEMMA FailType == ASSUME TypeInv, NEW s \in Sessions, Fail(s) PROVE TypeInv'
BY AnswerType DEF Fail, flags, row, TypeInv, TypeOK

LEMMA PoolMoveType == ASSUME TypeInv, NEW p \in Pools, PoolMove(p) \/ BeginEdit(p) \/ Edit(p) PROVE TypeInv'
BY DEF PoolMove, BeginEdit, Edit, flags, row, TypeInv, TypeOK

LEMMA NextType == TypeInv /\ [Next]_vars => TypeInv'
<1> SUFFICES ASSUME TypeInv, [Next]_vars PROVE TypeInv'
  OBVIOUS
<1>1. ASSUME NEW s \in Sessions, Step(s) PROVE TypeInv'
  BY <1>1, ReadType, CreateType, WarnType, WriteCarrierType, WriteStatusType, ConfirmType DEF Step, PoolRead, RowRead
<1>2. CASE UNCHANGED vars
  BY <1>2 DEF vars, TypeInv, TypeOK
<1> QED
  BY <1>1, <1>2, SendType, FailType, PoolMoveType DEF Next

\* Type correctness: the requests carry well-typed reads and flags from step to step.
THEOREM TypeCorrect == Spec => []TypeOK
<1>1. TypeInv => TypeOK
  BY DEF TypeInv
<1> QED
  BY InitType, NextType, <1>1, PTL DEF Spec

(***************************************************************************)
(* The fragile warning.  "warned" alone is not inductive: a running        *)
(* request that carries the flag to its write needs the e-mail behind it.  *)
(***************************************************************************)
FlagsBacked == \A s \in Sessions : req[s].at # "idle" /\ req[s].flag = "yes" => req[s].pool \in emailed
WarnInv == WarningWasSent /\ FlagsBacked

\* A step that leaves the rows alone and advances at most one request, backed by an e-mail.
LEMMA AdvanceBacked ==
  ASSUME TypeInv, WarnInv, NEW s \in Sessions, NEW step \in Steps,
         NEW read \in Notes, NEW flag \in {"yes", "no"}, NEW fr \in {"yes", "no"}, Advance(s, step, read, flag, fr),
         emailed \subseteq emailed', flag = "yes" => req[s].pool \in emailed'
  PROVE  FlagsBacked'
<1> SUFFICES ASSUME NEW t \in Sessions, req'[t].at # "idle", req'[t].flag = "yes"
             PROVE  req'[t].pool \in emailed'
  BY DEF FlagsBacked
<1>1. CASE t = s
  BY <1>1, AdvanceType
<1>2. CASE t # s
  BY <1>2, AdvanceType DEF WarnInv, FlagsBacked
<1> QED
  BY <1>1, <1>2

LEMMA AnswerBacked ==
  ASSUME TypeInv, WarnInv, NEW s \in Sessions, Answer(s), UNCHANGED emailed
  PROVE  FlagsBacked'
BY AnswerType DEF WarnInv, FlagsBacked

LEMMA ReadBacked == ASSUME TypeInv, WarnInv, NEW s \in Sessions, PoolRead(s) \/ RowRead(s) PROVE WarnInv'
<1>1. UNCHANGED <<warned, emailed>> /\ req[s].at # "idle"
  BY ReadOutcome
<1>2. CASE Answer(s)
  BY <1>1, <1>2, AnswerBacked DEF WarnInv, WarningWasSent
<1>3. ASSUME NEW step \in Steps, NEW read \in Notes, NEW flag \in {"yes", "no"}, NEW fr \in {"yes", "no"},
             flag = "yes" => req[s].pool \in warned \/ req[s].flag = "yes", Advance(s, step, read, flag, fr)
      PROVE  WarnInv'
  <2>1. flag = "yes" => req[s].pool \in emailed'
    BY <1>1, <1>3 DEF WarnInv, WarningWasSent, FlagsBacked
  <2> QED
    BY <1>1, <1>3, <2>1, AdvanceBacked DEF WarnInv, WarningWasSent
<1> QED
  BY <1>2, <1>3, ReadOutcome

LEMMA WarnBacked == ASSUME TypeInv, WarnInv, NEW s \in Sessions, WarnCarrier(s) PROVE WarnInv'
<1>1. req[s].pool \in Pools /\ req[s] \in Local /\ req[s].at # "idle"
  BY DEF WarnCarrier, At, TypeInv, TypeOK
<1>2. /\ req[s].read \in Notes /\ req[s].flag \in {"yes", "no"} /\ req[s].fragile \in {"yes", "no"} /\ "write" \in Steps
      /\ UNCHANGED <<status, row>>
  BY <1>1 DEF Local, WarnCarrier, Steps
<1>3. CASE Goto(s, "write") /\ UNCHANGED emailed
  BY <1>1, <1>2, <1>3, AdvanceBacked DEF Goto, row, WarnInv, WarningWasSent, FlagsBacked
<1>4. ASSUME NEW sent \in BOOLEAN, emailed' = IF sent THEN emailed \cup {req[s].pool} ELSE emailed,
             Advance(s, "write", req[s].read, FlagAfter(sent), req[s].fragile)
      PROVE  WarnInv'
  <2>1. emailed \subseteq emailed' /\ UNCHANGED warned
    BY <1>2, <1>4 DEF row
  <2>2. FlagAfter(sent) \in {"yes", "no"}
    BY YesNoType DEF FlagAfter
  <2>3. FlagAfter(sent) = "yes" => req[s].pool \in emailed'
    BY <1>4, YesNoType DEF FlagAfter
  <2>4. FlagsBacked'
    BY <1>1, <1>2, <1>4, <2>1, <2>2, <2>3, AdvanceBacked
  <2> QED
    BY <2>1, <2>4 DEF WarnInv, WarningWasSent
<1> QED
  BY <1>3, <1>4 DEF WarnCarrier

LEMMA WarnNext == TypeInv /\ WarnInv /\ [Next]_vars => WarnInv'
<1> SUFFICES ASSUME TypeInv, WarnInv, [Next]_vars PROVE WarnInv'
  OBVIOUS
<1>1. ASSUME NEW s \in Sessions, Send(s) PROVE WarnInv'
  <2>1. PICK r \in ClientRequests : req' = [req EXCEPT ![s] = r]
    BY <1>1 DEF Send
  <2>2. r.flag = "no"
    BY DEF ClientRequests, Request
  <2> QED
    BY <1>1, <2>1, <2>2 DEF Send, row, WarnInv, WarningWasSent, FlagsBacked, TypeInv, TypeOK
<1>2. ASSUME NEW s \in Sessions, Step(s) PROVE WarnInv'
  <2>1. CASE InsertTracking(s)
    BY <2>1, AnswerBacked DEF InsertTracking, row, WarnInv, WarningWasSent
  <2>2. CASE WriteCarrier(s)
    <3>1. FlagsBacked'
      BY <2>2, AnswerBacked DEF WriteCarrier
    <3>2. req[s].flag = "yes" => req[s].pool \in emailed
      BY <2>2 DEF WriteCarrier, At, WarnInv, FlagsBacked
    <3> QED
      BY <2>2, <3>1, <3>2 DEF WriteCarrier, WarnInv, WarningWasSent
  <2>3. CASE WriteDeliveryStatus(s)
    <3>1. req[s] \in Local /\ req[s].at # "idle"
      BY <2>3 DEF WriteDeliveryStatus, At, TypeInv, TypeOK
    <3>2. req[s].read \in Notes /\ req[s].flag \in {"yes", "no"} /\ req[s].fragile \in {"yes", "no"} /\ "confirm" \in Steps
      BY <3>1 DEF Local, Steps
    <3>3. UNCHANGED <<warned, emailed>>
      BY <2>3 DEF WriteDeliveryStatus
    <3>4. CASE Goto(s, "confirm")
      BY <3>1, <3>2, <3>3, <3>4, AdvanceBacked DEF Goto, WarnInv, WarningWasSent, FlagsBacked
    <3>5. CASE Answer(s)
      BY <3>3, <3>5, AnswerBacked DEF WarnInv, WarningWasSent
    <3> QED
      BY <2>3, <3>4, <3>5 DEF WriteDeliveryStatus
  <2>4. CASE ConfirmPool(s)
    BY <2>4, AnswerBacked DEF ConfirmPool, row, WarnInv, WarningWasSent
  <2> QED
    BY <1>2, <2>1, <2>2, <2>3, <2>4, ReadBacked, WarnBacked DEF Step, PoolRead, RowRead
<1>3. ASSUME NEW s \in Sessions, Fail(s) PROVE WarnInv'
  BY <1>3, AnswerBacked DEF Fail, row, WarnInv, WarningWasSent
<1>4. CASE (\E p \in Pools : PoolMove(p) \/ BeginEdit(p) \/ Edit(p)) \/ UNCHANGED vars
  BY <1>4 DEF PoolMove, BeginEdit, Edit, vars, row, WarnInv, WarningWasSent, FlagsBacked
<1> QED
  BY <1>1, <1>2, <1>3, <1>4 DEF Next

\* fragileWarningSent is never set without the e-mail, for any number of concurrent assignments.
THEOREM WarningSound == Spec => []WarningWasSent
<1>1. Init => WarnInv
  BY DEF Init, WarnInv, WarningWasSent, FlagsBacked, Idle
<1>2. WarnInv => WarningWasSent
  BY DEF WarnInv
<1> QED
  BY InitType, NextType, WarnNext, <1>1, <1>2, PTL DEF Spec

(***************************************************************************)
(* Tracking rows: a row with a carrier or a delivery time exists, so a     *)
(* create that lost the race against another one cannot blank it.          *)
(***************************************************************************)
RowInv == \A p \in carried \cup stamped : track[p].status # "NONE"

LEMMA RowStep ==
  ASSUME TypeInv, RowInv, [Next]_vars
  PROVE  RowInv' /\ carried \subseteq carried' /\ stamped \subseteq stamped'
<1> DEFINE Goal == RowInv' /\ carried \subseteq carried' /\ stamped \subseteq stamped'
<1>1. CASE UNCHANGED row
  BY <1>1 DEF row, RowInv
<1>2. ASSUME NEW s \in Sessions, InsertTracking(s) PROVE Goal
  <2>1. CASE UNCHANGED row
    BY <2>1 DEF row, RowInv
  <2>2. CASE ~ Taken(req[s].pool)
    <3>1. req[s].pool \notin carried \cup stamped
      BY <2>2 DEF Taken, RowInv
    <3>2. \A p \in Pools \ {req[s].pool} : track'[p] = track[p]
      BY <1>2, <2>2 DEF InsertTracking, TypeInv, TypeOK
    <3>3. carried' = carried /\ stamped' = stamped
      BY <1>2, <2>2, <3>1 DEF InsertTracking
    <3> QED
      BY <3>1, <3>2, <3>3 DEF RowInv, TypeInv, TypeOK
  <2> QED
    BY <1>2, <2>1, <2>2 DEF InsertTracking
<1>3. ASSUME NEW s \in Sessions, WriteCarrier(s) PROVE Goal
  <2>1. track' = [track EXCEPT ![req[s].pool] = [status |-> "HANDED_TO_CARRIER", notes |-> track'[req[s].pool].notes]]
    BY <1>3 DEF WriteCarrier, At, TypeInv, TypeOK
  <2>2. carried' = carried \cup {req[s].pool} /\ stamped' = stamped /\ req[s].pool \in Pools
    BY <1>3 DEF WriteCarrier, At, TypeInv
  <2> QED
    BY <2>1, <2>2 DEF RowInv, TypeInv, TypeOK
<1>4. ASSUME NEW s \in Sessions, WriteDeliveryStatus(s) PROVE Goal
  <2>1. req[s].pool \in Pools /\ req[s].to # "NONE"
    BY <1>4 DEF WriteDeliveryStatus, At, TypeInv, DeliveryStatuses
  <2>2. /\ track'[req[s].pool].status # "NONE"
        /\ \A p \in Pools \ {req[s].pool} : track'[p] = track[p]
    BY <1>4, <2>1 DEF WriteDeliveryStatus, TypeInv, TypeOK
  <2>3. carried' = carried /\ stamped \subseteq stamped' /\ stamped' \subseteq stamped \cup {req[s].pool}
    BY <1>4 DEF WriteDeliveryStatus
  <2> QED
    BY <2>1, <2>2, <2>3 DEF RowInv, TypeInv, TypeOK
<1> QED
  BY <1>1, <1>2, <1>3, <1>4
  DEF Next, Step, Send, Fail, PoolMove, BeginEdit, Edit, ReadForTracking, ReadNoTracking, ReadForCarrier, ReadPrepared,
      ReadForStatusChange, ReadPoolOfRow, ReadPool, ReadRow, WarnCarrier, ConfirmPool, row, vars

\* A tracking row never loses its carrier or its delivery time.
THEOREM RowsGrow == Spec => NothingForgotten
<1>1. Init => RowInv
  BY DEF Init, RowInv
<1>2. TypeInv /\ RowInv /\ [Next]_vars => RowInv' /\ [carried \subseteq carried' /\ stamped \subseteq stamped']_vars
  BY RowStep
<1> QED
  BY InitType, NextType, <1>1, <1>2, PTL DEF Spec, NothingForgotten

(***************************************************************************)
(* The last mile.  A status change that has read a pool which was marked   *)
(* fragile before its tracking began has read the mark: it read the pool   *)
(* after the row, so that a later mark is a late one.                      *)
(***************************************************************************)
Marked == fragile \ late
RowSeen == \A s \in Sessions : req[s].op = "updateStatus" /\ req[s].at \in {"pool", "write", "confirm"}
                               => track[req[s].pool].status # "NONE"
MarkSeen == \A s \in Sessions : req[s].op = "updateStatus" /\ req[s].at = "write" /\ req[s].pool \in Marked
                                => req[s].fragile = "yes"
MileInv == RowSeen /\ MarkSeen /\ LastMileWarned

\* A step that answers, or that advances a request which is no status change at its last read or beyond.
LEMMA AnswerMile ==
  ASSUME TypeInv, MileInv, NEW s \in Sessions, Answer(s), UNCHANGED <<fragile, late>>,
         \A p \in Pools : track[p].status # "NONE" => track'[p].status # "NONE"
  PROVE  RowSeen' /\ MarkSeen'
<1>1. \A t \in Sessions : req'[t].at # "idle" => req'[t] = req[t] /\ req[t].pool \in Pools
  BY AnswerType DEF TypeInv
<1> QED
  BY <1>1 DEF MileInv, RowSeen, MarkSeen, Marked

LEMMA AdvanceMile ==
  ASSUME TypeInv, MileInv, NEW s \in Sessions, req[s].at # "idle", UNCHANGED <<fragile, late>>,
         NEW step \in Steps, NEW read \in Notes, NEW flag \in {"yes", "no"}, NEW fr \in {"yes", "no"},
         Advance(s, step, read, flag, fr),
         \A p \in Pools : track[p].status # "NONE" => track'[p].status # "NONE",
         req[s].op = "updateStatus" => track'[req[s].pool].status # "NONE",
         req[s].op = "updateStatus" /\ step = "write" => (req[s].pool \in fragile => fr = "yes")
  PROVE  RowSeen' /\ MarkSeen'
<1>1. /\ req'[s].at = step /\ req'[s].op = req[s].op /\ req'[s].pool = req[s].pool /\ req'[s].fragile = fr
      /\ \A t \in Sessions \ {s} : req'[t] = req[t]
  BY AdvanceType
<1>2. \A t \in Sessions : req[t].at # "idle" => req[t].pool \in Pools
  BY DEF TypeInv
<1>3. RowSeen'
  BY <1>1, <1>2 DEF MileInv, RowSeen
<1>4. MarkSeen'
  BY <1>1 DEF MileInv, MarkSeen, Marked
<1> QED
  BY <1>3, <1>4

LEMMA ReadMile == ASSUME TypeInv, MileInv, NEW s \in Sessions, PoolRead(s) \/ RowRead(s) PROVE MileInv'
<1>1. UNCHANGED <<status, fragile, editing, late, track, carried, warned, stamped, emailed>> /\ req[s].at # "idle"
  BY ReadOutcome
<1>2. LastMileWarned'
  BY <1>1 DEF MileInv, LastMileWarned
<1>3. CASE Answer(s)
  BY <1>1, <1>2, <1>3, AnswerMile DEF MileInv
<1>4. CASE ReadPoolOfRow(s)
  <2>1. /\ req[s].op = "updateStatus" /\ req[s].at = "pool"
        /\ \/ Answer(s)
           \/ \E fr \in {"yes", "no"} : /\ fr = "yes" <=> req[s].pool \in fragile
                                        /\ Advance(s, "write", req[s].read, req[s].flag, fr)
    BY <1>4, PoolOutcome DEF ReadPoolOfRow, Steps
  <2>2. track[req[s].pool].status # "NONE"
    BY <2>1 DEF MileInv, RowSeen
  <2>3. ASSUME NEW fr \in {"yes", "no"}, fr = "yes" <=> req[s].pool \in fragile,
               Advance(s, "write", req[s].read, req[s].flag, fr)
        PROVE  RowSeen' /\ MarkSeen'
    BY <1>1, <2>2, <2>3, Carried, AdvanceMile DEF Steps
  <2> QED
    BY <1>2, <1>3, <2>1, <2>3 DEF MileInv
<1>5. CASE ReadForStatusChange(s)
  <2>1. /\ req[s].op = "updateStatus"
        /\ \/ Answer(s)
           \/ /\ <<track[req[s].pool].status, req[s].to>> \in ValidTransitions
              /\ \E read \in Notes, flag \in {"yes", "no"} : Advance(s, "pool", read, flag, req[s].fragile)
    <3>1. PICK there \in BOOLEAN : there <=> <<track[req[s].pool].status, req[s].to>> \in ValidTransitions
      OBVIOUS
    <3>2. "pool" \in Steps /\ ReadRow(s, "updateStatus", "read", there, "pool")
      BY <1>5, <3>1 DEF ReadForStatusChange, ReadRow, Steps
    <3>3. /\ req[s].op = "updateStatus"
          /\ \/ Answer(s)
             \/ \E read \in Notes, flag \in {"yes", "no"} :
                  /\ flag = "yes" => req[s].pool \in warned \/ req[s].flag = "yes"
                  /\ Advance(s, "pool", read, flag, req[s].fragile)
      BY <3>2, RowOutcome
    <3>4. there \/ Answer(s)
      BY <3>2 DEF ReadRow
    <3> QED
      BY <3>1, <3>3, <3>4
  <2>2. ASSUME NEW read \in Notes, NEW flag \in {"yes", "no"}, Advance(s, "pool", read, flag, req[s].fragile),
               <<track[req[s].pool].status, req[s].to>> \in ValidTransitions
        PROVE  RowSeen' /\ MarkSeen'
    <3>1. track[req[s].pool].status # "NONE"
      BY <2>2 DEF ValidTransitions
    <3> QED
      BY <1>1, <2>2, <3>1, Carried, AdvanceMile DEF Steps
  <2> QED
    BY <1>2, <1>3, <2>1, <2>2 DEF MileInv
<1>6. CASE ReadForTracking(s) \/ ReadForCarrier(s) \/ ReadNoTracking(s) \/ ReadPrepared(s)
  <2>1. req[s].op # "updateStatus"
    BY <1>6 DEF ReadForTracking, ReadForCarrier, ReadNoTracking, ReadPrepared, ReadPool, ReadRow, At
  <2>2. ASSUME NEW step \in Steps, NEW read \in Notes, NEW flag \in {"yes", "no"}, NEW fr \in {"yes", "no"},
               Advance(s, step, read, flag, fr)
        PROVE  RowSeen' /\ MarkSeen'
    BY <1>1, <2>1, <2>2, AdvanceMile
  <2> QED
    BY <1>2, <1>3, <2>2, ReadOutcome DEF MileInv
<1> QED
  BY <1>4, <1>5, <1>6 DEF PoolRead, RowRead

\* A write of a row that sends it out, fragile, only with the warning.
LEMMA RowWritten ==
  ASSUME TypeInv, MileInv, NEW s \in Sessions, req[s].at # "idle", UNCHANGED <<fragile, late>>, NEW st, NEW nt,
         track' = [track EXCEPT ![req[s].pool] = [status |-> st, notes |-> nt]],
         st # "NONE", st = "OUT_FOR_DELIVERY" /\ req[s].pool \in Marked => nt = "warning"
  PROVE  /\ LastMileWarned'
         /\ \A p \in Pools : track[p].status # "NONE" => track'[p].status # "NONE"
         /\ track'[req[s].pool].status # "NONE"
<1>1. req[s].pool \in Pools /\ fragile \subseteq Pools
  BY DEF TypeInv, TypeOK
<1>2. /\ track'[req[s].pool].status = st /\ track'[req[s].pool].notes = nt
      /\ \A p \in Pools \ {req[s].pool} : track'[p] = track[p]
  BY <1>1 DEF TypeInv, TypeOK
<1> QED
  BY <1>1, <1>2 DEF MileInv, LastMileWarned, Marked

LEMMA WriteMile ==
  ASSUME TypeInv, MileInv, NEW s \in Sessions, InsertTracking(s) \/ WriteCarrier(s) \/ WriteDeliveryStatus(s)
  PROVE  MileInv'
<1> DEFINE p == req[s].pool
<1>1. CASE InsertTracking(s)
  <2>1. req[s].at # "idle" /\ Answer(s) /\ UNCHANGED <<fragile, late>>
    BY <1>1 DEF InsertTracking, At, flags
  <2>2. CASE UNCHANGED track
    BY <2>1, <2>2, AnswerMile DEF MileInv, LastMileWarned
  <2>3. CASE ~ Taken(p)
    <3>1. \E nt : track' = [track EXCEPT ![p] = [status |-> "PREPARING", notes |-> nt]]
      BY <1>1, <2>3 DEF InsertTracking
    <3> QED
      BY <2>1, <3>1, RowWritten, AnswerMile DEF MileInv
  <2> QED
    BY <1>1, <2>2, <2>3 DEF InsertTracking, row
<1>2. CASE WriteCarrier(s)
  <2>1. req[s].at # "idle" /\ Answer(s) /\ UNCHANGED <<fragile, late>>
    BY <1>2 DEF WriteCarrier, At, flags
  <2>2. \E nt : track' = [track EXCEPT ![p] = [status |-> "HANDED_TO_CARRIER", notes |-> nt]]
    BY <1>2 DEF WriteCarrier
  <2> QED
    BY <2>1, <2>2, RowWritten, AnswerMile DEF MileInv
<1>3. CASE WriteDeliveryStatus(s)
  <2>1. req[s].op = "updateStatus" /\ req[s].at = "write" /\ UNCHANGED <<fragile, late>>
    BY <1>3 DEF WriteDeliveryStatus, At, flags
  <2>2. /\ req[s].to \in DeliveryStatuses /\ req[s].read \in Notes /\ req[s].flag \in {"yes", "no"}
        /\ req[s].fragile \in {"yes", "no"}
    BY <2>1, Carried
  <2>3. PICK nt : /\ nt = NotesFor(req[s].fragile, req[s].to, req[s].notes, track[p].notes)
                  /\ track' = [track EXCEPT ![p] = [status |-> req[s].to, notes |-> nt]]
    BY <1>3 DEF WriteDeliveryStatus
  <2>4. req[s].to # "NONE"
    BY <2>2 DEF DeliveryStatuses
  <2>5. req[s].to = "OUT_FOR_DELIVERY" /\ p \in Marked => nt = "warning"
    BY <2>1, <2>3 DEF MileInv, MarkSeen, NotesFor
  <2>6. /\ LastMileWarned'
        /\ \A q \in Pools : track[q].status # "NONE" => track'[q].status # "NONE"
        /\ track'[p].status # "NONE"
    BY <2>1, <2>3, <2>4, <2>5, RowWritten
  <2>7. CASE Answer(s)
    BY <2>1, <2>6, <2>7, AnswerMile DEF MileInv
  <2>8. CASE Goto(s, "confirm")
    BY <2>1, <2>2, <2>6, <2>8, AdvanceMile DEF Goto, Steps, MileInv
  <2> QED
    BY <1>3, <2>7, <2>8 DEF WriteDeliveryStatus
<1> QED
  BY <1>1, <1>2, <1>3

\* updatePool: a mark set on a gift that is tracked is a late one.
LEMMA EditMile == ASSUME TypeInv, MileInv, NEW p \in Pools, Edit(p) PROVE MileInv'
<1>1. track' = track /\ req' = req
  BY DEF Edit, row
<1>2. \A q \in Marked' : q \in Marked \/ track[q].status = "NONE"
  BY DEF Edit, Marked
<1>3. RowSeen'
  BY <1>1 DEF MileInv, RowSeen
<1>4. MarkSeen'
  BY <1>1, <1>2 DEF MileInv, RowSeen, MarkSeen
<1>5. LastMileWarned'
  BY <1>1, <1>2 DEF MileInv, LastMileWarned, Marked
<1> QED
  BY <1>3, <1>4, <1>5 DEF MileInv

LEMMA MileNext == TypeInv /\ MileInv /\ [Next]_vars => MileInv'
<1> SUFFICES ASSUME TypeInv, MileInv, [Next]_vars PROVE MileInv'
  OBVIOUS
<1>1. ASSUME NEW s \in Sessions, Send(s) PROVE MileInv'
  <2>1. PICK r \in ClientRequests : req' = [req EXCEPT ![s] = r]
    BY <1>1 DEF Send
  <2>2. r.at = "read"
    BY DEF ClientRequests, Request
  <2>3. req'[s].at = "read" /\ \A t \in Sessions \ {s} : req'[t] = req[t]
    BY <2>1, <2>2 DEF TypeInv, TypeOK
  <2>4. UNCHANGED <<fragile, late, track>>
    BY <1>1 DEF Send, flags, row
  <2> QED
    BY <2>3, <2>4 DEF MileInv, RowSeen, MarkSeen, LastMileWarned, Marked
<1>2. ASSUME NEW s \in Sessions, WarnCarrier(s) PROVE MileInv'
  <2>1. /\ req[s].op = "assignCarrier" /\ req[s].at = "warn"
        /\ UNCHANGED <<fragile, late, track>>
    BY <1>2 DEF WarnCarrier, At, flags, row
  <2>2. /\ req[s].read \in Notes /\ req[s].flag \in {"yes", "no"} /\ req[s].fragile \in {"yes", "no"} /\ "write" \in Steps
    BY <2>1, Carried DEF Steps
  <2>3. \E flag \in {"yes", "no"} : Advance(s, "write", req[s].read, flag, req[s].fragile)
    <3>1. \A sent \in BOOLEAN : FlagAfter(sent) \in {"yes", "no"}
      BY YesNoType DEF FlagAfter
    <3> QED
      BY <1>2, <2>2, <3>1 DEF WarnCarrier, Goto
  <2>4. RowSeen' /\ MarkSeen'
    BY <2>1, <2>2, <2>3, AdvanceMile
  <2> QED
    BY <2>1, <2>4 DEF MileInv, LastMileWarned
<1>3. ASSUME NEW s \in Sessions, ConfirmPool(s) \/ Fail(s) PROVE MileInv'
  <2>1. Answer(s) /\ UNCHANGED <<fragile, late, track>>
    BY <1>3 DEF ConfirmPool, Fail, flags, row
  <2> QED
    BY <2>1, AnswerMile DEF MileInv, LastMileWarned
<1>4. ASSUME NEW p \in Pools, PoolMove(p) \/ BeginEdit(p) PROVE MileInv'
  BY <1>4 DEF PoolMove, BeginEdit, flags, row, MileInv, RowSeen, MarkSeen, LastMileWarned, Marked
<1>5. CASE UNCHANGED vars
  BY <1>5 DEF vars, MileInv, RowSeen, MarkSeen, LastMileWarned, Marked
<1> QED
  BY <1>1, <1>2, <1>3, <1>4, <1>5, ReadMile, WriteMile, EditMile DEF Next, Step, PoolRead, RowRead

\* A gift marked fragile before its tracking began is out for delivery only with the warning in its notes,
\* though updatePool may unmark it, mark it again or run beside the requests of its tracking.
THEOREM LastMile == Spec => []LastMileWarned
<1>1. Init => MileInv
  BY DeliveryAssumption DEF Init, MileInv, RowSeen, MarkSeen, LastMileWarned, NoTracking, Idle
<1>2. MileInv => LastMileWarned
  BY DEF MileInv
<1> QED
  BY InitType, NextType, MileNext, <1>1, <1>2, PTL DEF Spec
=============================================================================
