-------------------------- MODULE DeliveryTracking --------------------------
(***************************************************************************)
(* The delivery of a purchased gift: logisticsService.js, with the status  *)
(* of the gift pool it ends by setting.                                    *)
(*                                                                         *)
(* A handler is split at its awaits, as in PoolFunding; none of them is a  *)
(* transaction, and a findUnique with an include is two SELECTs.  The      *)
(* other handlers of a pool appear here only through the statuses they     *)
(* write (PoolMove) and the isFragile that updatePool sets.  audit_logs,   *)
(* written last and read by no handler of this module, is left out.        *)
(***************************************************************************)
EXTENDS FiniteSets

CONSTANTS
  Pools,         \* gift pool ids
  Sessions,      \* clients; each has one request in flight at most
  Moves,         \* what the pools' own handlers do here, a subset of AllMoves
  None           \* no pool

AllMoves == {"fund", "purchase", "deliver", "refund", "edit"}

ASSUME DeliveryAssumption == Moves \subseteq AllMoves /\ None \notin Pools

VARIABLES
  status,   \* status[p]: the status of pool p
  fragile,  \* pools with isFragile set
  editing,  \* pools with an updatePool past its check of the status
  late,     \* history: fragile pools that were marked so when their tracking row existed already
  track,    \* track[p]: deliveryStatus and carrierNotes of p's logistics_tracking row
  carried,  \* pools whose row has a carrierName and trackingNumber
  warned,   \* pools whose row has fragileWarningSent
  stamped,  \* pools whose row has deliveredAt
  emailed,  \* pools for which a fragile carrier notification was sent
  req       \* req[s]: the request of session s and its handler's local state

vars == <<status, fragile, editing, late, track, carried, warned, stamped, emailed, req>>
row == <<track, carried, warned, stamped>>
flags == <<fragile, editing, late>>

DeliveryStatuses == {"PREPARING", "HANDED_TO_CARRIER", "IN_TRANSIT", "OUT_FOR_DELIVERY", "DELIVERED", "FAILED"}

\* carrierNotes: empty, what a client wrote, or a text with the fragile warning in it.
Notes == {"none", "plain", "warning"}
NoTracking == [status |-> "NONE", notes |-> "none"]

ValidTransitions ==
  {<<"PREPARING", "HANDED_TO_CARRIER">>, <<"HANDED_TO_CARRIER", "IN_TRANSIT">>,
   <<"IN_TRANSIT", "OUT_FOR_DELIVERY">>, <<"OUT_FOR_DELIVERY", "DELIVERED">>, <<"OUT_FOR_DELIVERY", "FAILED">>,
   <<"FAILED", "PREPARING">>, <<"FAILED", "HANDED_TO_CARRIER">>}

(***************************************************************************)
(* Requests.  "to" is the deliveryStatus asked for and "notes" the         *)
(* carrierNotes sent with it; "read" is the carrierNotes the handler read, *)
(* "flag" its local fragileWarningSent, "fragile" the isFragile it read.   *)
(***************************************************************************)
Request(op, p, to, notes) ==
  [at |-> "read", op |-> op, pool |-> p, to |-> to, notes |-> notes,
   read |-> "none", flag |-> "no", fragile |-> "no"]

Idle == [at |-> "idle", op |-> "none", pool |-> None, to |-> "NONE", notes |-> "none",
         read |-> "none", flag |-> "no", fragile |-> "no"]

ClientRequests ==
  {Request("createTracking", p, "PREPARING", "none") : p \in Pools}
  \cup {Request("assignCarrier", p, "HANDED_TO_CARRIER", "none") : p \in Pools}
  \cup {Request("updateStatus", p, to, n) : p \in Pools, to \in DeliveryStatuses, n \in {"none", "plain"}}

Init == /\ status = [p \in Pools |-> "FUNDED"]
        /\ fragile \in SUBSET Pools /\ editing = {} /\ late = {}
        /\ track = [p \in Pools |-> NoTracking]
        /\ carried = {} /\ warned = {} /\ stamped = {} /\ emailed = {}
        /\ req = [s \in Sessions |-> Idle]

At(s, op, step) == req[s].op = op /\ req[s].at = step
YesNo(b) == IF b THEN "yes" ELSE "no"

\* The request at its next step, with what its handler has read so far.
Advanced(r, step, read, flag, isFragile) ==
  [at |-> step, op |-> r.op, pool |-> r.pool, to |-> r.to, notes |-> r.notes,
   read |-> read, flag |-> flag, fragile |-> isFragile]
Advance(s, step, read, flag, isFragile) == req' = [req EXCEPT ![s] = Advanced(@, step, read, flag, isFragile)]
Goto(s, step) == Advance(s, step, req[s].read, req[s].flag, req[s].fragile)
Answer(s) == req' = [req EXCEPT ![s] = Idle]

Send(s) == /\ req[s].at = "idle"
           /\ \E r \in ClientRequests : req' = [req EXCEPT ![s] = r]
           /\ UNCHANGED <<status, flags, row, emailed>>

(***************************************************************************)
(* The two SELECTs of a findUnique: each goes on or ends in a 4xx.         *)
(***************************************************************************)
\* Of the pool: isFragile is remembered.
ReadPool(s, op, step, checks, next) ==
  /\ At(s, op, step)
  /\ IF checks THEN Advance(s, next, req[s].read, req[s].flag, YesNo(req[s].pool \in fragile)) ELSE Answer(s)
  /\ UNCHANGED <<status, flags, row, emailed>>

\* Of the tracking row: assignCarrier remembers its notes and its fragileWarningSent.
ReadRow(s, op, step, checks, next) ==
  /\ At(s, op, step)
  /\ IF ~ checks THEN Answer(s)
     ELSE IF op = "assignCarrier"
     THEN Advance(s, next, track[req[s].pool].notes, YesNo(req[s].pool \in warned), req[s].fragile)
     ELSE Goto(s, next)
  /\ UNCHANGED <<status, flags, row, emailed>>

(***************************************************************************)
(* createLogisticsTracking                                                 *)
(***************************************************************************)
ReadForTracking(s) == ReadPool(s, "createTracking", "read", status[req[s].pool] = "PURCHASED", "row")
ReadNoTracking(s) == ReadRow(s, "createTracking", "row", track[req[s].pool].status = "NONE", "write")

\* logistics_tracking.pool_id is unique: a row created meanwhile is P2002.
NeverTaken(p) == FALSE        \* mutated: the row is created over an existing one
Taken(p) == track[p].status # "NONE"

InsertTracking(s) ==
  LET p == req[s].pool IN
  /\ At(s, "createTracking", "write")
  /\ IF Taken(p) THEN UNCHANGED row
     ELSE /\ track' = [track EXCEPT ![p] = [status |-> "PREPARING",
                                            notes |-> IF req[s].fragile = "yes" THEN "warning" ELSE "none"]]
          /\ carried' = carried \ {p} /\ warned' = warned \ {p} /\ stamped' = stamped \ {p}
  /\ Answer(s)
  /\ UNCHANGED <<status, flags, emailed>>

(***************************************************************************)
(* assignCarrier                                                           *)
(***************************************************************************)
ReadForCarrier(s) == ReadPool(s, "assignCarrier", "read", TRUE, "row")
ReadPrepared(s) == ReadRow(s, "assignCarrier", "row", track[req[s].pool].status = "PREPARING", "warn")

FlagAnyway(sent) == "yes"        \* mutated: set although the e-mail failed
FlagUnset(sent) == IF sent THEN "yes" ELSE "unset"        \* mutated: no value until the e-mail is sent
FlagAfter(sent) == YesNo(sent)

\* sendFragileCarrierNotification, unless one is on record; its failure is only logged.
WarnCarrier(s) ==
  LET p == req[s].pool IN
  /\ At(s, "assignCarrier", "warn")
  /\ IF req[s].fragile = "yes" /\ req[s].flag = "no"
     THEN \E sent \in BOOLEAN :
            /\ emailed' = IF sent THEN emailed \cup {p} ELSE emailed
            /\ Advance(s, "write", req[s].read, FlagAfter(sent), req[s].fragile)
     ELSE Goto(s, "write") /\ UNCHANGED emailed
  /\ UNCHANGED <<status, flags, row>>

WriteCarrier(s) ==
  LET p == req[s].pool
      kept == req[s].read
  IN
  /\ At(s, "assignCarrier", "write")
  /\ track' = [track EXCEPT ![p] = [status |-> "HANDED_TO_CARRIER",
                 notes |-> IF req[s].fragile = "yes" /\ kept = "none" THEN "warning" ELSE kept]]
  /\ carried' = carried \cup {p}
  /\ warned' = IF req[s].flag = "yes" THEN warned \cup {p} ELSE warned \ {p}
  /\ Answer(s)
  /\ UNCHANGED <<status, flags, stamped, emailed>>

(***************************************************************************)
(* updateDeliveryStatus                                                    *)
(***************************************************************************)
ReadForStatusChange(s) ==
  ReadRow(s, "updateStatus", "read", <<track[req[s].pool].status, req[s].to>> \in ValidTransitions, "pool")
ReadPoolOfRow(s) == ReadPool(s, "updateStatus", "pool", TRUE, "write")

\* mutated: the client's notes come last
NotesFromClient(isFragile, to, sent, current) ==
  IF sent # "none" THEN sent ELSE IF to = "OUT_FOR_DELIVERY" /\ isFragile = "yes" THEN "warning" ELSE current

\* The warning is appended to the notes for the last mile of a fragile gift; else a client's notes replace them.
NotesFor(isFragile, to, sent, current) ==
  IF to = "OUT_FOR_DELIVERY" /\ isFragile = "yes" THEN "warning" ELSE IF sent # "none" THEN sent ELSE current

WriteDeliveryStatus(s) ==
  LET p == req[s].pool
      to == req[s].to
  IN
  /\ At(s, "updateStatus", "write")
  /\ track' = [track EXCEPT ![p] = [status |-> to, notes |-> NotesFor(req[s].fragile, to, req[s].notes, @.notes)]]
  /\ stamped' = IF to = "DELIVERED" THEN stamped \cup {p} ELSE stamped
  /\ IF to = "DELIVERED" THEN Goto(s, "confirm") ELSE Answer(s)
  /\ UNCHANGED <<status, flags, carried, warned, emailed>>

\* A second, separate UPDATE: the pool is DELIVERED, whatever its status has become.
ConfirmPool(s) ==
  /\ At(s, "updateStatus", "confirm")
  /\ status' = [status EXCEPT ![req[s].pool] = "DELIVERED"]
  /\ Answer(s)
  /\ UNCHANGED <<flags, row, emailed>>

(***************************************************************************)
(* Everything else.                                                        *)
(***************************************************************************)
\* The statuses written by the pools' handlers: contributions, purchasePool, deliverPool and refunds.
PoolMove(p) ==
  /\ \/ "fund" \in Moves /\ status[p] = "FUNDING" /\ status' = [status EXCEPT ![p] = "FUNDED"]
     \/ "purchase" \in Moves /\ status[p] = "FUNDED" /\ status' = [status EXCEPT ![p] = "PURCHASED"]
     \/ "deliver" \in Moves /\ status[p] = "PURCHASED" /\ status' = [status EXCEPT ![p] = "DELIVERED"]
     \/ "refund" \in Moves /\ status[p] # "FUNDING" /\ status' = [status EXCEPT ![p] = "FUNDING"]
  /\ UNCHANGED <<flags, row, emailed, req>>

\* updatePool checks the status (canEdit is left out), and writes isFragile two awaits later whatever it is then.
BeginEdit(p) == /\ "edit" \in Moves /\ status[p] = "FUNDING"
                /\ editing' = editing \cup {p}
                /\ UNCHANGED <<status, fragile, late, row, emailed, req>>

Edit(p) ==
  /\ p \in editing /\ editing' = editing \ {p}
  /\ \/ fragile' = fragile \cup {p}
        /\ late' = IF p \notin fragile /\ track[p].status # "NONE" THEN late \cup {p} ELSE late
     \/ fragile' = fragile \ {p} /\ late' = late \ {p}
  /\ UNCHANGED <<status, row, emailed, req>>

\* A request fails at an await (database gone, tracking_number not unique), or dies with its process.
Fail(s) == req[s].at # "idle" /\ Answer(s) /\ UNCHANGED <<status, flags, row, emailed>>

Step(s) == \/ ReadForTracking(s) \/ ReadNoTracking(s) \/ InsertTracking(s)
           \/ ReadForCarrier(s) \/ ReadPrepared(s) \/ WarnCarrier(s) \/ WriteCarrier(s)
           \/ ReadForStatusChange(s) \/ ReadPoolOfRow(s) \/ WriteDeliveryStatus(s) \/ ConfirmPool(s)

Next == \/ \E s \in Sessions : Send(s) \/ Step(s) \/ Fail(s)
        \/ \E p \in Pools : PoolMove(p) \/ BeginEdit(p) \/ Edit(p)

Spec == Init /\ [][Next]_vars

(***************************************************************************)
(* Properties.                                                             *)
(***************************************************************************)
Local == [at : {"idle", "read", "row", "pool", "warn", "write", "confirm"},
          op : {"none", "createTracking", "assignCarrier", "updateStatus"}, pool : Pools \cup {None},
          to : DeliveryStatuses \cup {"NONE"}, notes : Notes, read : Notes,
          flag : {"yes", "no"}, fragile : {"yes", "no"}]

\* Every variable holds what its column or local variable may hold.
TypeOK ==
  /\ status \in [Pools -> {"FUNDING", "FUNDED", "PURCHASED", "DELIVERED"}]
  /\ track \in [Pools -> [status : DeliveryStatuses \cup {"NONE"}, notes : Notes]]
  /\ fragile \subseteq Pools /\ editing \subseteq Pools /\ late \subseteq Pools
  /\ carried \subseteq Pools /\ warned \subseteq Pools /\ stamped \subseteq Pools /\ emailed \subseteq Pools
  /\ req \in [Sessions -> Local]

\* fragileWarningSent stands for an e-mail that was sent: assignCarrier carries the flag from its read over
\* the e-mail to its write, and neither a failing e-mail nor a concurrent assignment makes it untrue.
WarningWasSent == warned \subseteq emailed

\* A gift that is fragile, and was marked so before its tracking began, is never out for delivery without the
\* warning in its carrierNotes, whatever notes clients send, whichever stale notes an assignment writes back,
\* and although a refund lets updatePool change the mark of a tracked gift.
LastMileWarned == \A p \in fragile \ late : track[p].status = "OUT_FOR_DELIVERY" => track[p].notes = "warning"

\* A tracking row never loses its carrier or its deliveredAt, though two requests may both find no row for
\* the pool and both create one.
NothingForgotten == [][carried \subseteq carried' /\ stamped \subseteq stamped']_vars

\* "Automatic pool status update to DELIVERED on delivery confirmation": when nothing is in flight, the pool
\* of a delivered gift is DELIVERED.  (Stated where pools are not refunded.)
DeliveryReachesPool ==
  \A p \in Pools : track[p].status = "DELIVERED" /\ (\A s \in Sessions : req[s].at = "idle") => status[p] = "DELIVERED"
=============================================================================
