--------------------------- MODULE DeviceIncidents ---------------------------
(***************************************************************************)
(* Announcing the outages of terminals (DevicesService.setStatus and       *)
(* NotificationsService.deviceStatusChanged).  A failed synchronization or *)
(* probe announces an outage unless a notice newer than the last contact   *)
(* already did; a contact announces its end if it had been announced.      *)
(* Somebody is always there to be notified; a notice for several people is *)
(* one notice here.  No two time stamps are the same millisecond.          *)
(***************************************************************************)
EXTENDS Naturals, Sequences

CONSTANTS
    None,
    Handlers,
    Devices,
    Retention,    \* RETENTION_DAYS
    LastTime,     \* bound on the clock
    Overlaps,     \* handlers of one terminal overlap, and punches come while it is synchronized
    LongOutages   \* an outage may outlast the retention of its notice

VARIABLES
    jobs,     \* by handler: the status change under way, or None
    clock,
    device,   \* status and lastSeenAt of each row
    notices,  \* notifications: type, device and creation
    told      \* history: by device, the types of the notices ever created, in order

incidentVars == <<jobs, clock, device, notices, told>>

Failures == {"OFFLINE", "ERROR"}

Init ==
    /\ jobs = [h \in Handlers |-> None]
    /\ clock = 0
    /\ device = [d \in Devices |-> [status |-> "OFFLINE", lastSeen |-> None]]
    /\ notices = {}
    /\ told = [d \in Devices |-> <<>>]

-----------------------------------------------------------------------------
Busy(d) == \E h \in Handlers : jobs[h] # None /\ jobs[h].device = d

\* An outage of d has been announced, and its end has not.
Announced(d) == told[d] # <<>> /\ told[d][Len(told[d])] = "DEVICE_DOWN"

(* Time passes with every stamp.                                           *)
Stamp ==
    /\ clock < LastTime /\ clock' = clock + 1
    /\ ~LongOutages => \A d \in Devices : Announced(d) =>
          \E n \in notices : n.type = "DEVICE_DOWN" /\ n.device = d /\ n.at >= clock' - Retention

(* setStatus reads the row; what the caller saw of the terminal is over.   *)
BeginStatus(h, d, status) ==
    /\ jobs[h] = None
    /\ ~Overlaps => ~Busy(d)
    /\ Stamp
    /\ jobs' = [jobs EXCEPT ![h] =
          [at |-> "update", device |-> d, status |-> status, before |-> device[d].lastSeen,
           seen |-> IF status = "ONLINE" THEN clock' ELSE None]]
    /\ UNCHANGED <<device, notices, told>>

UpdateRow(h) ==
    /\ jobs[h] # None /\ jobs[h].at = "update"
    /\ LET job == jobs[h]
           row == [status |-> job.status,
                   lastSeen |-> IF job.seen # None THEN job.seen ELSE device[job.device].lastSeen]
       IN  /\ device' = [device EXCEPT ![job.device] = row]
           /\ jobs' = [jobs EXCEPT ![h].at = "lookup", ![h].seen = row.lastSeen]
    /\ UNCHANGED <<clock, notices, told>>

(* A live batch of a terminal that is ONLINE or SYNCING only stamps the row.*)
Contact(d) ==
    /\ device[d].status \in {"ONLINE"} \cup (IF Overlaps THEN {"SYNCING"} ELSE {})
    /\ ~Overlaps => ~Busy(d)
    /\ Stamp
    /\ device' = [device EXCEPT ![d].lastSeen = clock']
    /\ UNCHANGED <<jobs, notices, told>>

DownReportedSince(d, since) ==
    \E n \in notices : n.type = "DEVICE_DOWN" /\ n.device = d /\ n.at >= since

\* Mutant: the end of an outage is looked for after the contact that ended it.
ToAnnounceAfter(job) ==
    CASE job.status \in Failures ->
           IF job.seen # None /\ ~DownReportedSince(job.device, job.seen) THEN "DEVICE_DOWN" ELSE None
      [] job.status = "ONLINE" ->
           IF job.before # None /\ DownReportedSince(job.device, job.seen) THEN "DEVICE_RECOVERED" ELSE None
      [] OTHER -> None

\* What deviceStatusChanged has to say, or None.
ToAnnounce(job) ==
    CASE job.status \in Failures ->
           IF job.seen # None /\ ~DownReportedSince(job.device, job.seen) THEN "DEVICE_DOWN" ELSE None
      [] job.status = "ONLINE" ->
           IF job.before # None /\ DownReportedSince(job.device, job.before) THEN "DEVICE_RECOVERED" ELSE None
      [] OTHER -> None

LookUp(h) ==
    /\ jobs[h] # None /\ jobs[h].at = "lookup"
    /\ LET type == ToAnnounce(jobs[h])
       IN  jobs' = [jobs EXCEPT ![h] = IF type = None THEN None
                                      ELSE [at |-> "send", device |-> @.device, type |-> type]]
    /\ UNCHANGED <<clock, device, notices, told>>

Send(h) ==
    /\ jobs[h] # None /\ jobs[h].at = "send"
    /\ Stamp
    /\ notices' = notices \cup {[type |-> jobs[h].type, device |-> jobs[h].device, at |-> clock']}
    /\ told' = [told EXCEPT ![jobs[h].device] = Append(@, jobs[h].type)]
    /\ jobs' = [jobs EXCEPT ![h] = None]
    /\ UNCHANGED device

(* Every night, what is past retention is deleted.                         *)
PurgeExpired ==
    /\ \E n \in notices : n.at < clock - Retention
    /\ notices' = {n \in notices : n.at >= clock - Retention}
    /\ UNCHANGED <<jobs, clock, device, told>>

Next ==
    \/ \E h \in Handlers :
          \/ UpdateRow(h) \/ LookUp(h) \/ Send(h)
          \/ \E d \in Devices, status \in {"SYNCING", "ONLINE", "OFFLINE"} : BeginStatus(h, d, status)
    \/ \E d \in Devices : Contact(d)
    \/ PurgeExpired

Spec == Init /\ [][Next]_incidentVars

-----------------------------------------------------------------------------
(* Properties.                                                             *)

(* However often a terminal fails, and however its synchronizations,       *)
(* probes and punches follow one another, the notices about it alternate:  *)
(* one for each outage and one for its end, and once a contact is dealt    *)
(* with no outage is left announced.                                       *)
OutagesAreTold ==
    \A d \in Devices :
       /\ \A i \in 1..Len(told[d]) : told[d][i] = IF i % 2 = 1 THEN "DEVICE_DOWN" ELSE "DEVICE_RECOVERED"
       /\ device[d].status = "ONLINE" /\ ~Busy(d) => ~Announced(d)
=============================================================================
