---------------------------- MODULE HostRegistry ----------------------------
(***************************************************************************)
(* The server's host registry and the request handlers that use it:        *)
(* internal/server/registry.go and the heartbeat, wake, add, delete,       *)
(* disable and enable handlers of internal/server/handlers.go, which       *)
(* net/http runs on a goroutine per request.                               *)
(*                                                                         *)
(* Every registry method holds the lock for its whole body, but a handler  *)
(* calls two of them: it looks the host up, decides, and writes the record *)
(* it built back in a later critical section.  Between the two, any other  *)
(* request may run.  The write is split in two steps as well: the map      *)
(* changes, then config.yaml is saved, still under the lock, and the save  *)
(* may fail without the map being restored.                                *)
(*                                                                         *)
(* What the save does to the file is the subject of ConfigStore.           *)
(***************************************************************************)
EXTENDS HostTable

CONSTANTS
    Handlers,   \* request slots: at most this many requests at a time
    Free,       \* nobody holds Registry.mu for writing
    MayOverlap  \* TRUE: any requests may be in flight together.
                \* FALSE: never two requests about the same host.

ASSUME FreeIsNoHandler == Free \notin Handlers
ASSUME MayOverlapIsBoolean == MayOverlap \in BOOLEAN

VARIABLES
    mu,         \* the writer inside Registry.mu, or Free
    task        \* what each request slot is doing

vars == <<hosts, now, packet, mu, task>>

(***************************************************************************)
(* A request in flight: what it does, the call it makes next, the host it  *)
(* resolved, and the record it carries: the one it will write, the copy it *)
(* read (a wake), or NoHost (a deletion).  raced is a history field that   *)
(* no handler reads: another request has written this host's entry since   *)
(* this one looked it up.                                                  *)
(***************************************************************************)
Idle == [pc |-> "idle"]

Ops == {"register", "add", "delete", "disable", "enable", "http", "telegram"}

Task ==
    [pc    : {"stamp", "write", "save", "send"},
     op    : Ops,
     mac   : Macs,
     rec   : HostRecord \cup {NoHost},
     raced : BOOLEAN]

TypeOK ==
    /\ TableTypeOK
    /\ mu \in Handlers \cup {Free}
    /\ task \in [Handlers -> Task \cup {Idle}]

Init ==
    /\ TableInit
    /\ mu = Free
    /\ task = [h \in Handlers |-> Idle]

-----------------------------------------------------------------------------
(* RLock succeeds when no writer is inside. *)
CanRead == mu = Free

FindByMAC(m) == {m} \cap {x \in Macs : Registered(x)}

(* Which of several hosts of one name is found depends on map order. *)
FindByHostname(n) == {m \in Macs : Registered(m) /\ hosts[m].name = n}

(* The telegram bot tries its argument as a hostname, then as an address.  *)
(* These are two lookups, here taken at once: what comes between them      *)
(* could matter only to a host named like the address of another.          *)
TelegramTargets(t) ==
    IF FindByHostname(t) # {} THEN FindByHostname(t)
                              ELSE {m \in Macs : m = t /\ Registered(m)}

(* The workload: with MayOverlap = FALSE, no other request about m. *)
Admitted(h, m) ==
    /\ task[h] = Idle
    /\ MayOverlap \/ \A g \in Handlers : task[g] # Idle => task[g].mac # m

Begin(h, step, o, m, r) ==
    /\ Admitted(h, m)
    /\ task' = [task EXCEPT ![h] =
          [pc |-> step, op |-> o, mac |-> m, rec |-> r, raced |-> FALSE]]
    /\ UNCHANGED <<hosts, now, packet, mu>>

(***************************************************************************)
(* The first critical section of each handler.  Requests that end here (a  *)
(* malformed one, a host not found, a flag already as wanted, a wake of a  *)
(* disabled host) change nothing and are not steps.                        *)
(***************************************************************************)

(* Mutant: the flag is not looked up. *)
BeginRegisterEnabled(h) ==
    \E m \in Macs : \E n \in Names \cup {m} :
        /\ CanRead
        /\ Begin(h, "stamp", "register", m,
                 [name |-> n, seen |-> Epoch, disabled |-> FALSE])

(* handleRegister: FindByMAC for the flag; LastSeen is filled in by Stamp. *)
BeginRegister(h) ==
    \E m \in Macs : \E n \in Names \cup {m} :
        /\ CanRead
        /\ Begin(h, "stamp", "register", m,
                 [name |-> n, seen |-> Epoch, disabled |-> FlagOf(m)])

(* handleAddHost looks nothing up. *)
BeginAdd(h) ==
    \E m \in Macs : \E n \in Names \cup {m} :
        Begin(h, "write", "add", m,
              [name |-> n, seen |-> Epoch, disabled |-> FALSE])

BeginDelete(h) ==
    \E mac \in Macs : \E m \in FindByMAC(mac) :
        /\ CanRead
        /\ Begin(h, "write", "delete", m, NoHost)

(* Mutant: the record is rebuilt instead of copied. *)
BeginDisableAfresh(h) ==
    \E mac \in Macs : \E m \in FindByMAC(mac) :
        /\ CanRead
        /\ ~hosts[m].disabled
        /\ Begin(h, "write", "disable", m,
                 [hosts[m] EXCEPT !.seen = Epoch, !.disabled = TRUE])

BeginDisable(h) ==
    \E mac \in Macs : \E m \in FindByMAC(mac) :
        /\ CanRead
        /\ ~hosts[m].disabled
        /\ Begin(h, "write", "disable", m, [hosts[m] EXCEPT !.disabled = TRUE])

(* Mutant: a host that is not found is created. *)
BeginEnableOrCreate(h) ==
    \E m \in Macs :
        /\ CanRead
        /\ Registered(m) => hosts[m].disabled
        /\ Begin(h, "write", "enable", m,
                 IF Registered(m) THEN [hosts[m] EXCEPT !.disabled = FALSE]
                 ELSE [name |-> m, seen |-> Epoch, disabled |-> FALSE])

BeginEnable(h) ==
    \E mac \in Macs : \E m \in FindByMAC(mac) :
        /\ CanRead
        /\ hosts[m].disabled
        /\ Begin(h, "write", "enable", m, [hosts[m] EXCEPT !.disabled = FALSE])

(* Mutant: the flag is not checked. *)
BeginWakeHttpAny(h) ==
    \E t \in HostNames : \E m \in FindByMAC(t) \cup FindByHostname(t) :
        /\ CanRead
        /\ Begin(h, "send", "http", m, hosts[m])

(* handleWake: by address if the form has one, else by hostname. *)
BeginWakeHttp(h) ==
    \E t \in HostNames : \E m \in FindByMAC(t) \cup FindByHostname(t) :
        /\ CanRead
        /\ ~hosts[m].disabled
        /\ Begin(h, "send", "http", m, hosts[m])

(* App.Wake does not look at the flag. *)
BeginWakeTelegram(h) ==
    \E t \in HostNames : \E m \in TelegramTargets(t) :
        /\ CanRead
        /\ Begin(h, "send", "telegram", m, hosts[m])

-----------------------------------------------------------------------------
(* Mutant: the time is the one the agent names. *)
StampByAgent(h) ==
    /\ task[h].pc = "stamp"
    /\ \E t \in Epoch .. now :
          task' = [task EXCEPT ![h].pc = "write", ![h].rec.seen = t]
    /\ UNCHANGED <<hosts, now, packet, mu>>

(* handleRegister builds the record, time.Now() included. *)
Stamp(h) ==
    /\ task[h].pc = "stamp"
    /\ task' = [task EXCEPT ![h].pc = "write", ![h].rec.seen = now]
    /\ UNCHANGED <<hosts, now, packet, mu>>

(* History: every other request about m has now been overtaken. *)
Overtaken(h, m) ==
    [g \in Handlers |->
        IF g = h THEN [task[h] EXCEPT !.pc = "save"]
        ELSE IF task[g] # Idle /\ task[g].mac = m
             THEN [task[g] EXCEPT !.raced = TRUE]
             ELSE task[g]]

(* Lock, then the map: Upsert stores the record, Delete removes the entry. *)
Write(h) ==
    /\ task[h].pc = "write"
    /\ mu = Free
    /\ mu' = h
    /\ hosts' = [hosts EXCEPT ![task[h].mac] = task[h].rec]
    /\ task' = Overtaken(h, task[h].mac)
    /\ UNCHANGED <<now, packet>>

(* Mutant: the error path of the save returns without unlocking. *)
SaveKeepsLock(h) ==
    /\ task[h].pc = "save"
    /\ mu' \in {Free, h}
    /\ task' = [task EXCEPT ![h] = Idle]
    /\ UNCHANGED <<hosts, now, packet>>

(* saveLocked, then the deferred Unlock.  Whether the save worked decides  *)
(* the answer (200 or 500) and nothing else in memory.                     *)
Save(h) ==
    /\ task[h].pc = "save"
    /\ mu' = Free
    /\ task' = [task EXCEPT ![h] = Idle]
    /\ UNCHANGED <<hosts, now, packet>>

(* The packet goes out, or sending fails and the request ends all the same. *)
Send(h) ==
    /\ task[h].pc = "send"
    /\ packet' \in {packet, [via |-> task[h].op, mac |-> task[h].mac]}
    /\ task' = [task EXCEPT ![h] = Idle]
    /\ UNCHANGED <<hosts, now, mu>>

Clock == Tick /\ UNCHANGED <<mu, task>>

Lookup(h) ==
    \/ BeginRegister(h)
    \/ BeginAdd(h)
    \/ BeginDelete(h)
    \/ BeginDisable(h)
    \/ BeginEnable(h)
    \/ BeginWakeHttp(h)
    \/ BeginWakeTelegram(h)

Next ==
    \/ \E h \in Handlers : Lookup(h) \/ Stamp(h) \/ Write(h) \/ Save(h) \/ Send(h)
    \/ Clock

(* A goroutine that can run runs; sync.RWMutex admits every waiting writer. *)
Fairness ==
    \A h \in Handlers :
        /\ WF_vars(Stamp(h))
        /\ SF_vars(Write(h))
        /\ WF_vars(Save(h))
        /\ WF_vars(Send(h))

Spec == Init /\ [][Next]_vars

FairSpec == Spec /\ Fairness

-----------------------------------------------------------------------------
Active(h) == task[h] # Idle

(* The writer inside the lock is exactly the request that is saving. *)
LockHeldWhileSaving ==
    \A h \in Handlers : mu = h <=> task[h].pc = "save"

(***************************************************************************)
(* A record on its way to the table, or to the network, is still based on  *)
(* the entry as it is now, unless another request wrote that entry since.  *)
(* This is what the handlers count on when they write back what they read  *)
(* in an earlier critical section.                                         *)
(***************************************************************************)
BasedOnCurrent(t) ==
    LET cur == hosts[t.mac] IN
    /\ t.op = "register" =>
          /\ t.rec # NoHost
          /\ t.rec.disabled = FlagOf(t.mac)
          /\ (t.pc = "write" /\ cur # NoHost) => cur.seen <= t.rec.seen
    /\ t.op = "delete" => cur # NoHost /\ t.rec = NoHost
    /\ t.op = "disable" =>
          /\ cur # NoHost /\ ~cur.disabled
          /\ t.rec = [cur EXCEPT !.disabled = TRUE]
    /\ t.op = "enable" =>
          /\ cur # NoHost /\ cur.disabled
          /\ t.rec = [cur EXCEPT !.disabled = FALSE]
    /\ t.op \in {"http", "telegram"} => cur # NoHost /\ cur = t.rec
    /\ t.op = "http" => ~cur.disabled

SnapshotFresh ==
    \A h \in Handlers :
        (Active(h) /\ task[h].pc # "save" /\ ~task[h].raced)
            => BasedOnCurrent(task[h])

(* What each kind of request carries, and at which steps it can be. *)
TaskShape(t) ==
    /\ t.pc = "stamp" => t.op = "register"
    /\ t.pc = "send" <=> t.op \in {"http", "telegram"}
    /\ t.rec = NoHost <=> t.op = "delete"
    /\ t.op \in {"register", "add"} => t.rec.name \in Names \cup {t.mac}
    /\ t.op = "add" => t.rec.seen = Epoch /\ ~t.rec.disabled

RequestsWellFormed == \A h \in Handlers : Active(h) => TaskShape(task[h])

(* No time on record, or about to be, lies ahead of the clock. *)
ClockAhead ==
    /\ \A m \in Macs : Registered(m) => hosts[m].seen <= now
    /\ \A h \in Handlers :
          (Active(h) /\ task[h].rec # NoHost) => task[h].rec.seen <= now

(* Without overlap, two requests in flight are about different hosts, and  *)
(* nobody has been overtaken.                                              *)
OneRequestPerHost ==
    MayOverlap \/ \A h \in Handlers :
        Active(h) =>
            /\ ~task[h].raced
            /\ \A g \in Handlers \ {h} : Active(g) => task[g].mac # task[h].mac

(***************************************************************************)
(* The inductive invariant behind all of these: freshness of a snapshot is *)
(* preserved by a write because the writer holds the lock alone and marks  *)
(* everybody it overtakes, and by Stamp because the clock is ahead of the  *)
(* table.                                                                  *)
(***************************************************************************)
IInv ==
    /\ TypeOK
    /\ LockHeldWhileSaving
    /\ RequestsWellFormed
    /\ ClockAhead
    /\ OneRequestPerHost
    /\ SnapshotFresh

(* The step in which request h changes the map. *)
Writing(h) == mu = Free /\ mu' = h

(***************************************************************************)
(* handlers.go says of handleRegister that it preserves the flag "so a     *)
(* heartbeat can't silently re-enable a host an admin disabled from the    *)
(* UI": no heartbeat clears the flag of a host that is in the table.       *)
(***************************************************************************)
HeartbeatKeepsFlag ==
    \A h \in Handlers, m \in Macs :
        (Writing(h) /\ task[h].op = "register" /\ FlagOf(m)) => FlagOf(m)'
DisabledSurvivesHeartbeat == [][HeartbeatKeepsFlag]_vars

(***************************************************************************)
(* Disabling or enabling writes back a whole record read earlier; it must  *)
(* not bring back a host deleted meanwhile: only a heartbeat and the add   *)
(* form create an entry.                                                   *)
(***************************************************************************)
CreatedOnPurpose ==
    \A m \in Macs :
        (~Registered(m) /\ Registered(m)') =>
            \E h \in Handlers :
                /\ Writing(h)
                /\ task[h].mac = m
                /\ task[h].op \in {"register", "add"}
DeletedStaysDeleted == [][CreatedOnPurpose]_vars

(***************************************************************************)
(* The dashboard calls a host offline from the age of LastSeen, so         *)
(* LastSeen does not go back while the host stays in the table, unless the *)
(* add form starts its record afresh: not through a heartbeat stored late, *)
(* nor an enable or disable that writes an older copy back.                *)
(***************************************************************************)
SeenDoesNotGoBack ==
    \A m \in Macs :
        (/\ Registered(m)
         /\ Registered(m)'
         /\ \A h \in Handlers : Writing(h) => task[h].op # "add")
            => hosts'[m].seen >= hosts[m].seen
LastSeenNeverGoesBack == [][SeenDoesNotGoBack]_vars

(***************************************************************************)
(* When requests do overlap, what goes wrong is the doing of a request     *)
(* that another write overtook: in every other step a heartbeat keeps the  *)
(* flag, a deleted host stays deleted and LastSeen does not go back, ...   *)
(***************************************************************************)
OvertakenActs ==
    \E h \in Handlers :
        /\ task[h].pc \in {"write", "send"}
        /\ task[h].raced
        /\ task'[h] # task[h]

OnlyTheOvertakenHarm ==
    [][OvertakenActs \/ (HeartbeatKeepsFlag /\ CreatedOnPurpose /\ SeenDoesNotGoBack)]_vars

(***************************************************************************)
(* ... and every other step that changes the table or sends a packet is    *)
(* one of the table's indivisible operations.                              *)
(***************************************************************************)
OnlyTheOvertakenDepart == [][OvertakenActs \/ TableNext]_tableVars

(***************************************************************************)
(* Every request that entered its first critical section is answered: the  *)
(* lock is neither kept for ever nor waited for in vain.                   *)
(***************************************************************************)
RequestsFinish == \A h \in Handlers : Active(h) ~> ~Active(h)

(***************************************************************************)
(* As long as no two requests about one host overlap, lookup-and-write     *)
(* handlers are as good as indivisible operations on the table.            *)
(***************************************************************************)
ImplementsTable == TableSpec
=============================================================================
