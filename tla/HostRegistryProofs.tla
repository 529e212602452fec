------------------------- MODULE HostRegistryProofs -------------------------
(***************************************************************************)
(* Proofs about HostRegistry: its inductive invariant, and what holds of   *)
(* it for any number of hosts and requests.                                *)
(***************************************************************************)
EXTENDS HostRegistry, TLAPS

USE NoHostIsNoRecord, FreeIsNoHandler, MayOverlapIsBoolean

(* What the first critical section of any handler does: it puts a request  *)
(* in flight whose record is well formed and based on the current entry.   *)
Started(h, t) ==
    /\ t \in Task
    /\ Admitted(h, t.mac)
    /\ task' = [task EXCEPT ![h] = t]
    /\ UNCHANGED <<hosts, now, packet, mu>>
    /\ t.pc # "save"
    /\ ~t.raced
    /\ TaskShape(t)
    /\ BasedOnCurrent(t)
    /\ t.rec # NoHost => t.rec.seen <= now

(* The first critical section of every handler that gets past its checks   *)
(* is such a start.                                                        *)
LEMMA LookupStarts ==
    ASSUME TypeOK, ClockAhead, Epoch <= now,
           NEW h \in Handlers, Lookup(h)
    PROVE  \E t : Started(h, t)
<1> USE DEF Epoch
<1>1. CASE BeginRegister(h)
  <2>1. PICK m \in Macs : \E n \in Names \cup {m} :
            Begin(h, "stamp", "register", m,
                  [name |-> n, seen |-> Epoch, disabled |-> FlagOf(m)])
    BY <1>1 DEF BeginRegister
  <2>2. PICK n \in Names \cup {m} :
            Begin(h, "stamp", "register", m,
                  [name |-> n, seen |-> Epoch, disabled |-> FlagOf(m)])
    BY <2>1
  <2> DEFINE r == [name |-> n, seen |-> Epoch, disabled |-> FlagOf(m)]
             t == [pc |-> "stamp", op |-> "register", mac |-> m,
                   rec |-> r, raced |-> FALSE]
  <2>3. FlagOf(m) \in BOOLEAN
    BY DEF FlagOf, TypeOK, TableTypeOK, HostRecord, Registered
  <2>4. r \in HostRecord
    BY <2>3 DEF HostRecord, HostNames
  <2>5. t \in Task
    BY <2>4 DEF Task, Ops
  <2>6. TaskShape(t)
    BY <2>4 DEF TaskShape
  <2>7. BasedOnCurrent(t)
    BY <2>4 DEF BasedOnCurrent
  <2>8. Started(h, t)
    BY <2>2, <2>4, <2>5, <2>6, <2>7 DEF Started, Begin
  <2>9. QED
    BY <2>8
<1>2. CASE BeginAdd(h)
  <2>1. PICK m \in Macs : \E n \in Names \cup {m} :
            Begin(h, "write", "add", m,
                  [name |-> n, seen |-> Epoch, disabled |-> FALSE])
    BY <1>2 DEF BeginAdd
  <2>2. PICK n \in Names \cup {m} :
            Begin(h, "write", "add", m,
                  [name |-> n, seen |-> Epoch, disabled |-> FALSE])
    BY <2>1
  <2> DEFINE r == [name |-> n, seen |-> Epoch, disabled |-> FALSE]
             t == [pc |-> "write", op |-> "add", mac |-> m,
                   rec |-> r, raced |-> FALSE]
  <2>3. r \in HostRecord
    BY DEF HostRecord, HostNames
  <2>4. t \in Task
    BY <2>3 DEF Task, Ops
  <2>5. TaskShape(t)
    BY <2>3 DEF TaskShape
  <2>6. BasedOnCurrent(t)
    BY DEF BasedOnCurrent
  <2>7. Started(h, t)
    BY <2>2, <2>3, <2>4, <2>5, <2>6 DEF Started, Begin
  <2>8. QED
    BY <2>7
<1>3. CASE BeginDelete(h)
  <2>1. PICK m \in Macs :
            Registered(m) /\ Begin(h, "write", "delete", m, NoHost)
    BY <1>3 DEF BeginDelete, FindByMAC
  <2> DEFINE t == [pc |-> "write", op |-> "delete", mac |-> m,
                   rec |-> NoHost, raced |-> FALSE]
  <2>2. t \in Task
    BY DEF Task, Ops
  <2>3. TaskShape(t) /\ BasedOnCurrent(t)
    BY <2>1 DEF TaskShape, BasedOnCurrent, Registered
  <2>4. Started(h, t)
    BY <2>1, <2>2, <2>3 DEF Started, Begin
  <2>5. QED
    BY <2>4
<1>4. CASE BeginDisable(h)
  <2>1. PICK m \in Macs :
            /\ Registered(m)
            /\ ~hosts[m].disabled
            /\ Begin(h, "write", "disable", m, [hosts[m] EXCEPT !.disabled = TRUE])
    BY <1>4 DEF BeginDisable, FindByMAC
  <2> DEFINE r == [hosts[m] EXCEPT !.disabled = TRUE]
             t == [pc |-> "write", op |-> "disable", mac |-> m,
                   rec |-> r, raced |-> FALSE]
  <2>2. /\ hosts[m] \in HostRecord
        /\ hosts[m] # NoHost
        /\ hosts[m].seen <= now
    BY <2>1 DEF TypeOK, TableTypeOK, Registered, ClockAhead
  <2>3. r \in HostRecord /\ r.seen <= now
    BY <2>2 DEF HostRecord
  <2>4. t \in Task
    BY <2>3 DEF Task, Ops
  <2>5. TaskShape(t)
    BY <2>3 DEF TaskShape
  <2>6. BasedOnCurrent(t)
    BY <2>1, <2>2 DEF BasedOnCurrent
  <2>7. Started(h, t)
    BY <2>1, <2>3, <2>4, <2>5, <2>6 DEF Started, Begin
  <2>8. QED
    BY <2>7
<1>5. CASE BeginEnable(h)
  <2>1. PICK m \in Macs :
            /\ Registered(m)
            /\ hosts[m].disabled
            /\ Begin(h, "write", "enable", m, [hosts[m] EXCEPT !.disabled = FALSE])
    BY <1>5 DEF BeginEnable, FindByMAC
  <2> DEFINE r == [hosts[m] EXCEPT !.disabled = FALSE]
             t == [pc |-> "write", op |-> "enable", mac |-> m,
                   rec |-> r, raced |-> FALSE]
  <2>2. /\ hosts[m] \in HostRecord
        /\ hosts[m] # NoHost
        /\ hosts[m].seen <= now
    BY <2>1 DEF TypeOK, TableTypeOK, Registered, ClockAhead
  <2>3. r \in HostRecord /\ r.seen <= now
    BY <2>2 DEF HostRecord
  <2>4. t \in Task
    BY <2>3 DEF Task, Ops
  <2>5. TaskShape(t)
    BY <2>3 DEF TaskShape
  <2>6. BasedOnCurrent(t)
    BY <2>1, <2>2 DEF BasedOnCurrent
  <2>7. Started(h, t)
    BY <2>1, <2>3, <2>4, <2>5, <2>6 DEF Started, Begin
  <2>8. QED
    BY <2>7
<1>6. CASE BeginWakeHttp(h)
  <2>1. PICK m \in Macs :
            /\ Registered(m)
            /\ ~hosts[m].disabled
            /\ Begin(h, "send", "http", m, hosts[m])
    BY <1>6 DEF BeginWakeHttp, FindByMAC, FindByHostname
  <2> DEFINE r == hosts[m]
             t == [pc |-> "send", op |-> "http", mac |-> m,
                   rec |-> r, raced |-> FALSE]
  <2>2. /\ hosts[m] \in HostRecord
        /\ hosts[m] # NoHost
        /\ hosts[m].seen <= now
    BY <2>1 DEF TypeOK, TableTypeOK, Registered, ClockAhead
  <2>3. r \in HostRecord /\ r.seen <= now
    BY <2>2 DEF HostRecord
  <2>4. t \in Task
    BY <2>3 DEF Task, Ops
  <2>5. TaskShape(t)
    BY <2>3 DEF TaskShape
  <2>6. BasedOnCurrent(t)
    BY <2>1, <2>2 DEF BasedOnCurrent
  <2>7. Started(h, t)
    BY <2>1, <2>3, <2>4, <2>5, <2>6 DEF Started, Begin
  <2>8. QED
    BY <2>7
<1>7. CASE BeginWakeTelegram(h)
  <2>1. PICK m \in Macs :
            /\ Registered(m)
            /\ Begin(h, "send", "telegram", m, hosts[m])
    BY <1>7 DEF BeginWakeTelegram, TelegramTargets, FindByHostname
  <2> DEFINE r == hosts[m]
             t == [pc |-> "send", op |-> "telegram", mac |-> m,
                   rec |-> r, raced |-> FALSE]
  <2>2. /\ hosts[m] \in HostRecord
        /\ hosts[m] # NoHost
        /\ hosts[m].seen <= now
    BY <2>1 DEF TypeOK, TableTypeOK, Registered, ClockAhead
  <2>3. r \in HostRecord /\ r.seen <= now
    BY <2>2 DEF HostRecord
  <2>4. t \in Task
    BY <2>3 DEF Task, Ops
  <2>5. TaskShape(t)
    BY <2>3 DEF TaskShape
  <2>6. BasedOnCurrent(t)
    BY <2>1, <2>2 DEF BasedOnCurrent
  <2>7. Started(h, t)
    BY <2>1, <2>3, <2>4, <2>5, <2>6 DEF Started, Begin
  <2>8. QED
    BY <2>7
<1>8. QED
  BY <1>1, <1>2, <1>3, <1>4, <1>5, <1>6, <1>7 DEF Lookup

(* A request that is not overtaken keeps being fresh while the table and   *)
(* its own task stay as they are.                                          *)
LEMMA SameTableSameFreshness ==
    ASSUME NEW t, hosts' = hosts, BasedOnCurrent(t)
    PROVE  BasedOnCurrent(t)'
BY DEF BasedOnCurrent, FlagOf, Registered

(* The same if only another host's entry changed. *)
LEMMA OtherHostSameFreshness ==
    ASSUME NEW t, hosts'[t.mac] = hosts[t.mac], BasedOnCurrent(t)
    PROVE  BasedOnCurrent(t)'
BY DEF BasedOnCurrent, FlagOf, Registered

(* An empty table, nobody in flight: the invariant holds at first. *)
THEOREM InitialInvariant == Init => IInv
<1> SUFFICES ASSUME Init PROVE IInv
  OBVIOUS
<1> USE DEF Init, TableInit, Idle
<1>1. TypeOK
  BY DEF TypeOK, TableTypeOK, Epoch
<1>2. LockHeldWhileSaving /\ RequestsWellFormed /\ OneRequestPerHost
  BY DEF LockHeldWhileSaving, RequestsWellFormed, OneRequestPerHost, Active
<1>3. ClockAhead /\ SnapshotFresh
  BY DEF ClockAhead, Registered, SnapshotFresh, Active
<1>4. QED
  BY <1>1, <1>2, <1>3 DEF IInv

(* A new request preserves the invariant: its record is fresh by           *)
(* construction.                                                           *)
LEMMA LookupKeepsInvariant ==
    ASSUME IInv, NEW h \in Handlers, Lookup(h)
    PROVE  IInv'
<1>1. Epoch <= now
  BY DEF IInv, TypeOK, TableTypeOK, Epoch
<1>2. PICK t : Started(h, t)
  BY <1>1, LookupStarts DEF IInv
<1>3. /\ task \in [Handlers -> Task \cup {Idle}]
      /\ task[h] = Idle
      /\ task' = [task EXCEPT ![h] = t]
      /\ t \in Task
  BY <1>2 DEF IInv, TypeOK, Started, Admitted
<1>4. /\ task'[h] = t
      /\ \A g \in Handlers \ {h} : task'[g] = task[g]
      /\ hosts' = hosts /\ now' = now /\ packet' = packet /\ mu' = mu
  BY <1>2, <1>3 DEF Started
<1>5. t # Idle /\ Idle.pc = "idle"
  BY <1>3 DEF Task, Idle
<1>6. TypeOK'
  BY <1>3, <1>4 DEF IInv, TypeOK, TableTypeOK
<1>7. LockHeldWhileSaving'
  BY <1>2, <1>3, <1>4, <1>5 DEF IInv, LockHeldWhileSaving, Started
<1>8. RequestsWellFormed'
  BY <1>2, <1>4 DEF IInv, RequestsWellFormed, Active, Started, TaskShape
<1>9. ClockAhead'
  BY <1>2, <1>4 DEF IInv, ClockAhead, Active, Started, Registered
<1>10. OneRequestPerHost'
  BY <1>2, <1>3, <1>4, <1>5
     DEF IInv, OneRequestPerHost, Active, Started, Admitted
<1>11. SnapshotFresh'
  <2> SUFFICES ASSUME NEW g \in Handlers, Active(g)', task'[g].pc # "save",
                      ~task'[g].raced
               PROVE  BasedOnCurrent(task[g])'
    BY DEF SnapshotFresh
  <2>1. CASE g = h
    BY <2>1, <1>2, <1>4, SameTableSameFreshness DEF Started
  <2>2. CASE g # h
    <3>1. BasedOnCurrent(task[g])
      BY <2>2, <1>4 DEF IInv, SnapshotFresh, Active
    <3>2. QED
      BY <3>1, <2>2, <1>4 DEF BasedOnCurrent, FlagOf, Registered
  <2>3. QED
    BY <2>1, <2>2
<1>12. QED
  BY <1>6, <1>7, <1>8, <1>9, <1>10, <1>11 DEF IInv

(* Stamping a heartbeat preserves the invariant: the clock is not behind   *)
(* the table.                                                              *)
LEMMA StampKeepsInvariant ==
    ASSUME IInv, NEW h \in Handlers, Stamp(h)
    PROVE  IInv'
<1> DEFINE t == task[h]
           u == [t EXCEPT !.pc = "write", !.rec.seen = now]
<1>1. /\ task \in [Handlers -> Task \cup {Idle}]
      /\ t.pc = "stamp"
      /\ now \in Nat
  BY DEF IInv, TypeOK, TableTypeOK, Stamp
<1>2. t # Idle /\ t \in Task /\ TaskShape(t) /\ ClockAhead
  BY <1>1 DEF Idle, IInv, RequestsWellFormed, Active
<1>3. t.op = "register" /\ t.rec \in HostRecord
  BY <1>2, <1>1 DEF TaskShape, Task
<1>4. /\ task'[h] = u
      /\ \A g \in Handlers \ {h} : task'[g] = task[g]
      /\ hosts' = hosts /\ now' = now /\ packet' = packet /\ mu' = mu
      /\ task' = [task EXCEPT ![h] = u]
  BY <1>1 DEF Stamp
<1>5. /\ u \in Task
      /\ u # Idle
      /\ u.pc = "write" /\ u.op = t.op /\ u.mac = t.mac /\ u.raced = t.raced
      /\ u.rec \in HostRecord
      /\ u.rec = [t.rec EXCEPT !.seen = now]
  BY <1>1, <1>2, <1>3 DEF Task, HostRecord, Idle
<1> HIDE DEF u
<1>6. TypeOK'
  BY <1>1, <1>4, <1>5 DEF IInv, TypeOK, TableTypeOK
<1>7. LockHeldWhileSaving'
  BY <1>1, <1>4, <1>5 DEF IInv, LockHeldWhileSaving
<1>8. TaskShape(u) /\ u.rec.seen = now /\ u.rec.disabled = t.rec.disabled
  BY <1>2, <1>3, <1>5 DEF TaskShape, HostRecord
<1>9. RequestsWellFormed'
  BY <1>4, <1>8 DEF IInv, RequestsWellFormed, Active, TaskShape
<1>10. ClockAhead'
  BY <1>1, <1>4, <1>8 DEF IInv, ClockAhead, Active, Registered
<1>11. OneRequestPerHost'
  BY <1>2, <1>4, <1>5 DEF IInv, OneRequestPerHost, Active
<1>12. ~u.raced => BasedOnCurrent(u)
  <2> SUFFICES ASSUME ~u.raced PROVE BasedOnCurrent(u)
    OBVIOUS
  <2>1. t.pc # "save" /\ BasedOnCurrent(t)
    BY <1>1, <1>2, <1>5 DEF IInv, SnapshotFresh, Active
  <2>2. hosts[u.mac] # NoHost => hosts[u.mac].seen <= now
    BY <1>2, <1>5 DEF ClockAhead, Registered, Task
  <2>3. QED
    BY <2>1, <2>2, <1>3, <1>5, <1>8 DEF BasedOnCurrent
<1>13. SnapshotFresh'
  <2> SUFFICES ASSUME NEW g \in Handlers, Active(g)', task'[g].pc # "save",
                      ~task'[g].raced
               PROVE  BasedOnCurrent(task[g])'
    BY DEF SnapshotFresh
  <2>1. CASE g = h
    BY <2>1, <1>4, <1>12 DEF BasedOnCurrent, FlagOf, Registered
  <2>2. CASE g # h
    <3>1. BasedOnCurrent(task[g])
      BY <2>2, <1>4 DEF IInv, SnapshotFresh, Active
    <3>2. QED
      BY <3>1, <2>2, <1>4 DEF BasedOnCurrent, FlagOf, Registered
  <2>3. QED
    BY <2>1, <2>2
<1>14. QED
  BY <1>6, <1>7, <1>9, <1>10, <1>11, <1>13 DEF IInv

(* A write preserves the invariant: whoever is about the same host is      *)
(* marked as overtaken, and the others do not look at this entry.          *)
LEMMA WriteKeepsInvariant ==
    ASSUME IInv, NEW h \in Handlers, Write(h)
    PROVE  IInv'
<1> DEFINE t == task[h]
           u == [t EXCEPT !.pc = "save"]
<1>1. /\ task \in [Handlers -> Task \cup {Idle}]
      /\ hosts \in [Macs -> HostRecord \cup {NoHost}]
      /\ t.pc = "write"
      /\ mu = Free /\ mu' = h
      /\ now' = now /\ packet' = packet
  BY DEF IInv, TypeOK, TableTypeOK, Write
<1>2. t # Idle /\ t \in Task /\ TaskShape(t)
  BY <1>1 DEF Idle, IInv, RequestsWellFormed, Active
<1>3. t.mac \in Macs /\ t.rec \in HostRecord \cup {NoHost}
  BY <1>2 DEF Task
<1>4. /\ hosts'[t.mac] = t.rec
      /\ \A m \in Macs \ {t.mac} : hosts'[m] = hosts[m]
      /\ hosts' \in [Macs -> HostRecord \cup {NoHost}]
  BY <1>1, <1>3 DEF Write
<1>5. /\ u \in Task /\ u # Idle
      /\ u.pc = "save" /\ u.op = t.op /\ u.mac = t.mac
      /\ u.rec = t.rec /\ u.raced = t.raced
  BY <1>2 DEF Task, Idle
<1> HIDE DEF u
<1>6. task'[h] = u
  BY DEF Write, Overtaken, u
<1>7. ASSUME NEW g \in Handlers, g # h
      PROVE  IF task[g] # Idle /\ task[g].mac = t.mac
             THEN /\ task'[g] = [task[g] EXCEPT !.raced = TRUE]
                  /\ task'[g] \in Task /\ task'[g] # Idle
                  /\ task'[g].pc = task[g].pc /\ task'[g].op = task[g].op
                  /\ task'[g].mac = task[g].mac /\ task'[g].rec = task[g].rec
                  /\ task'[g].raced
             ELSE task'[g] = task[g]
  <2>1. CASE task[g] # Idle /\ task[g].mac = t.mac
    <3>1. task'[g] = [task[g] EXCEPT !.raced = TRUE]
      BY <2>1, <1>7 DEF Write, Overtaken
    <3>2. task[g] \in Task
      BY <2>1, <1>1
    <3>3. QED
      BY <3>1, <3>2, <2>1 DEF Task, Idle
  <2>2. CASE ~(task[g] # Idle /\ task[g].mac = t.mac)
    BY <2>2, <1>7 DEF Write, Overtaken
  <2>3. QED
    BY <2>1, <2>2
<1>8. TypeOK'
  <2>1. task' \in [Handlers -> Task \cup {Idle}]
    <3>1. \A g \in Handlers : task'[g] \in Task \cup {Idle}
      BY <1>1, <1>5, <1>6, <1>7
    <3>2. task' = Overtaken(h, t.mac)
      BY DEF Write
    <3>3. QED
      BY <3>1, <3>2 DEF Overtaken
  <2>2. QED
    BY <2>1, <1>1, <1>4 DEF IInv, TypeOK, TableTypeOK
<1>9. LockHeldWhileSaving'
  BY <1>1, <1>5, <1>6, <1>7 DEF IInv, LockHeldWhileSaving
<1>10. RequestsWellFormed'
  <2> SUFFICES ASSUME NEW g \in Handlers, Active(g)'
               PROVE  TaskShape(task[g])'
    BY DEF RequestsWellFormed
  <2>1. CASE g = h
    BY <2>1, <1>1, <1>2, <1>5, <1>6 DEF TaskShape
  <2>2. CASE g # h
    BY <2>2, <1>7 DEF IInv, RequestsWellFormed, Active, TaskShape
  <2>3. QED
    BY <2>1, <2>2
<1>11. ClockAhead'
  <2>1. t.rec # NoHost => t.rec.seen <= now
    BY <1>2 DEF IInv, ClockAhead, Active
  <2>2. \A m \in Macs : Registered(m)' => hosts'[m].seen <= now'
    BY <2>1, <1>1, <1>4 DEF IInv, ClockAhead, Registered
  <2>3. ASSUME NEW g \in Handlers, Active(g)', task'[g].rec # NoHost
        PROVE  task'[g].rec.seen <= now'
    BY <2>1, <2>3, <1>1, <1>5, <1>6, <1>7 DEF IInv, ClockAhead, Active
  <2>4. QED
    BY <2>2, <2>3 DEF ClockAhead
<1>12. OneRequestPerHost'
  <2> SUFFICES ASSUME ~MayOverlap, NEW g \in Handlers, Active(g)'
               PROVE  /\ ~task'[g].raced
                      /\ \A k \in Handlers \ {g} :
                            Active(k)' => task'[k].mac # task'[g].mac
    BY DEF OneRequestPerHost
  <2>1. \A k \in Handlers \ {h} : Active(k) => task[k].mac # t.mac
    BY <1>2 DEF IInv, OneRequestPerHost, Active
  <2>2. \A k \in Handlers \ {h} : task'[k] = task[k]
    BY <2>1, <1>7 DEF Active
  <2>3. QED
    BY <2>2, <1>2, <1>5, <1>6 DEF IInv, OneRequestPerHost, Active
<1>13. SnapshotFresh'
  <2> SUFFICES ASSUME NEW g \in Handlers, Active(g)', task'[g].pc # "save",
                      ~task'[g].raced
               PROVE  BasedOnCurrent(task[g])'
    BY DEF SnapshotFresh
  <2>1. g # h
    BY <1>5, <1>6
  <2>2. task'[g] = task[g] /\ task[g] # Idle /\ task[g].mac # t.mac
    BY <2>1, <1>7 DEF Active
  <2>3. BasedOnCurrent(task[g])
    BY <2>2 DEF IInv, SnapshotFresh, Active
  <2>4. hosts'[task[g].mac] = hosts[task[g].mac]
    BY <2>2, <1>1, <1>4 DEF Task
  <2>5. QED
    BY <2>2, <2>3, <2>4 DEF BasedOnCurrent, FlagOf, Registered
<1>14. QED
  BY <1>8, <1>9, <1>10, <1>11, <1>12, <1>13 DEF IInv

(* Saving and sending both end the request and leave the table alone. *)
LEMMA EndKeepsInvariant ==
    ASSUME IInv, NEW h \in Handlers, Save(h) \/ Send(h)
    PROVE  IInv'
<1>1. /\ task \in [Handlers -> Task \cup {Idle}]
      /\ task[h].pc \in {"save", "send"}
      /\ task' = [task EXCEPT ![h] = Idle]
      /\ hosts' = hosts /\ now' = now
      /\ task[h].pc = "save" => mu' = Free
      /\ task[h].pc = "send" => mu' = mu
  BY DEF IInv, TypeOK, Save, Send
<1>2. task[h] # Idle /\ task[h] \in Task /\ TaskShape(task[h])
  BY <1>1 DEF Idle, IInv, RequestsWellFormed, Active
<1>3. /\ task'[h] = Idle
      /\ \A g \in Handlers \ {h} : task'[g] = task[g]
  BY <1>1
<1>4. TypeOK'
  <2>1. packet' \in Packet \cup {NoPacket}
    <3>1. CASE Save(h)
      BY <3>1 DEF Save, IInv, TypeOK, TableTypeOK
    <3>2. CASE Send(h)
      <4>1. task[h].op \in {"http", "telegram"} /\ task[h].mac \in Macs
        BY <3>2, <1>2 DEF Send, TaskShape, Task
      <4>2. QED
        BY <3>2, <4>1 DEF Send, Packet, IInv, TypeOK, TableTypeOK
    <3>3. QED
      BY <3>1, <3>2
  <2>2. mu' \in Handlers \cup {Free}
    BY <1>1 DEF IInv, TypeOK
  <2>3. task' \in [Handlers -> Task \cup {Idle}]
    BY <1>1
  <2>4. QED
    BY <1>1, <2>1, <2>2, <2>3 DEF IInv, TypeOK, TableTypeOK
<1>5. LockHeldWhileSaving'
  BY <1>1, <1>2, <1>3 DEF IInv, LockHeldWhileSaving, Idle
<1>6. RequestsWellFormed' /\ OneRequestPerHost'
  BY <1>3 DEF IInv, RequestsWellFormed, OneRequestPerHost, Active, TaskShape
<1>7. ClockAhead'
  BY <1>1, <1>3 DEF IInv, ClockAhead, Active, Registered
<1>8. SnapshotFresh'
  BY <1>1, <1>3 DEF IInv, SnapshotFresh, Active, BasedOnCurrent, FlagOf, Registered
<1>9. QED
  BY <1>4, <1>5, <1>6, <1>7, <1>8 DEF IInv

(* A tick preserves the invariant: no time on record depends on it but as  *)
(* a bound.                                                                *)
LEMMA ClockKeepsInvariant ==
    ASSUME IInv, Clock
    PROVE  IInv'
<1>1. /\ hosts' = hosts /\ packet' = packet /\ mu' = mu /\ task' = task
      /\ now' = now + 1 /\ now \in Nat
  BY DEF Clock, Tick, IInv, TypeOK, TableTypeOK
<1>2. TypeOK' /\ LockHeldWhileSaving' /\ RequestsWellFormed' /\ OneRequestPerHost'
  BY <1>1 DEF IInv, TypeOK, TableTypeOK, LockHeldWhileSaving,
              RequestsWellFormed, OneRequestPerHost, Active, TaskShape
<1>3. SnapshotFresh'
  BY <1>1 DEF IInv, SnapshotFresh, Active, BasedOnCurrent, FlagOf, Registered
<1>4. ClockAhead'
  <2>1. ASSUME NEW m \in Macs, Registered(m)'
        PROVE  hosts'[m].seen <= now'
    <3>1. hosts[m] \in HostRecord /\ hosts[m].seen <= now
      BY <2>1, <1>1 DEF IInv, ClockAhead, TypeOK, TableTypeOK, Registered
    <3>2. QED
      BY <3>1, <1>1 DEF HostRecord
  <2>2. ASSUME NEW h \in Handlers, Active(h)', task'[h].rec # NoHost
        PROVE  task'[h].rec.seen <= now'
    <3>1. task[h] \in Task /\ task[h].rec.seen <= now
      BY <2>2, <1>1 DEF IInv, ClockAhead, TypeOK, Active
    <3>2. task[h].rec \in HostRecord
      BY <3>1, <2>2, <1>1 DEF Task
    <3>3. QED
      BY <3>1, <3>2, <1>1 DEF HostRecord
  <2>3. QED
    BY <2>1, <2>2 DEF ClockAhead
<1>5. QED
  BY <1>2, <1>3, <1>4 DEF IInv

(* A step that changes nothing preserves the invariant. *)
LEMMA StutterKeepsInvariant ==
    ASSUME IInv, UNCHANGED vars
    PROVE  IInv'
BY DEF vars, IInv, TypeOK, TableTypeOK, LockHeldWhileSaving, RequestsWellFormed,
       TaskShape, ClockAhead, OneRequestPerHost, SnapshotFresh, BasedOnCurrent,
       FlagOf, Registered, Active

(* The invariant is inductive. *)
LEMMA NextKeepsInvariant == IInv /\ [Next]_vars => IInv'
<1> SUFFICES ASSUME IInv, [Next]_vars PROVE IInv'
  OBVIOUS
<1>1. ASSUME NEW h \in Handlers,
             Lookup(h) \/ Stamp(h) \/ Write(h) \/ Save(h) \/ Send(h)
      PROVE  IInv'
  BY <1>1, LookupKeepsInvariant, StampKeepsInvariant, WriteKeepsInvariant,
     EndKeepsInvariant
<1>2. CASE Clock
  BY <1>2, ClockKeepsInvariant
<1>3. CASE UNCHANGED vars
  BY <1>3, StutterKeepsInvariant
<1>4. QED
  BY <1>1, <1>2, <1>3 DEF Next

(* The inductive invariant holds in every behaviour of the registry. *)
THEOREM Invariance == Spec => []IInv
<1>1. Init => IInv
  BY InitialInvariant
<1>2. IInv /\ [Next]_vars => IInv'
  BY NextKeepsInvariant
<1>3. QED
  BY <1>1, <1>2, PTL DEF Spec

(* Type correctness: whatever the handlers interleave, the table holds     *)
(* records of known hosts only, and every request is at a known step.      *)
THEOREM TypeCorrectness == Spec => []TypeOK
<1>1. IInv => TypeOK
  BY DEF IInv
<1>2. QED
  BY <1>1, Invariance, PTL

(* For any number of requests and hosts, overlapping or not: a handler     *)
(* that no other write overtook acts on the entry as it is now.            *)
THEOREM Freshness == Spec => []SnapshotFresh
<1>1. IInv => SnapshotFresh
  BY DEF IInv
<1>2. QED
  BY <1>1, Invariance, PTL

-----------------------------------------------------------------------------
(* What the write of a request that no other one has overtaken does to the *)
(* table: one operation of HostTable.                                      *)
LEMMA FreshWriteIsAnOperation ==
    ASSUME IInv, NEW h \in Handlers, Write(h), ~task[h].raced
    PROVE  TableNext
<1> DEFINE t == task[h]
           m == task[h].mac
<1>1. /\ t \in Task /\ t # Idle /\ t.pc = "write"
      /\ TaskShape(t) /\ BasedOnCurrent(t)
      /\ t.rec # NoHost => t.rec.seen <= now
  <2>1. t.pc = "write" /\ t # Idle
    BY DEF Write, Idle
  <2>2. t \in Task /\ TaskShape(t) /\ (t.rec # NoHost => t.rec.seen <= now)
    BY <2>1 DEF IInv, TypeOK, RequestsWellFormed, ClockAhead, Active
  <2>3. BasedOnCurrent(t)
    BY <2>1 DEF IInv, SnapshotFresh, Active
  <2>4. QED
    BY <2>1, <2>2, <2>3
<1>2. /\ m \in Macs
      /\ t.op \in {"register", "add", "delete", "disable", "enable"}
      /\ t.rec \in HostRecord \cup {NoHost}
      /\ now \in Nat
  BY <1>1 DEF Task, Ops, TaskShape, IInv, TypeOK, TableTypeOK
<1>3. Replace(m, t.rec)
  BY DEF Write, Replace
<1>4. CASE t.op = "register"
  <2>1. t.rec \in HostRecord /\ t.rec.name \in Names \cup {m}
        /\ t.rec.disabled = FlagOf(m)
    BY <1>1, <1>2, <1>4 DEF TaskShape, BasedOnCurrent
  <2>2. t.rec.seen \in Epoch .. now
    BY <1>1, <1>2, <2>1 DEF HostRecord, Epoch
  <2>3. Registered(m) => hosts[m].seen <= t.rec.seen
    BY <1>1, <1>4 DEF BasedOnCurrent, Registered
  <2>4. t.rec = [name |-> t.rec.name, seen |-> t.rec.seen,
                 disabled |-> t.rec.disabled]
    BY <2>1 DEF HostRecord
  <2>5. Replace(m, [name |-> t.rec.name, seen |-> t.rec.seen,
                    disabled |-> FlagOf(m)])
    BY <1>3, <2>1, <2>4
  <2>6. Heartbeat(m)
    BY <2>1, <2>2, <2>3, <2>5 DEF Heartbeat
  <2>7. QED
    BY <1>2, <2>6 DEF TableNext
<1>5. CASE t.op = "add"
  <2>1. /\ t.rec \in HostRecord /\ t.rec.name \in Names \cup {m}
        /\ t.rec.seen = Epoch /\ t.rec.disabled = FALSE
    BY <1>1, <1>2, <1>5 DEF TaskShape, HostRecord
  <2>2. t.rec = [name |-> t.rec.name, seen |-> Epoch, disabled |-> FALSE]
    BY <2>1 DEF HostRecord
  <2>3. Add(m)
    BY <1>3, <2>1, <2>2 DEF Add
  <2>4. QED
    BY <1>2, <2>3 DEF TableNext
<1>6. CASE t.op = "delete"
  <2>1. Registered(m) /\ t.rec = NoHost
    BY <1>1, <1>6 DEF BasedOnCurrent, Registered
  <2>2. Delete(m)
    BY <1>3, <2>1 DEF Delete
  <2>3. QED
    BY <1>2, <2>2 DEF TableNext
<1>7. CASE t.op = "disable"
  <2>1. Disable(m)
    BY <1>1, <1>3, <1>7 DEF BasedOnCurrent, Registered, Disable
  <2>2. QED
    BY <1>2, <2>1 DEF TableNext
<1>8. CASE t.op = "enable"
  <2>1. Enable(m)
    BY <1>1, <1>3, <1>8 DEF BasedOnCurrent, Registered, Enable
  <2>2. QED
    BY <1>2, <2>1 DEF TableNext
<1>9. QED
  BY <1>2, <1>4, <1>5, <1>6, <1>7, <1>8

(* Sending a packet is a wake-up of the table, or changes nothing in it,   *)
(* when nobody wrote the host's entry since it was looked up.              *)
LEMMA FreshSendIsAWake ==
    ASSUME IInv, NEW h \in Handlers, Send(h), ~task[h].raced
    PROVE  TableNext \/ UNCHANGED tableVars
<1> DEFINE t == task[h]
<1>1. t.pc = "send" /\ t # Idle
  BY DEF Send, Idle
<1>2. t \in Task /\ TaskShape(t)
  BY <1>1 DEF IInv, TypeOK, RequestsWellFormed, Active
<1>3. BasedOnCurrent(t)
  BY <1>1, <1>2 DEF IInv, SnapshotFresh, Active
<1>4. /\ t.mac \in Macs
      /\ t.op \in {"http", "telegram"}
      /\ Registered(t.mac)
      /\ t.op = "http" => ~hosts[t.mac].disabled
  BY <1>1, <1>2, <1>3 DEF Task, TaskShape, BasedOnCurrent, Registered
<1>5. CASE packet' = packet
  BY <1>5 DEF Send, tableVars
<1>6. CASE packet' = [via |-> t.op, mac |-> t.mac]
  <2>1. Wake(t.mac)
    BY <1>4, <1>6 DEF Wake, Send
  <2>2. QED
    BY <1>4, <2>1 DEF TableNext
<1>7. QED
  BY <1>5, <1>6 DEF Send

(* A request's last step but the save, its write or its packet, takes it   *)
(* to another step; so a request that acts while overtaken is in           *)
(* OvertakenActs.                                                          *)
LEMMA ActingIsSeen ==
    ASSUME IInv, NEW h \in Handlers, Write(h) \/ Send(h), task[h].raced
    PROVE  OvertakenActs
<1>1. task[h].pc \in {"write", "send"}
  BY DEF Write, Send
<1>2. task'[h] = Idle \/ task'[h] = [task[h] EXCEPT !.pc = "save"]
  BY DEF Write, Send, Overtaken, IInv, TypeOK
<1>3. task[h] \in Task
  BY <1>1 DEF IInv, TypeOK, Idle
<1>4. task'[h] # task[h]
  BY <1>1, <1>2, <1>3 DEF Idle, Task
<1>5. QED
  BY <1>1, <1>4 DEF OvertakenActs

(* Whatever overlaps, a step is an operation of HostTable, or none, or the *)
(* doing of an overtaken request.                                          *)
LEMMA StepIsAnOperation ==
    ASSUME IInv, [Next]_vars
    PROVE  [OvertakenActs \/ TableNext]_tableVars
<1>1. ASSUME NEW h \in Handlers, Lookup(h)
      PROVE  UNCHANGED tableVars
  BY <1>1 DEF Lookup, BeginRegister, BeginAdd, BeginDelete, BeginDisable,
     BeginEnable, BeginWakeHttp, BeginWakeTelegram, Begin, tableVars
<1>2. ASSUME NEW h \in Handlers, Stamp(h) \/ Save(h)
      PROVE  UNCHANGED tableVars
  BY <1>2 DEF Stamp, Save, tableVars
<1>3. CASE Clock
  BY <1>3 DEF Clock, TableNext
<1>4. CASE UNCHANGED vars
  BY <1>4 DEF vars, tableVars
<1>5. QED
  BY <1>1, <1>2, <1>3, <1>4, FreshWriteIsAnOperation, FreshSendIsAWake,
     ActingIsSeen DEF Next

(* Without overlap nobody is overtaken. *)
LEMMA NobodyIsOvertaken ==
    ASSUME IInv, ~MayOverlap
    PROVE  ~OvertakenActs
BY DEF IInv, OneRequestPerHost, Active, OvertakenActs, Idle

(* For any number of hosts and requests, overlapping as they please: a     *)
(* step that changes the table or sends a packet is one of the table's     *)
(* indivisible operations, unless it is that of a request which another    *)
(* write overtook.                                                         *)
THEOREM OthersAreOperations == Spec => OnlyTheOvertakenDepart
<1>1. IInv /\ [Next]_vars => [OvertakenActs \/ TableNext]_tableVars
  BY StepIsAnOperation
<1>2. QED
  BY <1>1, Invariance, PTL DEF Spec, OnlyTheOvertakenDepart

(* Whatever the number of hosts and requests, as long as no two requests   *)
(* about one host overlap, the registry implements HostTable: handlers     *)
(* that look up, decide and write later are as good as indivisible ones.   *)
THEOREM SerialRegistryImplementsTable ==
    ASSUME ~MayOverlap
    PROVE  Spec => ImplementsTable
<1>1. Init => TableInit
  BY DEF Init
<1>2. IInv /\ [Next]_vars => [TableNext]_tableVars
  BY StepIsAnOperation, NobodyIsOvertaken
<1>3. QED
  BY <1>1, <1>2, Invariance, PTL DEF Spec, ImplementsTable, TableSpec

-----------------------------------------------------------------------------
(* The step in which a request changes the map is Write, and no other step *)
(* touches the table.                                                      *)
LEMMA OnlyWritesChangeTheTable ==
    ASSUME IInv, [Next]_vars
    PROVE  /\ hosts' = hosts \/ \E h \in Handlers : Write(h)
           /\ \A h \in Handlers : Writing(h) => Write(h)
<1>1. ASSUME NEW h \in Handlers,
             Lookup(h) \/ Stamp(h) \/ Save(h) \/ Send(h)
      PROVE  hosts' = hosts /\ (mu' = mu \/ mu' = Free)
  BY <1>1 DEF Lookup, BeginRegister, BeginAdd, BeginDelete, BeginDisable,
     BeginEnable, BeginWakeHttp, BeginWakeTelegram, Begin, Stamp, Save, Send
<1>2. CASE Clock \/ UNCHANGED vars
  BY <1>2 DEF Clock, Tick, vars, Writing
<1>3. ASSUME NEW g \in Handlers, Write(g)
      PROVE  \A h \in Handlers : Writing(h) => Write(h)
  BY <1>3 DEF Write, Writing
<1>4. QED
  BY <1>1, <1>2, <1>3 DEF Next, Writing

(* What a write that nobody overtook relies on. *)
LEMMA WriteIsFresh ==
    ASSUME IInv, NEW h \in Handlers, Write(h), ~OvertakenActs
    PROVE  /\ task[h] \in Task
           /\ TaskShape(task[h])
           /\ BasedOnCurrent(task[h])
           /\ hosts'[task[h].mac] = task[h].rec
           /\ \A m \in Macs \ {task[h].mac} : hosts'[m] = hosts[m]
<1>1. task[h] # Idle /\ task[h].pc = "write"
  BY DEF Write, Idle
<1>2. ~task[h].raced
  BY ActingIsSeen
<1>3. task[h] \in Task /\ TaskShape(task[h]) /\ BasedOnCurrent(task[h])
  BY <1>1, <1>2 DEF IInv, TypeOK, RequestsWellFormed, SnapshotFresh, Active
<1>4. task[h].mac \in Macs
  BY <1>3 DEF Task
<1>5. QED
  BY <1>3, <1>4 DEF Write, IInv, TypeOK, TableTypeOK

(* A heartbeat that nobody overtook keeps the flag of every host. *)
LEMMA FreshHeartbeat ==
    ASSUME IInv, [Next]_vars, ~OvertakenActs
    PROVE  HeartbeatKeepsFlag
<1>1. SUFFICES ASSUME NEW h \in Handlers, NEW m \in Macs,
                      Writing(h), task[h].op = "register", FlagOf(m)
               PROVE  FlagOf(m)'
  BY DEF HeartbeatKeepsFlag
<1>2. Write(h)
  BY <1>1, OnlyWritesChangeTheTable
<1>3. CASE m = task[h].mac
  BY <1>1, <1>2, <1>3, WriteIsFresh
     DEF BasedOnCurrent, FlagOf, Registered, TaskShape
<1>4. CASE m # task[h].mac
  BY <1>1, <1>2, <1>4, WriteIsFresh DEF FlagOf, Registered
<1>5. QED
  BY <1>3, <1>4

(* A write that nobody overtook creates an entry only for a heartbeat or   *)
(* the add form.                                                           *)
LEMMA FreshCreation ==
    ASSUME IInv, [Next]_vars, ~OvertakenActs
    PROVE  CreatedOnPurpose
<1>1. SUFFICES ASSUME NEW m \in Macs, ~Registered(m), Registered(m)'
               PROVE  \E h \in Handlers :
                         /\ Writing(h)
                         /\ task[h].mac = m
                         /\ task[h].op \in {"register", "add"}
  BY DEF CreatedOnPurpose
<1>2. PICK h \in Handlers : Write(h)
  BY <1>1, OnlyWritesChangeTheTable DEF Registered
<1>3. task[h].mac = m /\ task[h].rec # NoHost
  BY <1>1, <1>2, WriteIsFresh DEF Registered
<1>4. task[h].pc = "write" /\ task[h] \in Task /\ Writing(h)
  BY <1>2, WriteIsFresh DEF Write, Writing
<1>5. task[h].op \in {"register", "add"}
  BY <1>1, <1>2, <1>3, <1>4, WriteIsFresh
     DEF BasedOnCurrent, TaskShape, Task, Ops, Registered
<1>6. QED
  BY <1>3, <1>4, <1>5

(* A write that nobody overtook, other than the add form's, does not take  *)
(* LastSeen back.                                                          *)
LEMMA FreshSeen ==
    ASSUME IInv, [Next]_vars, ~OvertakenActs
    PROVE  SeenDoesNotGoBack
<1>1. SUFFICES ASSUME NEW m \in Macs, Registered(m), Registered(m)',
                      \A h \in Handlers : Writing(h) => task[h].op # "add"
               PROVE  hosts'[m].seen >= hosts[m].seen
  BY DEF SeenDoesNotGoBack
<1>2. hosts[m] \in HostRecord /\ hosts[m].seen \in Nat
  BY <1>1 DEF IInv, TypeOK, TableTypeOK, Registered, HostRecord
<1>3. CASE hosts' = hosts
  BY <1>2, <1>3
<1>4. ASSUME NEW h \in Handlers, Write(h)
      PROVE  hosts'[m].seen >= hosts[m].seen
  <2>1. CASE m # task[h].mac
    <3>1. hosts'[m] = hosts[m]
      BY <2>1, <1>4, WriteIsFresh
    <3>2. QED
      BY <3>1, <1>2
  <2>2. CASE m = task[h].mac
    <3>1. /\ task[h].op # "add" /\ task[h].pc = "write"
          /\ hosts[m] # NoHost /\ hosts'[m] # NoHost
          /\ hosts'[m] = task[h].rec /\ task[h] \in Task
          /\ TaskShape(task[h]) /\ BasedOnCurrent(task[h])
      BY <2>2, <1>4, <1>1, WriteIsFresh DEF Write, Writing, Registered
    <3>2. task[h].op \in {"register", "disable", "enable"}
      BY <3>1 DEF Task, Ops, TaskShape
    <3>3. task[h].rec \in HostRecord /\ task[h].rec.seen \in Nat
      BY <3>1 DEF Task, HostRecord
    <3>4. task[h].rec.seen >= hosts[m].seen
      BY <3>1, <3>2, <3>3, <2>2, <1>2 DEF BasedOnCurrent, HostRecord
    <3>5. QED
      BY <3>1, <3>4
  <2>3. QED
    BY <2>1, <2>2
<1>5. QED
  BY <1>3, <1>4, OnlyWritesChangeTheTable

(* For any number of hosts and requests, overlapping as they please: a     *)
(* flag is lost to a heartbeat, a deleted host brought back or LastSeen    *)
(* taken back only in the step of a request that another write overtook.   *)
THEOREM OthersDoNoHarm == Spec => OnlyTheOvertakenHarm
<1>1. IInv /\ [Next]_vars =>
        [\/ OvertakenActs
         \/ HeartbeatKeepsFlag /\ CreatedOnPurpose /\ SeenDoesNotGoBack]_vars
  BY FreshHeartbeat, FreshCreation, FreshSeen
<1>2. QED
  BY <1>1, Invariance, PTL DEF Spec, OnlyTheOvertakenHarm

(* A heartbeat never re-enables a host that was disabled, when no two      *)
(* requests about one host overlap (without that, it can: see the run      *)
(* registry_flag_lost).                                                    *)
THEOREM SerialHeartbeatKeepsFlag ==
    ASSUME ~MayOverlap
    PROVE  Spec => DisabledSurvivesHeartbeat
<1>1. IInv /\ [Next]_vars => [HeartbeatKeepsFlag]_vars
  BY FreshHeartbeat, NobodyIsOvertaken
<1>2. QED
  BY <1>1, Invariance, PTL DEF Spec, DisabledSurvivesHeartbeat

(* A deleted host comes back only through a heartbeat or the add form,     *)
(* when no two requests about one host overlap.                            *)
THEOREM SerialDeletedStaysDeleted ==
    ASSUME ~MayOverlap
    PROVE  Spec => DeletedStaysDeleted
<1>1. IInv /\ [Next]_vars => [CreatedOnPurpose]_vars
  BY FreshCreation, NobodyIsOvertaken
<1>2. QED
  BY <1>1, Invariance, PTL DEF Spec, DeletedStaysDeleted

(* LastSeen never goes back while a host stays in the table, except by the *)
(* add form, when no two requests about one host overlap.                  *)
THEOREM SerialLastSeenNeverGoesBack ==
    ASSUME ~MayOverlap
    PROVE  Spec => LastSeenNeverGoesBack
<1>1. IInv /\ [Next]_vars => [SeenDoesNotGoBack]_vars
  BY FreshSeen, NobodyIsOvertaken
<1>2. QED
  BY <1>1, Invariance, PTL DEF Spec, LastSeenNeverGoesBack
=============================================================================
