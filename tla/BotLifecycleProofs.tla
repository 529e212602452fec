------------------------- MODULE BotLifecycleProofs -------------------------
(***************************************************************************)
(* Theorems about BotLifecycle, for any number of request handlers, tokens *)
(* and changes: its types and the end of a stop under every interleaving,  *)
(* and, while restarts take turns, what the bot does whatever fails and    *)
(* whenever the stop is asked for.                                         *)
(***************************************************************************)
EXTENDS BotLifecycle, SequenceTheorems, TLAPS

USE FourKinds, BoundIsNatural

(* What a call starts with is made of settings. *)
LEMMA BlankIsLocal ==
    /\ Blank \in Local
    /\ \A s \in Settings : NoLocal(s) \in Local
<1>1. [token |-> Unset, access |-> CHOOSE a \in Accesses : TRUE] \in Settings
  BY SomeAccess DEF Settings
<1>2. QED
  BY <1>1 DEF Blank, NoLocal, Local, None

(* The lengths of the two sequences, and what their entries are. *)
LEMMA Entries ==
    ASSUME TypeOK
    PROVE  /\ Len(services) \in Nat /\ DOMAIN services = 1 .. Len(services)
           /\ Len(bots) \in Nat /\ DOMAIN bots = 1 .. Len(bots)
           /\ \A i \in DOMAIN services : services[i] \in Service
           /\ \A b \in DOMAIN bots : bots[b] \in Bot
BY LenProperties, ElementOfSeq DEF TypeOK

(* Closing a bot keeps the bots what they are but for that flag. *)
LEMMA Closes ==
    ASSUME TypeOK, NEW b \in DOMAIN bots \cup {None}, Close(b)
    PROVE  /\ bots' \in Seq(Bot)
           /\ DOMAIN bots' = DOMAIN bots
           /\ \A c \in DOMAIN bots :
                 /\ bots'[c].settings = bots[c].settings
                 /\ bots'[c].ctx = bots[c].ctx
                 /\ bots'[c].late = bots[c].late
                 /\ c # b => bots'[c] = bots[c]
                 /\ c = b => bots'[c].closed
<1>1. CASE b = None
  <2>1. bots' = bots /\ b \notin DOMAIN bots
    BY <1>1, Entries DEF Close, None
  <2>2. QED
    BY <2>1 DEF TypeOK
<1>2. CASE b # None
  <2> DEFINE e == [bots[b] EXCEPT !.closed = TRUE]
  <2>1. b \in 1 .. Len(bots) /\ bots[b] \in Bot
    BY <1>2, Entries
  <2>2. e \in Bot /\ e.settings = bots[b].settings /\ e.ctx = bots[b].ctx
        /\ e.late = bots[b].late /\ e.closed
    BY <2>1 DEF Bot
  <2>3. bots' = [bots EXCEPT ![b] = e]
    BY <1>2, <2>1 DEF Close
  <2> HIDE DEF e
  <2>4. /\ bots' \in Seq(Bot) /\ Len(bots') = Len(bots)
        /\ \A c \in 1 .. Len(bots) : bots'[c] = IF c = b THEN e ELSE bots[c]
    BY <2>1, <2>2, <2>3, ExceptSeq DEF TypeOK
  <2>5. DOMAIN bots' = DOMAIN bots /\ DOMAIN bots = 1 .. Len(bots)
    BY <2>4, Entries, LenProperties
  <2>6. QED
    BY <2>2, <2>4, <2>5, Zenon
<1>3. QED
  BY <1>1, <1>2

(* A connection adds one bot, open, which the service keeps. *)
LEMMA Connects ==
    ASSUME TypeOK, ConnectsKnown, NEW p \in Procs, Connect(p)
    PROVE  LET s == local[p].service  n == Len(bots) + 1 IN
           /\ s \in DOMAIN services
           /\ n \in Nat \ {0} /\ n \notin DOMAIN bots
           /\ bots' \in Seq(Bot) /\ services' \in Seq(Service)
           /\ DOMAIN bots' = DOMAIN bots \cup {n}
           /\ DOMAIN services' = DOMAIN services
           /\ \A b \in DOMAIN bots : bots'[b] = bots[b]
           /\ bots'[n].settings = services[s].settings
           /\ bots'[n].ctx = local[p].ctx
           /\ ~bots'[n].closed
           /\ phase # "running" => bots'[n].late
           /\ services'[s].settings = services[s].settings
           /\ services'[s].bot = n
           /\ \A i \in DOMAIN services \ {s} : services'[i] = services[i]
<1> DEFINE s == local[p].service
           n == Len(bots) + 1
           new == [settings |-> services[s].settings, ctx |-> local[p].ctx,
                   closed |-> FALSE, late |-> phase # "running"]
           e == [services[s] EXCEPT !.bot = n]
<1>1. /\ s \in 1 .. Len(services) /\ services[s] \in Service
      /\ Len(bots) \in Nat /\ n \in Nat \ {0} /\ DOMAIN bots = 1 .. Len(bots)
      /\ DOMAIN services = 1 .. Len(services)
  BY Entries DEF ConnectsKnown, Connect, At
<1>2. local[p].ctx \in Nat
  BY DEF TypeOK, Local
<1>3. new \in Bot
  <2>1. services[s].settings \in Settings
    BY <1>1 DEF Service
  <2>2. QED
    BY <1>2, <2>1 DEF Bot
<1>4. /\ bots' = Append(bots, new)
      /\ services' = [services EXCEPT ![s] = e]
  BY <1>1 DEF Connect
<1>5. /\ e \in Service /\ e.settings = services[s].settings /\ e.bot = n
  BY <1>1 DEF Service
<1>6. /\ new.settings = services[s].settings /\ new.ctx = local[p].ctx
      /\ ~new.closed /\ (phase # "running" => new.late)
  OBVIOUS
<1> HIDE DEF new, e
<1>7. /\ services' \in Seq(Service) /\ Len(services') = Len(services)
      /\ \A i \in 1 .. Len(services) :
            services'[i] = IF i = s THEN e ELSE services[i]
  BY <1>1, <1>4, <1>5, ExceptSeq DEF TypeOK
<1>8. /\ bots' \in Seq(Bot) /\ Len(bots') = n
      /\ \A b \in 1 .. Len(bots) : bots'[b] = bots[b]
      /\ bots'[n] = new
  BY <1>1, <1>3, <1>4, AppendProperties DEF TypeOK
<1>9. /\ DOMAIN bots' = DOMAIN bots \cup {n} /\ n \notin DOMAIN bots
      /\ DOMAIN services' = DOMAIN services
  <2>1. DOMAIN bots' = 1 .. n /\ DOMAIN services' = 1 .. Len(services)
    BY <1>7, <1>8, LenProperties
  <2>2. QED
    BY <1>1, <2>1
<1>10. /\ bots'[n].settings = services[s].settings
       /\ bots'[n].ctx = local[p].ctx
       /\ ~bots'[n].closed
       /\ phase # "running" => bots'[n].late
  BY <1>6, <1>8, Zenon
<1>11. /\ services'[s] = e
       /\ \A i \in DOMAIN services \ {s} : services'[i] = services[i]
  BY <1>1, <1>7
<1>12. services'[s].settings = services[s].settings /\ services'[s].bot = n
  BY <1>5, <1>11
<1>13. \A b \in DOMAIN bots : bots'[b] = bots[b]
  BY <1>1, <1>8
<1>14. QED
  BY <1>1, <1>7, <1>8, <1>9, <1>10, <1>11, <1>12, <1>13, Zenon

-----------------------------------------------------------------------------
(* A step of the call of p, which leaves everyone else where they are. *)
Turn(p, step, v) ==
    /\ pc' = [pc EXCEPT ![p] = step]
    /\ local' = [local EXCEPT ![p] = v]

(* The types of pc and local survive such a step. *)
LEMMA TurnTypes ==
    ASSUME TypeOK, NEW p \in Procs, NEW step \in Steps, NEW v \in Local,
           Turn(p, step, v)
    PROVE  /\ pc' \in [Procs -> Steps]
           /\ local' \in [Procs -> Local]
           /\ pc'[p] = step /\ local'[p] = v
           /\ \A q \in Procs \ {p} : pc'[q] = pc[q] /\ local'[q] = local[q]
BY DEF TypeOK, Turn

(* The types of what remains. *)
WorldOK ==
    /\ http \in {"none", "made", "open", "shut"}
    /\ file \in Settings /\ mem \in Settings
    /\ contexts \in Nat
    /\ telegramCtx \in 1 .. contexts
    /\ cancelled \in SUBSET (1 .. contexts)
    /\ phase \in {"running", "stopping", "ended", "crashed", "aborted"}
    /\ missed \in {"nothing", "verification", "connection"}
    /\ changes \in 0 .. MaxChanges

(* Such a step preserves all types when it leaves services and bots alone  *)
(* and does not make p connect to a service that is not there.             *)
LEMMA TurnStep ==
    ASSUME TypeOK, ConnectsKnown,
           NEW p \in Procs, NEW step \in Steps, NEW v \in Local,
           Turn(p, step, v),
           step = "connect" => v.service \in DOMAIN services,
           UNCHANGED <<services, telegram, bots>>,
           WorldOK'
    PROVE  TypeOK' /\ ConnectsKnown'
<1>1. /\ pc' \in [Procs -> Steps]
      /\ local' \in [Procs -> Local]
      /\ pc'[p] = step /\ local'[p] = v
      /\ \A q \in Procs \ {p} : pc'[q] = pc[q] /\ local'[q] = local[q]
  BY TurnTypes
<1>2. TypeOK'
  BY <1>1 DEF TypeOK, WorldOK
<1>3. ConnectsKnown'
  BY <1>1 DEF ConnectsKnown
<1>4. QED
  BY <1>2, <1>3

(* Replacing the service adds one, not started. *)
LEMMA Replaces ==
    ASSUME TypeOK, NEW p \in Procs, Replace(p)
    PROVE  LET n == Len(services) + 1 IN
           /\ services' \in Seq(Service) /\ telegram' = n
           /\ DOMAIN services' = DOMAIN services \cup {n}
           /\ n \notin DOMAIN services
           /\ \A i \in DOMAIN services : services'[i] = services[i]
           /\ services'[n].settings = local[p].new
           /\ services'[n].bot = None
<1> DEFINE n == Len(services) + 1
           e == [settings |-> local[p].new, bot |-> None]
<1>1. e \in Service /\ e.settings = local[p].new /\ e.bot = None
  BY DEF TypeOK, Local, Service, None
<1>2. services' = Append(services, e) /\ telegram' = n
  BY DEF Replace
<1> HIDE DEF e
<1>3. /\ services' \in Seq(Service) /\ Len(services') = n
      /\ \A i \in 1 .. Len(services) : services'[i] = services[i]
      /\ services'[n] = e
  BY <1>1, <1>2, Entries, AppendProperties DEF TypeOK
<1>4. DOMAIN services' = 1 .. n /\ DOMAIN services = 1 .. Len(services)
      /\ Len(services) \in Nat
  BY <1>3, Entries, LenProperties
<1>5. QED
  BY <1>1, <1>2, <1>3, <1>4

(* Initially the types are right, and nobody connects. *)
LEMMA TypeInit == Init => TypeOK /\ ConnectsKnown
<1> SUFFICES ASSUME Init PROVE TypeOK /\ ConnectsKnown
  OBVIOUS
<1>1. [settings |-> mem, bot |-> None] \in Service
  BY DEF Init, Service, None
<1>2. services \in Seq(Service) /\ DOMAIN services = {1}
      /\ services[1].bot = None
  BY <1>1 DEF Init
<1>3. bots \in Seq(Bot)
  BY DEF Init
<1>4. pc \in [Procs -> Steps] /\ \A p \in Procs : pc[p] # "connect"
  BY DEF Init, Steps
<1>5. local \in [Procs -> Local]
  BY BlankIsLocal DEF Init
<1>6. /\ telegram \in DOMAIN services /\ contexts \in Nat
      /\ telegramCtx \in 1 .. contexts /\ cancelled \in SUBSET (1 .. contexts)
      /\ http = "none" /\ file \in Settings /\ mem \in Settings
      /\ phase = "running" /\ missed = "nothing" /\ changes \in 0 .. MaxChanges
  BY <1>2 DEF Init, RunContext
<1>7. QED
  BY <1>2, <1>3, <1>4, <1>5, <1>6 DEF TypeOK, ConnectsKnown

(* No step leaves the types, whatever overlaps. *)
LEMMA TypeStep ==
    ASSUME TypeOK, ConnectsKnown, [Next]_vars
    PROVE  TypeOK' /\ ConnectsKnown'
<1> USE DEF Steps
<1>1. CASE EditFile
  BY <1>1 DEF EditFile, TypeOK, ConnectsKnown
<1>2. ASSUME NEW p \in Reloaders, BeginReload(p)
      PROVE  TypeOK' /\ ConnectsKnown'
  <2>1. Turn(p, "load", NoLocal(mem)) /\ NoLocal(mem) \in Local
    BY <1>2, BlankIsLocal DEF BeginReload, Goto, Turn, TypeOK
  <2>2. WorldOK' /\ UNCHANGED <<services, telegram, bots>> /\ p \in Procs
    BY <1>2 DEF BeginReload, TypeOK, WorldOK, Procs
  <2>3. QED
    BY <2>1, <2>2, TurnStep
<1>3. ASSUME NEW p \in Requests, BeginUpdateSettings(p)
      PROVE  TypeOK' /\ ConnectsKnown'
  <2>1. PICK a \in Accesses, t \in Tokens \cup {mem.token} :
              local' = [local EXCEPT ![p] =
                [NoLocal(mem) EXCEPT !.form = TRUE,
                                     !.new = [token |-> t, access |-> a]]]
    BY <1>3 DEF BeginUpdateSettings
  <2> DEFINE v == [NoLocal(mem) EXCEPT !.form = TRUE,
                                       !.new = [token |-> t, access |-> a]]
  <2>2. v \in Local
    <3>1. [token |-> t, access |-> a] \in Settings /\ mem \in Settings
      BY DEF TypeOK, Settings
    <3>2. QED
      BY <3>1 DEF NoLocal, Local, None
  <2>3. Turn(p, "save", v)
    BY <1>3, <2>1 DEF BeginUpdateSettings, Goto, Turn
  <2> HIDE DEF v
  <2>4. WorldOK' /\ UNCHANGED <<services, telegram, bots>> /\ p \in Procs
    BY <1>3 DEF BeginUpdateSettings, TypeOK, WorldOK, Procs, Reloaders
  <2>5. QED
    BY <2>2, <2>3, <2>4, TurnStep
<1>4. ASSUME NEW p \in Requests, SaveSettings(p)
      PROVE  TypeOK' /\ ConnectsKnown'
  <2>1. p \in Procs
    BY DEF Procs, Reloaders
  <2>2. Turn(p, "load", local[p]) /\ local[p] \in Local
    BY <1>4, <2>1 DEF SaveSettings, Goto, Turn, TypeOK
  <2>3. WorldOK' /\ UNCHANGED <<services, telegram, bots>>
    BY <1>4, <2>1, <2>2 DEF SaveSettings, TypeOK, WorldOK, Local
  <2>4. QED
    BY <2>1, <2>2, <2>3, TurnStep
<1>5. ASSUME NEW p \in Requests, FailSaveSettings(p)
      PROVE  TypeOK' /\ ConnectsKnown'
  <2>1. Turn(p, "idle", Blank)
    BY <1>5 DEF FailSaveSettings, Finish, Goto, Turn
  <2>2. WorldOK' /\ UNCHANGED <<services, telegram, bots>> /\ p \in Procs
    BY <1>5 DEF FailSaveSettings, TypeOK, WorldOK, Procs, Reloaders
  <2>3. QED
    BY <2>1, <2>2, TurnStep, BlankIsLocal
<1>6. ASSUME NEW p \in Procs,
             \/ Load(p) \/ FailLoad(p) \/ Compare(p) \/ Cancel(p)
             \/ ShutdownBot(p) \/ Panic(p) \/ Replace(p) \/ NewContext(p)
             \/ Start(p) \/ Connect(p) \/ FailConnect(p)
      PROVE  TypeOK' /\ ConnectsKnown'
  <2>0. local[p] \in Local /\ pc[p] \in Steps
    BY DEF TypeOK
  <2>1. CASE Load(p)
    <3>1. Turn(p, "compare", local[p])
      BY <2>0, <2>1 DEF Load, Goto, Turn, TypeOK
    <3>2. WorldOK' /\ UNCHANGED <<services, telegram, bots>>
      BY <2>1 DEF Load, TypeOK, WorldOK
    <3>3. QED
      BY <2>0, <3>1, <3>2, TurnStep
  <2>2. CASE FailLoad(p)
    <3>1. Turn(p, "idle", Blank)
      BY <2>2 DEF FailLoad, Finish, Goto, Turn
    <3>2. WorldOK' /\ UNCHANGED <<services, telegram, bots>>
      BY <2>2 DEF FailLoad, TypeOK, WorldOK
    <3>3. QED
      BY <3>1, <3>2, TurnStep, BlankIsLocal
  <2>3. CASE Compare(p)
    <3> DEFINE v == [local[p] EXCEPT !.new = mem]
    <3>1. v \in Local
      BY <2>0 DEF TypeOK, Local
    <3>2. Turn(p, "cancel", v) \/ Turn(p, "idle", Blank)
      BY <2>3 DEF Compare, Finish, Goto, Turn
    <3> HIDE DEF v
    <3>3. WorldOK' /\ UNCHANGED <<services, telegram, bots>>
      BY <2>3 DEF Compare, TypeOK, WorldOK
    <3>4. QED
      BY <3>1, <3>2, <3>3, TurnStep, BlankIsLocal
  <2>4. CASE Cancel(p)
    <3>1. Turn(p, "shutdown", local[p])
      BY <2>0, <2>4 DEF Cancel, Goto, Turn, TypeOK
    <3>2. WorldOK' /\ UNCHANGED <<services, telegram, bots>>
      BY <2>4 DEF Cancel, TypeOK, WorldOK
    <3>3. QED
      BY <2>0, <3>1, <3>2, TurnStep
  <2>5. CASE ShutdownBot(p)
    <3> DEFINE b == services[telegram].bot
    <3>1. b \in DOMAIN bots \cup {None} /\ Close(b)
      BY <2>5 DEF TypeOK, ShutdownBot
    <3>2. bots' \in Seq(Bot) /\ DOMAIN bots' = DOMAIN bots
      BY <3>1, Closes
    <3>3. PICK step \in {"idle", "http", "replace"}, v \in {local[p], Blank} :
             Turn(p, step, v)
      <4>1. AfterShutdown(p) \in {"idle", "http", "replace"}
        BY DEF AfterShutdown
      <4>2. CASE AfterShutdown(p) = "idle"
        BY <2>5, <4>2 DEF ShutdownBot, Finish, Goto, Turn
      <4>3. CASE AfterShutdown(p) # "idle"
        BY <2>5, <4>1, <4>3 DEF ShutdownBot, Goto, Turn, TypeOK
      <4>4. QED
        BY <4>2, <4>3
    <3>4. /\ pc' \in [Procs -> Steps] /\ local' \in [Procs -> Local]
          /\ pc'[p] = step
          /\ \A q \in Procs \ {p} : pc'[q] = pc[q] /\ local'[q] = local[q]
      BY <2>0, <3>3, TurnTypes, BlankIsLocal
    <3>5. UNCHANGED <<http, file, mem, services, telegram, contexts,
                      telegramCtx, cancelled, phase, missed, changes>>
      BY <2>5 DEF ShutdownBot
    <3>6. TypeOK'
      BY <3>2, <3>4, <3>5 DEF TypeOK
    <3>7. ConnectsKnown'
      BY <3>3, <3>4, <3>5 DEF ConnectsKnown
    <3>8. QED
      BY <3>6, <3>7
  <2>6. CASE Panic(p)
    <3>1. (phase' \in {phase, "crashed", "aborted"})
          /\ (Turn(p, "idle", Blank) \/ Turn(p, pc[p], local[p]))
          /\ pc[p] = "shutdown"
      BY <2>6 DEF Panic, Finish, Goto, Turn, TypeOK, At
    <3>2. WorldOK' /\ UNCHANGED <<services, telegram, bots>>
      BY <2>6, <3>1 DEF Panic, TypeOK, WorldOK
    <3>3. QED
      BY <2>0, <3>1, <3>2, TurnStep, BlankIsLocal
  <2>7. CASE Replace(p)
    <3>1. /\ pc' \in [Procs -> Steps] /\ local' = local
          /\ pc'[p] = "context" /\ \A q \in Procs \ {p} : pc'[q] = pc[q]
      BY <2>7 DEF Replace, Goto, TypeOK
    <3>2. /\ services' \in Seq(Service)
          /\ telegram' \in DOMAIN services'
          /\ DOMAIN services \subseteq DOMAIN services'
          /\ \A i \in DOMAIN services' : services'[i].bot \in DOMAIN bots \cup {None}
      BY <2>7, Replaces DEF TypeOK
    <3>3. UNCHANGED <<http, file, mem, contexts, telegramCtx, cancelled, bots,
                      local, phase, missed, changes>>
      BY <2>7 DEF Replace
    <3>4. TypeOK'
      BY <3>1, <3>2, <3>3 DEF TypeOK
    <3>5. ASSUME NEW q \in Procs, pc'[q] = "connect"
          PROVE  local'[q].service \in DOMAIN services'
      <4>1. pc[q] = "connect"
        BY <3>1, <3>5
      <4>2. QED
        BY <3>1, <3>2, <4>1 DEF ConnectsKnown
    <3>6. QED
      BY <3>4, <3>5 DEF ConnectsKnown
  <2>8. CASE NewContext(p)
    <3>1. Turn(p, "start", local[p])
      BY <2>0, <2>8 DEF NewContext, Goto, Turn, TypeOK
    <3>2. WorldOK' /\ UNCHANGED <<services, telegram, bots>>
      BY <2>8 DEF NewContext, TypeOK, WorldOK
    <3>3. QED
      BY <2>0, <3>1, <3>2, TurnStep
  <2>9. CASE Start(p)
    <3> DEFINE v == [local[p] EXCEPT !.service = telegram, !.ctx = telegramCtx]
    <3>0. telegram \in Nat /\ telegramCtx \in Nat
      BY Entries DEF TypeOK
    <3>1. v \in Local /\ v.service = telegram
      BY <2>0, <3>0 DEF Local
    <3>2. Turn(p, "connect", v) \/ Turn(p, "listen", Blank) \/ Turn(p, "idle", Blank)
      BY <2>0, <2>9 DEF Start, Return, Goto, Turn, TypeOK
    <3> HIDE DEF v
    <3>3. WorldOK' /\ UNCHANGED <<services, telegram, bots>>
          /\ telegram \in DOMAIN services
      BY <2>9 DEF Start, TypeOK, WorldOK
    <3>4. QED
      BY <3>1, <3>2, <3>3, TurnStep, BlankIsLocal
  <2>10. CASE Connect(p)
    <3>1. Turn(p, "listen", Blank) \/ Turn(p, "idle", Blank)
      BY <2>10 DEF Connect, Return, Goto, Turn
    <3>2. /\ pc' \in [Procs -> Steps] /\ local' \in [Procs -> Local]
          /\ pc'[p] # "connect"
          /\ \A q \in Procs \ {p} : pc'[q] = pc[q] /\ local'[q] = local[q]
      BY <3>1, TurnTypes, BlankIsLocal
    <3>3. /\ bots' \in Seq(Bot) /\ services' \in Seq(Service)
          /\ DOMAIN services' = DOMAIN services
          /\ \A i \in DOMAIN services' :
                services'[i].bot \in DOMAIN bots' \cup {None}
      BY <2>10, Connects DEF TypeOK
    <3>4. /\ UNCHANGED <<http, file, mem, telegram, contexts, telegramCtx,
                         cancelled, phase, changes>>
          /\ missed' = "nothing"
      BY <2>10 DEF Connect
    <3>5. TypeOK'
      BY <3>2, <3>3, <3>4 DEF TypeOK
    <3>6. ConnectsKnown'
      BY <3>2, <3>3 DEF ConnectsKnown
    <3>7. QED
      BY <3>5, <3>6
  <2>11. CASE FailConnect(p)
    <3>1. Turn(p, "returned", Blank) \/ Turn(p, "idle", Blank)
      BY <2>11 DEF FailConnect, Return, Goto, Turn
    <3>2. WorldOK' /\ UNCHANGED <<services, telegram, bots>>
      BY <2>11 DEF FailConnect, TypeOK, WorldOK
    <3>3. QED
      BY <3>1, <3>2, TurnStep, BlankIsLocal
  <2>12. QED
    BY <1>6, <2>1, <2>2, <2>3, <2>4, <2>5, <2>6, <2>7, <2>8, <2>9, <2>10, <2>11
<1>7. CASE MakeServer \/ Listen \/ FailListen \/ ServeReturns
  BY <1>7 DEF MakeServer, Listen, FailListen, ServeReturns, Goto, Launch,
              TypeOK, ConnectsKnown, Procs, Reloaders, Stoppers
<1>8. CASE Stop
  BY <1>8 DEF Stop, TypeOK, ConnectsKnown, RunContext, Procs, Reloaders, Stoppers
<1>9. ASSUME NEW p \in Stoppers, CloseServer(p)
      PROVE  TypeOK' /\ ConnectsKnown'
  BY <1>9 DEF CloseServer, Goto, TypeOK, ConnectsKnown, Procs
<1>10. CASE AwaitRun \/ StopTimesOut \/ End
  BY <1>10 DEF AwaitRun, StopTimesOut, End, Goto, TypeOK, ConnectsKnown, Procs,
               Stoppers
<1>11. CASE UNCHANGED vars
  BY <1>11 DEF vars, TypeOK, ConnectsKnown
<1>12. QED
  BY <1>1, <1>2, <1>3, <1>4, <1>5, <1>6, <1>7, <1>8, <1>9, <1>10, <1>11
  DEF Next, RunStep, StopStep, Restart, Procs, Reloaders

(* Every reachable state is well typed, and nobody ever connects to a      *)
(* service that was not made.                                              *)
THEOREM TypeCorrectness == Spec => []TypeOK
<1>1. Init => TypeOK /\ ConnectsKnown
  BY TypeInit
<1>2. TypeOK /\ ConnectsKnown /\ [Next]_vars => TypeOK' /\ ConnectsKnown'
  BY TypeStep
<1>3. QED
  BY <1>1, <1>2, PTL DEF Spec

-----------------------------------------------------------------------------
(* Who is who, for the steps of Run and of the stop. *)
LEMMA Kinds ==
    /\ Runner \in Procs /\ Stopper \in Procs /\ OnContext \in Procs
    /\ Ticker \in Reloaders /\ Reloaders \subseteq Procs /\ Stoppers \subseteq Procs
    /\ Runner \notin Reloaders /\ Runner \notin Stoppers
    /\ Stopper # OnContext /\ Stoppers = {Stopper, OnContext}
    /\ Stopper \notin Reloaders /\ OnContext \notin Reloaders
BY DEF Procs, Reloaders, Stoppers

(* A call of a reloader, and an edit, leave Run, the stop and the HTTP     *)
(* server where they are.                                                  *)
LEMMA OthersAct ==
    ASSUME TypeOK, NEW p \in Reloaders,
           \/ BeginReload(p) \/ Restart(p)
           \/ BeginUpdateSettings(p) \/ SaveSettings(p) \/ FailSaveSettings(p)
    PROVE  /\ \A q \in Procs \ {p} : pc'[q] = pc[q]
           /\ http' = http
           /\ \/ phase' = phase
              \/ phase = "running" /\ phase' = "crashed"
              \/ phase = "stopping" /\ phase' = "aborted"
<1>1. /\ pc' = pc \/ \E step \in Steps : pc' = [pc EXCEPT ![p] = step]
      /\ http' = http
  BY Kinds DEF BeginReload, Restart, BeginUpdateSettings, SaveSettings,
     FailSaveSettings, Load, FailLoad, Compare, Cancel, ShutdownBot, Panic,
     Replace, NewContext, Start, Connect, FailConnect, Finish, Return, Goto,
     AfterShutdown, Steps
<1>2. \/ phase' = phase
      \/ phase = "running" /\ phase' = "crashed"
      \/ phase = "stopping" /\ phase' = "aborted"
  BY DEF BeginReload, Restart, BeginUpdateSettings, SaveSettings,
     FailSaveSettings, Load, FailLoad, Compare, Cancel, ShutdownBot, Panic,
     Replace, NewContext, Start, Connect, FailConnect, At, Alive
<1>3. QED
  BY <1>1, <1>2 DEF TypeOK

(* Where Run, shutdownOnContext and the HTTP server are relative to each   *)
(* other survives every step, whatever overlaps.                           *)
LEMMA ServerStep ==
    ASSUME TypeOK, ServerEnds, [Next]_vars
    PROVE  ServerEnds'
<1> USE Kinds DEF Started
<1>1. CASE EditFile \/ UNCHANGED vars
  BY <1>1 DEF EditFile, vars, ServerEnds
<1>2. ASSUME NEW p \in Reloaders,
             \/ BeginReload(p) \/ Restart(p)
             \/ BeginUpdateSettings(p) \/ SaveSettings(p) \/ FailSaveSettings(p)
      PROVE  ServerEnds'
  <2>1. /\ pc'[Runner] = pc[Runner] /\ pc'[OnContext] = pc[OnContext]
        /\ http' = http /\ pc'[Stopper] = pc[Stopper]
        /\ phase \in {"running", "crashed"} <=> phase' \in {"running", "crashed"}
        /\ phase \in {"running", "crashed"} => phase' \in {"running", "crashed"}
    BY <1>2, OthersAct
  <2>2. QED
    BY <2>1 DEF ServerEnds
<1>3. CASE MakeServer \/ Start(Runner) \/ Connect(Runner) \/ FailConnect(Runner)
  <2>1. PICK step \in {"start", "connect", "listen", "returned"} :
           pc' = [pc EXCEPT ![Runner] = step]
    BY <1>3 DEF MakeServer, Start, Connect, FailConnect, Return, Goto
  <2>2. /\ pc'[Runner] = step /\ pc'[OnContext] = pc[OnContext]
        /\ phase' = phase /\ pc'[Stopper] = pc[Stopper]
    BY <1>3, <2>1 DEF MakeServer, Start, Connect, FailConnect, TypeOK
  <2>3. http' # "none" /\ (http = "shut" => http' = "shut")
    BY <1>3 DEF MakeServer, Start, Connect, FailConnect, ServerEnds, At
  <2>4. pc[OnContext] = "unborn"
    BY <1>3 DEF MakeServer, Start, Connect, FailConnect, ServerEnds, At
  <2>5. QED
    BY <2>2, <2>3, <2>4 DEF ServerEnds
<1>4. CASE Listen \/ FailListen
  <2>1. /\ pc[Runner] = "listen" /\ phase' = phase
        /\ phase \in {"running", "stopping"}
        /\ http' # "none" /\ (http = "shut" => http' = "shut")
    BY <1>4 DEF Listen, FailListen, At, Alive, ServerEnds
  <2>2. /\ pc'[OnContext] = IF phase = "running" THEN "idle" ELSE "shutdown"
        /\ pc'[Stopper] = pc[Stopper] /\ pc'[Runner] \in {"serving", "returned"}
    BY <1>4 DEF Listen, FailListen, Launch, TypeOK
  <2>3. QED
    BY <2>1, <2>2 DEF ServerEnds
<1>5. CASE ServeReturns
  BY <1>5 DEF ServeReturns, Goto, TypeOK, ServerEnds
<1>6. CASE Stop
  BY <1>6 DEF Stop, TypeOK, ServerEnds
<1>7. ASSUME NEW p \in Stoppers, ShutdownBot(p) \/ Panic(p) \/ CloseServer(p)
      PROVE  ServerEnds'
  <2>1. CASE ShutdownBot(p)
    BY <2>1 DEF ShutdownBot, AfterShutdown, Goto, At, Alive, TypeOK, ServerEnds
  <2>2. CASE Panic(p)
    <3>1. p \notin Requests
      BY DEF Reloaders
    <3>2. QED
      BY <2>2, <3>1 DEF Panic, At, Alive, ServerEnds
  <2>3. CASE CloseServer(p)
    BY <2>3 DEF CloseServer, Goto, At, Alive, TypeOK, ServerEnds
  <2>4. QED
    BY <1>7, <2>1, <2>2, <2>3
<1>8. CASE AwaitRun \/ StopTimesOut \/ End
  BY <1>8 DEF AwaitRun, StopTimesOut, End, Goto, At, Alive, TypeOK, ServerEnds
<1>9. QED
  BY <1>1, <1>2, <1>3, <1>4, <1>5, <1>6, <1>7, <1>8
  DEF Next, RunStep, StopStep, Reloaders

-----------------------------------------------------------------------------
(* In the middle of a restart, and when one begins, everyone else rests:   *)
(* what the invariant says of others, of Run's start and of the stop has   *)
(* nothing to claim.                                                       *)
LEMMA OnlyOneActs ==
    ASSUME TypeOK, Turns, NEW p \in Reloaders, NEW step \in Steps \ {"unborn"},
           ~Resting(p) \/ Quiet,
           pc' = [pc EXCEPT ![p] = step], UNCHANGED phase
    PROVE  /\ phase = "running" /\ Started /\ Started'
           /\ pc'[p] = step
           /\ \A q \in Reloaders \ {p} : Resting(q) /\ pc'[q] = pc[q]
           /\ Turns' /\ Starting' /\ Stopped'
           /\ \A q \in Reloaders \ {p} : Restarting(q)'
<1>1. /\ Runner \in Procs \ {p} /\ Stopper \in Procs \ {p}
      /\ OnContext \in Procs \ {p} /\ p \in Procs /\ Ticker \in Procs
      /\ Reloaders \subseteq Procs /\ Runner \notin Reloaders /\ Stopper # Runner
  BY DEF Procs, Reloaders, Stoppers
<1>2. /\ phase = "running" /\ Started
      /\ \A q \in Reloaders \ {p} : Resting(q)
  BY <1>1 DEF Turns, Quiet
<1>3. pc'[p] = step /\ \A q \in Procs \ {p} : pc'[q] = pc[q]
  BY <1>1 DEF TypeOK
<1>4. Started' /\ phase' = "running" /\ Resting(Stopper)' /\ Resting(OnContext)'
  BY <1>1, <1>2, <1>3 DEF Turns, Started, Resting
<1>5. \A q \in Reloaders \ {p} : Resting(q)'
  BY <1>1, <1>2, <1>3 DEF Resting
<1>6. Turns'
  BY <1>4, <1>5 DEF Turns
<1>7. Starting' /\ Stopped'
  BY <1>4 DEF Starting, Stopped, Resting
<1>8. \A q \in Reloaders \ {p} : Restarting(q)'
  BY <1>5 DEF Restarting, Resting
<1>9. QED
  BY <1>1, <1>2, <1>3, <1>4, <1>6, <1>7, <1>8

(* A step that leaves the services, the bots and the contexts alone, and   *)
(* is none of those that a bot is closed or a service replaced by.         *)
LEMMA KeepsBots ==
    ASSUME BotInPlace, NoLoopSpins, NEW p \in Reloaders,
           pc[p] \notin {"shutdown", "replace"},
           \A q \in Reloaders \ {p} : pc'[q] = pc[q],
           UNCHANGED <<services, telegram, bots, telegramCtx, cancelled, phase>>
    PROVE  /\ InPlace' = InPlace /\ (NoneOpen' <=> NoneOpen)
           /\ BotInPlace' /\ NoLoopSpins'
<1>1. /\ InPlace' = InPlace /\ (NoneOpen' <=> NoneOpen)
      /\ \A b : Open(b)' <=> Open(b)
  BY DEF InPlace, NoneOpen, Open
<1>2. /\ Nowhere({"replace"})' => Nowhere({"replace"})
      /\ Nowhere({"shutdown", "replace"})' => Nowhere({"shutdown", "replace"})
  BY DEF Nowhere
<1>3. BotInPlace'
  BY <1>1, <1>2 DEF BotInPlace
<1>4. NoLoopSpins'
  BY <1>1 DEF NoLoopSpins
<1>5. QED
  BY <1>1, <1>3, <1>4

(* The invariant after a step of one reloader p, from what the step can    *)
(* disturb.                                                                *)
LEMMA Calm ==
    ASSUME NEW p \in Reloaders, Turns', Starting', Stopped', BotInPlace',
           NoLoopSpins', \A q \in Reloaders \ {p} : Restarting(q)',
           Restarting(p)', Settled'
    PROVE  CalmInv'
BY DEF CalmInv

(* A reload or a form begins when everyone rests. *)
LEMMA BeginStep ==
    ASSUME TypeOK, CalmInv, ~MayOverlap, NEW p \in Reloaders,
           BeginReload(p) \/ BeginUpdateSettings(p)
    PROVE  CalmInv'
<1>1. /\ p \in Procs /\ Quiet /\ pc[p] = "idle"
      /\ UNCHANGED <<services, telegram, bots, telegramCtx, cancelled, phase,
                     mem, missed>>
  BY DEF BeginReload, BeginUpdateSettings, Admitted, At, Procs
<1>2. /\ Started /\ \A q \in Reloaders : Resting(q)
  BY <1>1 DEF Quiet, Procs, Reloaders
<1>3. Suits(mem)
  BY <1>2 DEF CalmInv, Settled
<1>4. CASE BeginReload(p)
  <2>1. pc' = [pc EXCEPT ![p] = "load"] /\ local'[p] = NoLocal(mem)
    BY <1>1, <1>4 DEF BeginReload, Goto, TypeOK
  <2>2. /\ pc'[p] = "load" /\ \A q \in Reloaders \ {p} : pc'[q] = pc[q]
        /\ Turns' /\ Starting' /\ Stopped'
        /\ \A q \in Reloaders \ {p} : Restarting(q)'
    BY <1>1, <2>1, OnlyOneActs DEF Steps, CalmInv
  <2>3. /\ InPlace' = InPlace /\ BotInPlace' /\ NoLoopSpins'
    BY <1>1, <2>2, KeepsBots DEF CalmInv
  <2>4. /\ local'[p].form = FALSE /\ local'[p].old = mem
    BY <2>1 DEF NoLocal
  <2>5. Restarting(p)'
    BY <1>1, <1>3, <2>2, <2>3, <2>4 DEF Restarting, Suits
  <2>6. Settled'
    BY <2>2 DEF Settled, Resting
  <2>7. QED
    BY <2>2, <2>3, <2>5, <2>6, Calm
<1>5. CASE BeginUpdateSettings(p)
  <2>1. PICK a \in Accesses, t \in Tokens \cup {mem.token} :
              /\ mem.token # Unset => t = mem.token
              /\ local' = [local EXCEPT ![p] =
                    [NoLocal(mem) EXCEPT !.form = TRUE,
                                         !.new = [token |-> t, access |-> a]]]
    BY <1>5 DEF BeginUpdateSettings
  <2>2. pc' = [pc EXCEPT ![p] = "save"]
        /\ local'[p] = [NoLocal(mem) EXCEPT !.form = TRUE,
                                         !.new = [token |-> t, access |-> a]]
    BY <1>1, <1>5, <2>1 DEF BeginUpdateSettings, Goto, TypeOK
  <2>3. /\ pc'[p] = "save" /\ \A q \in Reloaders \ {p} : pc'[q] = pc[q]
        /\ Turns' /\ Starting' /\ Stopped'
        /\ \A q \in Reloaders \ {p} : Restarting(q)'
    BY <1>1, <2>2, OnlyOneActs DEF Steps, CalmInv
  <2>4. /\ InPlace' = InPlace /\ BotInPlace' /\ NoLoopSpins'
    BY <1>1, <2>3, KeepsBots DEF CalmInv
  <2>5. /\ local'[p].form = TRUE /\ local'[p].old = mem
        /\ local'[p].new.token = t
    BY <2>2 DEF NoLocal
  <2>6. Restarting(p)'
    BY <1>1, <1>3, <2>1, <2>3, <2>4, <2>5 DEF Restarting, Suits
  <2>7. Settled'
    BY <2>3 DEF Settled, Resting
  <2>8. QED
    BY <2>3, <2>4, <2>6, <2>7, Calm
<1>6. QED
  BY <1>4, <1>5

(* The steps that save and load the configuration, compare it, and cancel  *)
(* the context of the bot in place.                                        *)
LEMMA ConfigStep ==
    ASSUME TypeOK, CalmInv, NEW p \in Reloaders,
           \/ SaveSettings(p) \/ FailSaveSettings(p) \/ Load(p)
           \/ FailLoad(p) \/ Compare(p)
    PROVE  CalmInv'
<1>1. /\ p \in Procs /\ pc[p] \in {"save", "load", "compare"}
      /\ UNCHANGED <<services, telegram, bots, telegramCtx, cancelled, phase>>
  BY DEF SaveSettings, FailSaveSettings, Load, FailLoad, Compare, At, Procs
<1>2. Restarting(p) /\ Suits(local[p].old)
  BY <1>1 DEF CalmInv, Restarting
<1>3. PICK step \in {"load", "compare", "idle", "cancel"} :
         pc' = [pc EXCEPT ![p] = step]
  BY DEF SaveSettings, FailSaveSettings, Load, FailLoad, Compare, Finish, Goto
<1>4. /\ Started' /\ pc'[p] = step
      /\ \A q \in Reloaders \ {p} : Resting(q) /\ pc'[q] = pc[q]
      /\ Turns' /\ Starting' /\ Stopped'
      /\ \A q \in Reloaders \ {p} : Restarting(q)'
  BY <1>1, <1>3, OnlyOneActs DEF Steps, CalmInv, Resting
<1>5. InPlace' = InPlace /\ BotInPlace' /\ NoLoopSpins'
  BY <1>1, <1>4, KeepsBots DEF CalmInv
<1>6. Restarting(p)' /\ Settled'
  <2>1. CASE SaveSettings(p)
    <3>1. /\ step = "load" /\ pc[p] = "save" /\ local' = local
          /\ mem' = local[p].new /\ file' = local[p].new /\ missed' = missed
      BY <1>1, <1>3, <2>1 DEF SaveSettings, Goto, At, TypeOK
    <3>2. Restarting(p)'
      BY <1>2, <1>4, <1>5, <3>1 DEF Restarting, Suits
    <3>3. QED
      BY <1>4, <3>1, <3>2 DEF Settled, Resting
  <2>2. CASE FailSaveSettings(p)
    <3>1. step = "idle" /\ pc[p] = "save" /\ mem' = mem /\ missed' = missed
      BY <1>1, <1>3, <2>2 DEF FailSaveSettings, Finish, Goto, At, TypeOK
    <3>2. Settled'
      BY <1>2, <1>5, <3>1 DEF Restarting, Settled, Suits
    <3>3. QED
      BY <1>4, <3>1, <3>2 DEF Restarting
  <2>3. CASE Load(p)
    <3>1. /\ step = "compare" /\ pc[p] = "load" /\ local' = local
          /\ mem' = file /\ missed' = missed
      BY <1>1, <1>3, <2>3 DEF Load, Goto, At, TypeOK
    <3>2. Restarting(p)'
      BY <1>2, <1>4, <1>5, <3>1 DEF Restarting, Suits
    <3>3. QED
      BY <1>4, <3>1, <3>2 DEF Settled, Resting
  <2>4. CASE FailLoad(p)
    <3>1. /\ step = "idle" /\ pc[p] = "load" /\ mem' = mem
          /\ missed' = IF local[p].form /\ local[p].new # local[p].old
                       THEN "verification" ELSE missed
      BY <1>1, <1>3, <2>4 DEF FailLoad, Finish, Goto, At, TypeOK
    <3>2. Suits(mem)'
      <4>1. CASE local[p].form /\ local[p].new # local[p].old
        BY <1>2, <1>5, <3>1, <4>1 DEF Restarting, Suits
      <4>2. CASE ~(local[p].form /\ local[p].new # local[p].old)
        BY <1>2, <1>5, <3>1, <4>2 DEF Restarting, Suits
      <4>3. QED
        BY <4>1, <4>2
    <3>3. QED
      BY <1>4, <3>1, <3>2 DEF Restarting, Settled
  <2>5. CASE Compare(p)
    <3>1. /\ pc[p] = "compare" /\ mem' = mem /\ missed' = missed
          /\ IF Differs(local[p].old, mem)
             THEN step = "cancel"
                  /\ local' = [local EXCEPT ![p].new = mem]
             ELSE step = "idle"
      BY <1>1, <1>3, <2>5 DEF Compare, Finish, Goto, At, TypeOK
    <3>2. CASE Differs(local[p].old, mem)
      <4>1. /\ local'[p].new = mem /\ local'[p].form = local[p].form
            /\ local'[p].old = local[p].old
        BY <1>1, <3>1, <3>2 DEF TypeOK, Local
      <4>2. local[p].form /\ mem.token = Unset
               => InPlace.settings.token = Unset
        BY <1>2, <3>1 DEF Restarting, Suits
      <4>3. Suits(local[p].old)' /\ local[p].old # mem
        BY <1>2, <1>5, <3>1, <3>2, <4>1 DEF Suits, Differs
      <4>4. Restarting(p)'
        BY <1>4, <1>5, <3>1, <3>2, <4>1, <4>2, <4>3 DEF Restarting, Suits
      <4>5. QED
        BY <1>4, <3>1, <3>2, <4>4 DEF Settled, Resting
    <3>3. CASE ~Differs(local[p].old, mem)
      BY <1>2, <1>4, <1>5, <3>1, <3>3 DEF Restarting, Settled, Suits, Differs
    <3>4. QED
      BY <3>2, <3>3
  <2>6. QED
    BY <2>1, <2>2, <2>3, <2>4, <2>5
<1>7. QED
  BY <1>4, <1>5, <1>6, Calm

(* The steps of the restart proper: cancel, shut down, replace, start.     *)
LEMMA RestartStep ==
    ASSUME TypeOK, ConnectsKnown, CalmInv, NEW p \in Reloaders,
           \/ Cancel(p) \/ ShutdownBot(p) \/ Panic(p) \/ Replace(p)
           \/ NewContext(p) \/ Start(p) \/ Connect(p) \/ FailConnect(p)
    PROVE  CalmInv'
<1>1. /\ p \in Procs /\ p \notin Stoppers /\ p # Runner
      /\ pc[p] \in {"cancel", "shutdown", "replace", "context", "start", "connect"}
      /\ local[p] \in Local /\ telegram \in DOMAIN services
  BY DEF Cancel, ShutdownBot, Panic, Replace, NewContext, Start, Connect,
         FailConnect, At, Procs, TypeOK
<1>2. Restarting(p)
  BY DEF CalmInv
<1>3. /\ phase = "running" /\ Started
      /\ \A q \in Reloaders \ {p} : Resting(q)
  BY <1>1 DEF CalmInv, Turns, Resting
<1>4. ASSUME NEW step \in Steps \ {"unborn"}, pc' = [pc EXCEPT ![p] = step],
             UNCHANGED phase
      PROVE  /\ Started' /\ pc'[p] = step
             /\ \A q \in Reloaders \ {p} : pc'[q] = pc[q]
             /\ Turns' /\ Starting' /\ Stopped'
             /\ \A q \in Reloaders \ {p} : Restarting(q)'
  BY <1>1, <1>4, OnlyOneActs DEF CalmInv, Resting
<1>5. /\ BotInPlace /\ NoLoopSpins
      /\ \A b \in DOMAIN bots : ~Open(b) => bots[b].ctx \in cancelled
  BY <1>3 DEF CalmInv, NoLoopSpins
<1>6. CASE Cancel(p)
  <2>1. /\ pc[p] = "cancel" /\ pc' = [pc EXCEPT ![p] = "shutdown"]
        /\ cancelled' = cancelled \cup {telegramCtx}
        /\ UNCHANGED <<services, telegram, bots, telegramCtx, phase, local,
                       mem, missed>>
    BY <1>6 DEF Cancel, Goto, At
  <2>2. /\ Started' /\ pc'[p] = "shutdown"
        /\ \A q \in Reloaders \ {p} : pc'[q] = pc[q]
        /\ Turns' /\ Starting' /\ Stopped'
        /\ \A q \in Reloaders \ {p} : Restarting(q)'
    BY <1>4, <2>1 DEF Steps
  <2>3. InPlace' = InPlace /\ \A b : Open(b)' <=> Open(b)
    BY <2>1 DEF InPlace, Open
  <2>4. NoLoopSpins'
    BY <1>5, <2>1, <2>3 DEF NoLoopSpins
  <2>5. Nowhere({"replace"}) /\ ~Nowhere({"shutdown", "replace"})'
    BY <1>3, <2>1, <2>2 DEF Nowhere, Resting
  <2>6. BotInPlace'
    BY <1>3, <1>5, <2>1, <2>3, <2>5 DEF BotInPlace
  <2>7. Restarting(p)'
    BY <1>2, <2>1, <2>2, <2>3 DEF Restarting, Suits
  <2>8. Settled'
    BY <2>2 DEF Settled, Resting
  <2>9. QED
    BY <2>2, <2>4, <2>6, <2>7, <2>8, Calm
<1>7. CASE ShutdownBot(p)
  <2> DEFINE b == InPlace.bot
  <2>1. /\ pc[p] = "shutdown"
        /\ Close(b) /\ b \in DOMAIN bots \cup {None}
        /\ UNCHANGED <<services, telegram, telegramCtx, cancelled, phase,
                       mem, missed>>
    BY <1>1, <1>7 DEF ShutdownBot, At, InPlace, TypeOK
  <2>2. /\ DOMAIN bots' = DOMAIN bots /\ InPlace' = InPlace
        /\ \A c \in DOMAIN bots : bots'[c].settings = bots[c].settings
                                  /\ bots'[c].ctx = bots[c].ctx
    BY <2>1, Closes DEF InPlace
  <2>3. NoneOpen'
    <3>1. ASSUME NEW c \in DOMAIN bots PROVE ~Open(c)'
      <4>1. CASE c = b
        BY <2>1, <4>1, Closes DEF Open
      <4>2. CASE c # b
        <5>1. bots'[c] = bots[c]
          BY <2>1, <4>2, Closes
        <5>2. ~Open(c)
          BY <1>5, <4>2 DEF BotInPlace
        <5>3. QED
          BY <5>1, <5>2 DEF Open
      <4>3. QED
        BY <4>1, <4>2
    <3>2. QED
      BY <2>2, <3>1 DEF NoneOpen
  <2>4. NoLoopSpins'
    <3>1. ASSUME NEW c \in DOMAIN bots PROVE bots[c].ctx \in cancelled
      <4>1. CASE c = b
        <5>1. b # None
          BY <4>1, Entries DEF None
        <5>2. QED
          BY <1>2, <1>5, <2>1, <4>1, <5>1 DEF BotInPlace, Restarting
      <4>2. CASE c # b
        BY <1>5, <4>2 DEF BotInPlace
      <4>3. QED
        BY <4>1, <4>2
    <3>2. QED
      BY <2>1, <2>2, <3>1 DEF NoLoopSpins
  <2>5. CASE local[p].form /\ local[p].new.token = Unset
    <3>1. pc' = [pc EXCEPT ![p] = "idle"]
      BY <1>1, <1>7, <2>5 DEF ShutdownBot, AfterShutdown, Finish, Goto
    <3>2. /\ Started' /\ pc'[p] = "idle"
          /\ Turns' /\ Starting' /\ Stopped'
          /\ \A q \in Reloaders \ {p} : Restarting(q)'
      BY <1>4, <2>1, <3>1 DEF Steps
    <3>3. mem.token = Unset /\ InPlace.settings.token = Unset /\ b = None
      BY <1>2, <1>5, <2>1, <2>5 DEF Restarting, BotInPlace
    <3>4. BotInPlace'
      BY <2>2, <2>3, <3>3 DEF BotInPlace, NoneOpen
    <3>5. Restarting(p)' /\ Settled'
      BY <2>1, <2>2, <3>2, <3>3 DEF Restarting, Settled, Suits
    <3>6. QED
      BY <2>4, <3>2, <3>4, <3>5, Calm
  <2>6. CASE ~(local[p].form /\ local[p].new.token = Unset)
    <3>1. pc' = [pc EXCEPT ![p] = "replace"] /\ UNCHANGED local
      BY <1>1, <1>7, <2>6 DEF ShutdownBot, AfterShutdown, Goto
    <3>2. /\ Started' /\ pc'[p] = "replace"
          /\ Turns' /\ Starting' /\ Stopped'
          /\ \A q \in Reloaders \ {p} : Restarting(q)'
      BY <1>4, <2>1, <3>1 DEF Steps
    <3>3. ~Nowhere({"replace"})' /\ ~Nowhere({"shutdown", "replace"})'
      BY <3>2 DEF Nowhere
    <3>4. BotInPlace'
      BY <1>5, <2>1, <2>2, <2>3, <3>3, Entries DEF BotInPlace, NoneOpen, None
    <3>5. Restarting(p)'
      BY <1>2, <2>1, <2>3, <3>1, <3>2 DEF Restarting
    <3>6. Settled'
      BY <3>2 DEF Settled, Resting
    <3>7. QED
      BY <2>4, <3>2, <3>4, <3>5, <3>6, Calm
  <2>7. QED
    BY <2>5, <2>6
<1>8. CASE Panic(p)
  <2>1. /\ pc[p] = "shutdown" /\ InPlace.bot # None /\ ~Open(InPlace.bot)
    BY <1>8 DEF Panic, At, Closed, InPlace, Open
  <2>2. Nowhere({"replace"})
    BY <1>3, <2>1 DEF Nowhere, Resting
  <2>3. QED
    BY <1>3, <1>5, <2>1, <2>2 DEF BotInPlace
<1>9. CASE Replace(p)
  <2>1. /\ pc[p] = "replace" /\ pc' = [pc EXCEPT ![p] = "context"]
        /\ UNCHANGED <<bots, telegramCtx, cancelled, phase, local, mem, missed>>
    BY <1>9 DEF Replace, Goto, At
  <2>2. /\ Started' /\ pc'[p] = "context"
        /\ Turns' /\ Starting' /\ Stopped'
        /\ \A q \in Reloaders \ {p} : Restarting(q)'
    BY <1>4, <2>1 DEF Steps
  <2>3. InPlace'.settings = mem /\ InPlace'.bot = None
    BY <1>1, <1>2, <1>9, <2>1, Replaces DEF InPlace, Restarting
  <2>4. NoneOpen /\ NoneOpen' /\ NoLoopSpins'
    BY <1>2, <1>5, <2>1 DEF Restarting, NoneOpen, Open, NoLoopSpins
  <2>5. BotInPlace'
    BY <2>3, <2>4 DEF BotInPlace, NoneOpen
  <2>6. Restarting(p)'
    BY <2>1, <2>2, <2>3, <2>4 DEF Restarting
  <2>7. Settled'
    BY <2>2 DEF Settled, Resting
  <2>8. QED
    BY <2>2, <2>4, <2>5, <2>6, <2>7, Calm
<1>10. CASE NewContext(p)
  <2>1. /\ pc[p] = "context" /\ pc' = [pc EXCEPT ![p] = "start"]
        /\ telegramCtx' = contexts + 1
        /\ UNCHANGED <<services, telegram, bots, cancelled, phase, local, mem,
                       missed>>
    BY <1>10 DEF NewContext, Goto, At
  <2>2. /\ Started' /\ pc'[p] = "start"
        /\ Turns' /\ Starting' /\ Stopped'
        /\ \A q \in Reloaders \ {p} : Restarting(q)'
    BY <1>4, <2>1 DEF Steps
  <2>3. telegramCtx' \notin cancelled
    BY <2>1 DEF TypeOK
  <2>4. /\ InPlace' = InPlace /\ InPlace.settings = mem /\ InPlace.bot = None
        /\ NoneOpen /\ NoneOpen' /\ NoLoopSpins'
    BY <1>2, <1>5, <2>1 DEF Restarting, InPlace, NoneOpen, Open, NoLoopSpins
  <2>5. BotInPlace'
    BY <2>4 DEF BotInPlace, NoneOpen
  <2>6. Restarting(p)'
    BY <2>1, <2>2, <2>3, <2>4 DEF Restarting
  <2>7. Settled'
    BY <2>2 DEF Settled, Resting
  <2>8. QED
    BY <2>2, <2>4, <2>5, <2>6, <2>7, Calm
<1>11. CASE Start(p) \/ FailConnect(p)
  <2>1. /\ pc[p] \in {"start", "connect"}
        /\ UNCHANGED <<services, telegram, bots, telegramCtx, cancelled, phase,
                       mem>>
    BY <1>11 DEF Start, FailConnect, At
  <2>2. /\ InPlace.settings = mem /\ InPlace.bot = None /\ NoneOpen
        /\ telegramCtx \notin cancelled
        /\ pc[p] = "connect" => mem.token # Unset
    BY <1>2, <2>1 DEF Restarting
  <2>3. PICK step \in {"idle", "connect"} : pc' = [pc EXCEPT ![p] = step]
    BY <1>1, <1>11 DEF Start, FailConnect, Return, Goto
  <2>4. /\ Started' /\ pc'[p] = step
        /\ \A q \in Reloaders \ {p} : pc'[q] = pc[q]
        /\ Turns' /\ Starting' /\ Stopped'
        /\ \A q \in Reloaders \ {p} : Restarting(q)'
    BY <1>4, <2>1, <2>3 DEF Steps
  <2>5. InPlace' = InPlace /\ NoneOpen' /\ BotInPlace' /\ NoLoopSpins'
    BY <1>5, <2>1, <2>2, <2>4, KeepsBots
  <2>6. CASE step = "idle"
    <3>1. \/ mem.token = Unset
          \/ missed' = "connection" /\ mem.token # Unset
      <4>1. CASE Start(p)
        BY <1>1, <2>2, <2>3, <2>6, <4>1 DEF Start, Goto, InPlace, TypeOK
      <4>2. CASE FailConnect(p)
        BY <2>2, <4>2 DEF FailConnect, At
      <4>3. QED
        BY <1>11, <4>1, <4>2
    <3>2. Suits(mem)'
      BY <2>1, <2>2, <2>5, <3>1 DEF Suits
    <3>3. Restarting(p)' /\ Settled'
      BY <2>4, <2>6, <3>2 DEF Restarting, Settled
    <3>4. QED
      BY <2>4, <2>5, <3>3, Calm
  <2>7. CASE step = "connect"
    <3>1. /\ mem.token # Unset
          /\ local' = [local EXCEPT ![p].service = telegram,
                                     ![p].ctx = telegramCtx]
      <4>1. CASE Start(p)
        BY <1>1, <2>2, <2>3, <2>7, <4>1
        DEF Start, Return, Goto, InPlace, TypeOK
      <4>2. CASE FailConnect(p)
        BY <1>1, <2>3, <2>7, <4>2 DEF FailConnect, Return, Goto, TypeOK
      <4>3. QED
        BY <1>11, <4>1, <4>2
    <3>2. local'[p].service = telegram /\ local'[p].ctx = telegramCtx
      BY <1>1, <3>1 DEF TypeOK, Local
    <3>3. Restarting(p)'
      BY <2>1, <2>2, <2>4, <2>5, <2>7, <3>1, <3>2 DEF Restarting
    <3>4. Settled'
      BY <2>4, <2>7 DEF Settled, Resting
    <3>5. QED
      BY <2>4, <2>5, <3>3, <3>4, Calm
  <2>8. QED
    BY <2>6, <2>7
<1>12. CASE Connect(p)
  <2>1. /\ pc[p] = "connect" /\ pc' = [pc EXCEPT ![p] = "idle"]
        /\ missed' = "nothing"
        /\ UNCHANGED <<telegram, telegramCtx, cancelled, phase, mem>>
    BY <1>1, <1>12 DEF Connect, At, Return, Goto
  <2>2. /\ Started' /\ pc'[p] = "idle"
        /\ Turns' /\ Starting' /\ Stopped'
        /\ \A q \in Reloaders \ {p} : Restarting(q)'
    BY <1>4, <2>1 DEF Steps
  <2>3. /\ InPlace.settings = mem /\ NoneOpen /\ mem.token # Unset
        /\ telegramCtx \notin cancelled
        /\ local[p].service = telegram /\ local[p].ctx = telegramCtx
    BY <1>2, <2>1 DEF Restarting
  <2> DEFINE n == Len(bots) + 1
  <2>4. /\ DOMAIN bots' = DOMAIN bots \cup {n}
        /\ \A b \in DOMAIN bots : bots'[b] = bots[b]
        /\ bots'[n].settings = mem /\ bots'[n].ctx = telegramCtx
        /\ ~bots'[n].closed
        /\ InPlace'.settings = mem /\ InPlace'.bot = n
    BY <1>1, <1>12, <2>1, <2>3, Connects DEF InPlace
  <2> HIDE DEF n
  <2>5. \A c \in DOMAIN bots' : Open(c)' <=> c = n
    <3>1. ASSUME NEW c \in DOMAIN bots' PROVE Open(c)' <=> c = n
      <4>1. CASE c = n
        BY <2>4, <4>1 DEF Open
      <4>2. CASE c # n
        BY <2>3, <2>4, <4>2 DEF Open, NoneOpen
      <4>3. QED
        BY <4>1, <4>2
    <3>2. QED
      BY <3>1
  <2>6. NoLoopSpins'
    BY <1>5, <2>1, <2>3, <2>4, <2>5 DEF NoLoopSpins, NoneOpen
  <2>7. BotInPlace'
    BY <2>1, <2>3, <2>4, <2>5 DEF BotInPlace
  <2>8. n # None
    BY Entries DEF None, n
  <2>9. Restarting(p)' /\ Settled'
    BY <2>1, <2>2, <2>3, <2>4, <2>8 DEF Restarting, Settled, Suits
  <2>10. QED
    BY <2>2, <2>6, <2>7, <2>9, Calm
<1>13. QED
  BY <1>6, <1>7, <1>8, <1>9, <1>10, <1>11, <1>12

(* Run's own steps: the first start of the bot, and what comes after it.   *)
LEMMA CalmRun ==
    ASSUME TypeOK, ConnectsKnown, CalmInv, RunStep
    PROVE  CalmInv'
<1> USE Kinds
<1>1. CASE ServeReturns
  <2>1. /\ pc[Runner] = "serving" /\ pc' = [pc EXCEPT ![Runner] = "returned"]
        /\ UNCHANGED <<services, telegram, bots, telegramCtx, cancelled, phase,
                       local, file, mem, missed>>
    BY <1>1 DEF ServeReturns, At, Goto
  <2>2. /\ Started /\ Started'
        /\ \A p \in Procs \ {Runner} : pc'[p] = pc[p]
    BY <2>1 DEF Started, TypeOK
  <2>3. /\ InPlace' = InPlace /\ (NoneOpen' <=> NoneOpen)
        /\ \A b : Open(b)' <=> Open(b)
        /\ \A steps : Nowhere(steps)' <=> Nowhere(steps)
    BY <2>1, <2>2 DEF InPlace, NoneOpen, Open, Nowhere
  <2>4. Turns' /\ Starting' /\ Stopped' /\ NoLoopSpins'
    BY <2>1, <2>2, <2>3
    DEF CalmInv, Turns, Starting, Stopped, NoLoopSpins, Resting
  <2>5. BotInPlace'
    BY <2>1, <2>3 DEF CalmInv, BotInPlace
  <2>6. \A p \in Reloaders : Restarting(p)'
    BY <2>1, <2>2, <2>3 DEF CalmInv, Restarting, Suits
  <2>7. Settled'
    BY <2>1, <2>2, <2>3 DEF CalmInv, Settled, Suits, Resting
  <2>8. QED
    BY <2>4, <2>5, <2>6, <2>7 DEF CalmInv
<1>2. CASE ~ServeReturns
  <2>1. ~Started
    BY <1>2 DEF RunStep, MakeServer, Start, Connect, FailConnect, Listen,
                FailListen, At, Started
  <2>2. /\ \A p \in Reloaders : Resting(p)
        /\ pc[Ticker] = "unborn" /\ pc[OnContext] = "unborn"
    BY <2>1 DEF CalmInv, Turns
  <2>3. /\ telegramCtx = RunContext /\ InPlace.settings = mem
        /\ phase = "running" => telegramCtx \notin cancelled
        /\ pc[Runner] # "listen" => /\ InPlace.bot = None /\ NoneOpen
                                    /\ bots = << >>
        /\ pc[Runner] = "connect" =>
              /\ local[Runner].service = telegram
              /\ local[Runner].ctx = telegramCtx
              /\ mem.token # Unset
        /\ pc[Runner] = "listen" /\ mem.token # Unset => InPlace.bot # None
    BY <2>1 DEF CalmInv, Starting, NoneOpen
  <2>4. CASE MakeServer \/ Start(Runner) \/ FailConnect(Runner)
    <3>1. UNCHANGED <<services, telegram, bots, telegramCtx, cancelled, phase,
                      mem>>
      BY <2>4 DEF MakeServer, Start, FailConnect
    <3>2. PICK step \in {"start", "connect", "listen", "returned"} :
             pc' = [pc EXCEPT ![Runner] = step]
      BY <2>4 DEF MakeServer, Start, FailConnect, Return, Goto
    <3>3. /\ pc'[Runner] = step /\ pc[Runner] # "listen"
          /\ \A p \in Procs \ {Runner} : pc'[p] = pc[p]
      BY <2>4, <3>2 DEF TypeOK, MakeServer, Start, FailConnect, At
    <3>4. /\ InPlace' = InPlace /\ NoneOpen' /\ NoneOpen
          /\ InPlace.bot = None /\ bots = << >>
      BY <2>3, <3>1, <3>3 DEF InPlace, NoneOpen, Open
    <3>5. Turns' /\ BotInPlace' /\ NoLoopSpins' /\ Stopped'
      <4>1. Turns'
        BY <2>2, <3>1, <3>3 DEF CalmInv, Turns, Resting
      <4>2. BotInPlace'
        BY <3>4 DEF BotInPlace, NoneOpen
      <4>3. NoLoopSpins'
        BY <3>1 DEF CalmInv, NoLoopSpins, Open
      <4>4. Stopped'
        BY <3>4 DEF Stopped, NoneOpen
      <4>5. QED
        BY <4>1, <4>2, <4>3, <4>4
    <3>6. \A p \in Reloaders : Restarting(p)'
      BY <2>2, <3>3 DEF Restarting, Resting
    <3>7. Starting'
      <4>1. /\ step = "connect" => mem.token # Unset
                /\ local' = [local EXCEPT ![Runner].service = telegram,
                                          ![Runner].ctx = telegramCtx]
            /\ step = "listen" => mem.token = Unset
        <5>1. CASE MakeServer
          BY <3>2, <3>3, <5>1 DEF MakeServer, Goto, TypeOK
        <5>2. CASE Start(Runner)
          BY <2>3, <3>2, <3>3, <5>2 DEF Start, Return, Goto, InPlace, TypeOK
        <5>3. CASE FailConnect(Runner)
          BY <3>2, <3>3, <5>3 DEF FailConnect, Return, Goto, TypeOK
        <5>4. QED
          BY <2>4, <5>1, <5>2, <5>3
      <4>2. step = "connect" => /\ local'[Runner].service = telegram
                                /\ local'[Runner].ctx = telegramCtx
        BY <4>1 DEF TypeOK, Local
      <4>3. QED
        BY <2>3, <3>1, <3>3, <3>4, <4>1, <4>2 DEF Starting
    <3>8. Settled'
      <4>1. CASE step = "returned"
        <5>1. mem.token # Unset /\ missed' = "connection"
          <6>1. ~MakeServer /\ ~Start(Runner)
            BY <3>3, <4>1 DEF MakeServer, Start, Return, Goto, TypeOK
          <6>2. QED
            BY <2>3, <2>4, <6>1 DEF FailConnect, At
        <5>2. QED
          BY <3>1, <5>1 DEF Settled, Suits
      <4>2. CASE step # "returned"
        BY <3>3, <4>2 DEF Settled, Started
      <4>3. QED
        BY <4>1, <4>2
    <3>9. QED
      BY <3>5, <3>6, <3>7, <3>8 DEF CalmInv
  <2>5. CASE Connect(Runner)
    <3> DEFINE n == Len(bots) + 1
    <3>1. /\ pc[Runner] = "connect" /\ pc' = [pc EXCEPT ![Runner] = "listen"]
          /\ UNCHANGED <<telegram, telegramCtx, cancelled, phase, mem>>
      BY <2>5 DEF Connect, At, Return, Goto
    <3>2. /\ pc'[Runner] = "listen" /\ ~Started'
          /\ \A p \in Procs \ {Runner} : pc'[p] = pc[p]
      BY <3>1 DEF TypeOK, Started
    <3>3. /\ DOMAIN bots' = DOMAIN bots \cup {n} /\ n # None
          /\ \A b \in DOMAIN bots : bots'[b] = bots[b]
          /\ bots'[n].settings = mem /\ bots'[n].ctx = telegramCtx
          /\ ~bots'[n].closed
          /\ phase # "running" => bots'[n].late
          /\ InPlace'.settings = mem /\ InPlace'.bot = n
      <4>1. n # None
        BY Entries DEF None
      <4>2. QED
        BY <2>3, <2>5, <3>1, <4>1, Connects DEF InPlace
    <3> HIDE DEF n
    <3>4. \A c \in DOMAIN bots' : Open(c)' <=> c = n
      <4>1. ASSUME NEW c \in DOMAIN bots' PROVE Open(c)' <=> c = n
        <5>1. CASE c = n
          BY <3>3, <5>1 DEF Open
        <5>2. CASE c # n
          BY <2>3, <3>1, <3>3, <5>2 DEF Open, NoneOpen
        <5>3. QED
          BY <5>1, <5>2
      <4>2. QED
        BY <4>1
    <3>5. Turns'
      BY <2>2, <3>1, <3>2 DEF CalmInv, Turns, Resting
    <3>6. Starting'
      BY <2>3, <3>1, <3>2, <3>3 DEF Starting
    <3>7. BotInPlace'
      BY <2>3, <3>1, <3>3, <3>4 DEF BotInPlace
    <3>8. NoLoopSpins'
      BY <2>3, <3>1, <3>3, <3>4 DEF CalmInv, NoLoopSpins, NoneOpen
    <3>9. Stopped'
      <4>1. pc'[OnContext] = "unborn" /\ (phase = "running" <=> Resting(Stopper)')
        BY <2>2, <3>2 DEF CalmInv, Turns, Resting
      <4>2. QED
        BY <3>3, <3>4, <4>1 DEF Stopped, Resting
    <3>10. \A p \in Reloaders : Restarting(p)'
      BY <2>2, <3>2 DEF Restarting, Resting
    <3>11. QED
      BY <3>2, <3>5, <3>6, <3>7, <3>8, <3>9, <3>10 DEF CalmInv, Settled
  <2>6. CASE Listen \/ FailListen
    <3>1. /\ pc[Runner] = "listen"
          /\ UNCHANGED <<services, telegram, bots, telegramCtx, cancelled, phase,
                         file, mem, missed>>
      BY <2>6 DEF Listen, FailListen, At
    <3>2. PICK step \in {"returned", "serving"} : Launch(step)
      BY <2>6 DEF Listen, FailListen
    <3>3. /\ pc'[Runner] = step /\ pc'[Ticker] = "idle"
          /\ pc'[OnContext] = IF phase = "running" THEN "idle" ELSE "shutdown"
          /\ \A p \in Procs \ {Runner, Ticker, OnContext} : pc'[p] = pc[p]
      BY <3>2 DEF Launch, TypeOK
    <3>4. Started' /\ \A p \in Reloaders : Resting(p)'
      BY <2>2, <3>3 DEF Started, Resting
    <3>5. InPlace' = InPlace /\ \A b : Open(b)' <=> Open(b)
      BY <3>1 DEF InPlace, Open
    <3>6. Turns' /\ Starting'
      BY <3>1, <3>3, <3>4 DEF CalmInv, Turns, Starting, Resting
    <3>7. BotInPlace'
      <4>1. Nowhere({"replace"}) /\ Nowhere({"shutdown", "replace"})
        BY <2>2 DEF Nowhere, Resting
      <4>2. QED
        BY <3>1, <3>5, <4>1 DEF CalmInv, BotInPlace
    <3>8. NoLoopSpins' /\ Stopped'
      BY <3>1, <3>3, <3>5 DEF CalmInv, NoLoopSpins, Stopped
    <3>9. \A p \in Reloaders : Restarting(p)'
      BY <3>4 DEF Restarting, Resting
    <3>10. Settled'
      <4>1. Suits(mem)'
        BY <2>3, <3>1, <3>5 DEF CalmInv, BotInPlace, Suits
      <4>2. QED
        BY <4>1 DEF Settled
    <3>11. QED
      BY <3>6, <3>7, <3>8, <3>9, <3>10 DEF CalmInv
  <2>7. QED
    BY <1>2, <2>4, <2>5, <2>6 DEF RunStep
<1>3. QED
  BY <1>1, <1>2

(* The stop, asked for at any moment between two restarts, and the calls   *)
(* of App.Shutdown that follow it.                                         *)
LEMMA CalmStop ==
    ASSUME TypeOK, CalmInv, ~MayOverlap, Stop \/ StopStep
    PROVE  CalmInv'
<1> USE Kinds
<1>1. CASE Stop
  <2>1. /\ phase = "running" /\ phase' = "stopping"
        /\ \A p \in Reloaders : Resting(p)
        /\ cancelled' = cancelled \cup {RunContext}
        /\ UNCHANGED <<services, telegram, bots, telegramCtx, local, file, mem,
                       missed>>
    BY <1>1 DEF Stop
  <2>2. /\ pc'[Stopper] = "shutdown"
        /\ pc'[OnContext] = IF pc[OnContext] = "idle" THEN "shutdown"
                            ELSE pc[OnContext]
        /\ \A p \in Procs \ Stoppers : pc'[p] = pc[p]
    BY <1>1 DEF Stop, TypeOK
  <2>3. pc[OnContext] \in {"unborn", "idle"}
    BY <2>1 DEF CalmInv, Turns, Resting
  <2>4. /\ InPlace' = InPlace /\ (NoneOpen' <=> NoneOpen)
        /\ \A b : Open(b)' <=> Open(b)
        /\ Started' <=> Started
        /\ \A p \in Reloaders : Resting(p)'
    BY <2>1, <2>2 DEF InPlace, NoneOpen, Open, Started, Resting
  <2>5. Turns'
    BY <2>1, <2>2, <2>3, <2>4 DEF CalmInv, Turns, Resting
  <2>6. Starting'
    BY <2>1, <2>2, <2>4 DEF CalmInv, Starting
  <2>7. BotInPlace' /\ NoLoopSpins' /\ Stopped'
    BY <2>1, <2>2, <2>3, <2>4 DEF CalmInv, BotInPlace, NoLoopSpins, Stopped
  <2>8. (\A p \in Reloaders : Restarting(p)') /\ Settled'
    BY <2>1, <2>4 DEF CalmInv, Restarting, Resting, Settled, Suits
  <2>9. QED
    BY <2>5, <2>6, <2>7, <2>8 DEF CalmInv
<1>2. CASE StopStep
  <2>1. /\ phase # "running" /\ phase # "crashed"
        /\ \A p \in Reloaders : Resting(p)
    <3>1. ~Resting(Stopper) \/ ~Resting(OnContext) \/ phase = "stopping"
      BY <1>2 DEF StopStep, ShutdownBot, Panic, CloseServer, AwaitRun,
                  StopTimesOut, End, At, Resting
    <3>2. QED
      BY <3>1 DEF CalmInv, Turns
  <2>2. /\ UNCHANGED <<services, telegram, telegramCtx, cancelled, local, file,
                       mem, missed>>
        /\ phase' # "running" /\ phase' # "crashed"
    <3>1. ASSUME NEW p \in Stoppers, Panic(p)
          PROVE  UNCHANGED local /\ phase' = "aborted"
      BY <2>1, <3>1 DEF Panic, Procs, Reloaders, Stoppers
    <3>2. ASSUME NEW p \in Stoppers, ShutdownBot(p)
          PROVE  UNCHANGED local
      BY <3>2 DEF ShutdownBot, AfterShutdown
    <3>3. QED
      BY <1>2, <2>1, <3>1, <3>2 DEF StopStep, ShutdownBot, Panic, CloseServer,
            AwaitRun, StopTimesOut, End
  <2>3. \/ UNCHANGED pc
        \/ \E p \in Stoppers, step \in {"http", "wait", "done"} :
              pc' = [pc EXCEPT ![p] = step] /\ pc[p] # "unborn"
    <3>1. ASSUME NEW p \in Stoppers, ShutdownBot(p) \/ Panic(p) \/ CloseServer(p)
          PROVE  \/ UNCHANGED pc
                 \/ \E step \in {"http", "wait", "done"} :
                       pc' = [pc EXCEPT ![p] = step] /\ pc[p] # "unborn"
      BY <3>1 DEF ShutdownBot, AfterShutdown, Panic, CloseServer, Goto, Procs,
                  Reloaders, Stoppers, At
    <3>2. CASE AwaitRun \/ StopTimesOut
      BY <3>2 DEF AwaitRun, StopTimesOut, Goto, At
    <3>3. QED
      BY <1>2, <3>1, <3>2 DEF StopStep, End
  <2>4. /\ \A p \in Procs \ Stoppers : pc'[p] = pc[p]
        /\ Started' <=> Started
        /\ \A p \in Reloaders : Resting(p)'
        /\ ~Resting(Stopper) /\ ~Resting(Stopper)'
        /\ pc'[OnContext] = "unborn" <=> pc[OnContext] = "unborn"
    <3>1. ~Resting(Stopper)
      BY <2>1 DEF CalmInv, Turns
    <3>2. CASE UNCHANGED pc
      BY <2>1, <3>1, <3>2 DEF Started, Resting
    <3>3. CASE ~UNCHANGED pc
      <4>1. PICK p \in Stoppers, step \in {"http", "wait", "done"} :
              pc' = [pc EXCEPT ![p] = step] /\ pc[p] # "unborn"
        BY <2>3, <3>3
      <4>2. pc'[p] = step /\ \A q \in Procs \ {p} : pc'[q] = pc[q]
        BY <4>1 DEF TypeOK
      <4>3. QED
        BY <2>1, <3>1, <4>1, <4>2 DEF Started, Resting
    <3>4. QED
      BY <3>2, <3>3
  <2>5. Turns'
    BY <2>2, <2>4 DEF CalmInv, Turns, Resting
  <2>6. NoLoopSpins' /\ \A p \in Reloaders : Restarting(p)'
    BY <2>2, <2>4 DEF NoLoopSpins, Restarting, Resting
  <2>7. InPlace' = InPlace
    BY <2>2 DEF InPlace
  <2>8. Settled'
    BY <2>1, <2>2, <2>4, <2>7 DEF CalmInv, Settled, Suits, Resting
  <2>9. Starting' /\ BotInPlace' /\ Stopped'
    <3>1. CASE \A p \in Stoppers : ~ShutdownBot(p)
      <4>1. UNCHANGED bots
        BY <1>2, <3>1 DEF StopStep, Panic, CloseServer, AwaitRun, StopTimesOut,
                          End
      <4>2. (NoneOpen' <=> NoneOpen) /\ \A b : Open(b)' <=> Open(b)
        BY <4>1 DEF NoneOpen, Open
      <4>3. Starting' /\ BotInPlace'
        BY <2>2, <2>4, <2>7, <4>1, <4>2, Zenon
        DEF CalmInv, Starting, BotInPlace, Started
      <4>4. /\ pc'[Stopper] \in {"http", "wait", "done"}
                  => pc[Stopper] \in {"http", "wait", "done"}
            /\ pc'[OnContext] \in {"http", "done"}
                  => pc[OnContext] \in {"http", "done"}
        <5>1. ASSUME NEW p \in Stoppers, Panic(p)
              PROVE  UNCHANGED pc
          BY <5>1 DEF Panic, Procs, Reloaders, Stoppers
        <5>2. ASSUME NEW p \in Stoppers, CloseServer(p)
              PROVE  /\ pc[p] = "http"
                     /\ \A q \in Procs \ {p} : pc'[q] = pc[q]
          BY <5>2 DEF CloseServer, Goto, At, TypeOK
        <5>3. ASSUME AwaitRun \/ StopTimesOut
              PROVE  /\ pc[Stopper] = "wait"
                     /\ \A q \in Procs \ {Stopper} : pc'[q] = pc[q]
          BY <5>3 DEF AwaitRun, StopTimesOut, Goto, At, TypeOK
        <5>4. QED
          BY <1>2, <3>1, <5>1, <5>2, <5>3 DEF StopStep, End
      <4>5. Stopped'
        BY <4>1, <4>2, <4>4 DEF CalmInv, Stopped
      <4>6. QED
        BY <4>3, <4>5
    <3>2. CASE \E p \in Stoppers : ShutdownBot(p)
      <4> DEFINE b == InPlace.bot
      <4>1. Close(b) /\ b \in DOMAIN bots \cup {None}
        BY <3>2 DEF ShutdownBot, InPlace, TypeOK
      <4>2. /\ DOMAIN bots' = DOMAIN bots
            /\ \A c \in DOMAIN bots : bots'[c].settings = bots[c].settings
                                      /\ bots'[c].ctx = bots[c].ctx
        BY <4>1, Closes
      <4>3. NoneOpen'
        <5>1. ASSUME NEW c \in DOMAIN bots PROVE ~Open(c)'
          <6>1. CASE c = b
            BY <4>1, <6>1, Closes DEF Open
          <6>2. CASE c # b
            <7>1. bots'[c] = bots[c]
              BY <4>1, <6>2, Closes
            <7>2. ~Open(c)
              BY <6>2 DEF CalmInv, BotInPlace
            <7>3. QED
              BY <7>1, <7>2 DEF Open
          <6>3. QED
            BY <6>1, <6>2
        <5>2. QED
          BY <4>2, <5>1 DEF NoneOpen
      <4>4. Stopped'
        BY <4>3 DEF Stopped, NoneOpen
      <4>5. b = None => bots' = bots
        BY <4>1 DEF Close
      <4>6. Starting'
        BY <2>2, <2>4, <2>7, <4>5 DEF CalmInv, Starting
      <4>7. BotInPlace'
        BY <2>2, <2>7, <4>1, <4>2, <4>3, Entries
        DEF CalmInv, BotInPlace, NoneOpen, None
      <4>8. QED
        BY <4>4, <4>6, <4>7
    <3>3. QED
      BY <3>1, <3>2
  <2>10. QED
    BY <2>5, <2>6, <2>8, <2>9 DEF CalmInv
<1>3. QED
  BY <1>1, <1>2

(* At the start there is one service, not started, and no bot. *)
LEMMA CalmInit == Init => CalmInv
<1> SUFFICES ASSUME Init PROVE CalmInv
  OBVIOUS
<1> USE Kinds
<1>1. /\ pc \in [Procs -> {"unborn", "idle"}]
      /\ pc[Runner] = "idle" /\ pc[Ticker] = "unborn" /\ pc[OnContext] = "unborn"
      /\ pc[Stopper] = "idle"
      /\ telegramCtx = RunContext /\ cancelled = {} /\ phase = "running"
  BY DEF Init
<1>2. ~Started /\ \A p \in Procs : Resting(p)
  BY <1>1 DEF Started, Resting
<1>3. InPlace.settings = mem /\ InPlace.bot = None /\ DOMAIN bots = {}
  BY DEF Init, InPlace
<1>4. Turns
  BY <1>1, <1>2 DEF Turns
<1>5. Starting
  BY <1>1, <1>3 DEF Starting, NoneOpen
<1>6. BotInPlace /\ NoLoopSpins /\ Stopped
  BY <1>3 DEF BotInPlace, NoLoopSpins, Stopped, NoneOpen
<1>7. (\A p \in Reloaders : Restarting(p)) /\ Settled
  BY <1>2 DEF Restarting, Resting, Settled
<1>8. QED
  BY <1>4, <1>5, <1>6, <1>7 DEF CalmInv

(* Without overlap every step preserves the invariant. *)
LEMMA CalmStep ==
    ASSUME TypeOK, ConnectsKnown, CalmInv, ~MayOverlap, [Next]_vars
    PROVE  CalmInv'
<1>1. CASE EditFile
  <2>1. /\ \A p \in Reloaders : Resting(p)
        /\ UNCHANGED <<services, telegram, bots, telegramCtx, cancelled, pc,
                       local, phase, mem, missed>>
    BY <1>1, Kinds DEF EditFile, Quiet
  <2>2. (\A p \in Reloaders : Restarting(p)') /\ Settled'
    BY <2>1 DEF CalmInv, Restarting, Resting, Settled, Suits, Started, InPlace
  <2>3. Turns' /\ Starting' /\ Stopped'
    BY <2>1 DEF CalmInv, Turns, Starting, Stopped, Resting, Started, InPlace,
                NoneOpen, Open
  <2>4. BotInPlace' /\ NoLoopSpins'
    BY <2>1 DEF CalmInv, BotInPlace, NoLoopSpins, InPlace, Nowhere, Open
  <2>5. QED
    BY <2>2, <2>3, <2>4 DEF CalmInv
<1>2. CASE UNCHANGED vars
  <2>1. (\A p \in Reloaders : Restarting(p)') /\ Settled'
    BY <1>2 DEF vars, CalmInv, Restarting, Resting, Settled, Suits, Started,
                InPlace, NoneOpen, Open
  <2>2. Turns' /\ Starting' /\ Stopped'
    BY <1>2 DEF vars, CalmInv, Turns, Starting, Stopped, Resting, Started,
                InPlace, NoneOpen, Open
  <2>3. BotInPlace' /\ NoLoopSpins'
    BY <1>2 DEF vars, CalmInv, BotInPlace, NoLoopSpins, InPlace, Nowhere, Open
  <2>4. QED
    BY <2>1, <2>2, <2>3 DEF CalmInv
<1>3. ASSUME NEW p \in Reloaders, BeginReload(p) \/ Restart(p)
      PROVE  CalmInv'
  BY <1>3, BeginStep, ConfigStep, RestartStep DEF Restart
<1>4. ASSUME NEW p \in Requests,
             BeginUpdateSettings(p) \/ SaveSettings(p) \/ FailSaveSettings(p)
      PROVE  CalmInv'
  <2>1. p \in Reloaders
    BY DEF Reloaders
  <2>2. QED
    BY <1>4, <2>1, BeginStep, ConfigStep
<1>5. CASE RunStep
  BY <1>5, CalmRun
<1>6. CASE Stop \/ StopStep
  BY <1>6, CalmStop
<1>7. QED
  BY <1>1, <1>2, <1>3, <1>4, <1>5, <1>6 DEF Next

(* The inductive invariant holds in every reachable state. *)
THEOREM Invariance == Spec => []IInv
<1>1. Init => ServerEnds
  BY Kinds DEF Init, ServerEnds, Started
<1>2. Init => IInv
  BY <1>1, TypeInit, CalmInit DEF IInv
<1>3. IInv /\ [Next]_vars => IInv'
  BY TypeStep, ServerStep, CalmStep DEF IInv
<1>4. QED
  BY <1>2, <1>3, PTL DEF Spec

-----------------------------------------------------------------------------
(* While restarts take turns at most one bot polls telegram for the server *)
(* at any moment, whatever fails and whenever the stop is asked for        *)
(* (server.go:192-205, handlers.go:686-696).                               *)
THEOREM OneBotAtATime ==
    ASSUME ~MayOverlap
    PROVE  Spec => []OneBot
<1>1. IInv => OneBot
  BY DEF IInv, CalmInv, BotInPlace, OneBot
<1>2. QED
  BY <1>1, Invariance, PTL

(* While restarts take turns none of them closes a closed bot: no panic    *)
(* ends a server that has not been asked to stop.                          *)
THEOREM Survival ==
    ASSUME ~MayOverlap
    PROVE  Spec => []ServerSurvives
<1>1. IInv => ServerSurvives
  BY DEF IInv, CalmInv, Turns, ServerSurvives
<1>2. QED
  BY <1>1, Invariance, PTL

(* While restarts take turns no receiving loop finds its channel closed    *)
(* before its context is cancelled (service.go:53-65).                     *)
THEOREM LoopsEnd ==
    ASSUME ~MayOverlap
    PROVE  Spec => []NoLoopSpins
<1>1. IInv => NoLoopSpins
  BY DEF IInv, CalmInv
<1>2. QED
  BY <1>1, Invariance, PTL

(* Between restarts the bot serves with exactly the settings in memory, or *)
(* is off, unless the last restart missed.                                 *)
THEOREM Following ==
    ASSUME ~MayOverlap
    PROVE  Spec => []FollowsWhenQuiet
<1>1. ASSUME IInv, phase = "running", Quiet, missed = "nothing"
      PROVE  Follows(mem)
  <2>1. /\ \A p \in Reloaders : Resting(p)
        /\ Started
    BY <1>1, Kinds DEF Quiet
  <2>2. /\ Suits(mem) /\ BotInPlace
        /\ Nowhere({"replace"}) /\ Nowhere({"shutdown", "replace"})
    BY <1>1, <2>1 DEF IInv, CalmInv, Settled, Nowhere, Resting
  <2>3. CASE mem.token = Unset
    <3>1. \A b \in DOMAIN bots : b # None
      BY <1>1, Entries DEF IInv, None
    <3>2. QED
      BY <2>2, <2>3, <3>1 DEF Suits, BotInPlace, Follows
  <2>4. CASE mem.token # Unset
    BY <1>1, <2>2, <2>4 DEF Suits, BotInPlace, Follows, Answers, InPlace
  <2>5. QED
    BY <2>3, <2>4
<1>2. IInv => FollowsWhenQuiet
  BY <1>1 DEF FollowsWhenQuiet
<1>3. QED
  BY <1>2, Invariance, PTL

(* After the stop no bot polls but one that Run connected after it, and    *)
(* none once shutdownOnContext is through.                                 *)
THEOREM NothingLeft ==
    ASSUME ~MayOverlap
    PROVE  Spec => []NothingLeftPolling
<1>1. IInv => NothingLeftPolling
  BY DEF IInv, CalmInv, Stopped, NoneOpen, NothingLeftPolling
<1>2. QED
  BY <1>1, Invariance, PTL

(* Whatever overlaps, a stop never leaves Run serving with nobody to end   *)
(* it (server.go:115-139, 227-248).                                        *)
THEOREM StopReaches == Spec => []StopReachesRun
<1>1. IInv => StopReachesRun
  BY DEF IInv, ServerEnds, StopReachesRun
<1>2. QED
  BY <1>1, Invariance, PTL

-----------------------------------------------------------------------------
(* What of the state the abstract slot has. *)
LEMMA PollingNone == Polling = {} <=> NoneOpen
BY DEF Polling, NoneOpen

(* A step that leaves the bots, and what else the slot has, alone is a     *)
(* stutter of the slot.                                                    *)
LEMMA SlotStutters ==
    ASSUME UNCHANGED <<bots, mem, missed>>,
           phase' # "running" <=> phase # "running"
    PROVE  UNCHANGED Slot!slotVars
<1>1. Polling' = Polling
  BY DEF Polling, Open
<1>2. QED
  BY <1>1 DEF Slot!slotVars

(* The steps that neither touch a bot nor change or miss settings. *)
LEMMA SlotIdle ==
    ASSUME IInv, IInv', ~MayOverlap,
           \/ EditFile \/ UNCHANGED vars
           \/ MakeServer \/ Listen \/ FailListen \/ ServeReturns
           \/ AwaitRun \/ StopTimesOut \/ End
           \/ \E p \in Stoppers : CloseServer(p) \/ Panic(p)
           \/ \E p \in Reloaders :
                 \/ BeginReload(p) \/ BeginUpdateSettings(p)
                 \/ FailSaveSettings(p) \/ Compare(p) \/ Cancel(p)
                 \/ Panic(p) \/ Replace(p) \/ NewContext(p)
    PROVE  UNCHANGED Slot!slotVars
<1>1. UNCHANGED <<bots, mem, missed>>
  BY DEF EditFile, vars, MakeServer, Listen, FailListen, ServeReturns,
     AwaitRun, StopTimesOut, End, CloseServer, Panic, BeginReload,
     BeginUpdateSettings, FailSaveSettings, Compare, Cancel, Replace,
     NewContext
<1>2. phase' # "running" <=> phase # "running"
  <2>1. CASE \E p \in Stoppers \cup Reloaders : Panic(p)
    <3>1. phase' \in {phase, "crashed", "aborted"}
          /\ (phase = "running" => phase' \in {"running", "crashed"})
      BY <2>1 DEF Panic
    <3>2. phase' # "crashed"
      BY DEF IInv, CalmInv, Turns
    <3>3. phase = "running" => phase' = "running"
      BY <3>1, <3>2
    <3>4. phase' = "running" => phase = "running"
      BY <3>1
    <3>5. QED
      BY <3>3, <3>4
  <2>2. CASE ~ \E p \in Stoppers \cup Reloaders : Panic(p)
    BY <2>2 DEF EditFile, vars, MakeServer, Listen, FailListen, ServeReturns,
       AwaitRun, StopTimesOut, End, CloseServer, BeginReload,
       BeginUpdateSettings, FailSaveSettings, Compare, Cancel, Replace,
       NewContext
  <2>3. QED
    BY <2>1, <2>2
<1>3. QED
  BY <1>1, <1>2, SlotStutters

(* Whoever is starting a service has what the slot needs to be turned on:  *)
(* no bot polls, and the service is the one that is wanted.                *)
LEMMA StartsEmpty ==
    ASSUME IInv, ~MayOverlap, NEW p \in Reloaders \cup {Runner},
           pc[p] \in {"start", "connect"}
    PROVE  /\ NoneOpen /\ InPlace.settings = mem
           /\ pc[p] = "connect" => /\ local[p].service = telegram
                                   /\ mem.token # Unset
           /\ phase # "running" => bots = << >>
<1>1. CASE p \in Reloaders
  <2>1. Restarting(p) /\ phase = "running"
    BY <1>1 DEF IInv, CalmInv, Turns, Resting
  <2>2. QED
    BY <2>1 DEF Restarting
<1>2. CASE p = Runner
  <2>1. ~Started
    BY <1>2 DEF Started
  <2>2. /\ bots = << >> /\ InPlace.settings = mem
        /\ pc[p] = "connect" => /\ local[p].service = telegram
                                /\ mem.token # Unset
    BY <1>2, <2>1 DEF IInv, CalmInv, Starting
  <2>3. NoneOpen
    BY <2>2 DEF NoneOpen
  <2>4. QED
    BY <1>2, <2>2, <2>3
<1>3. QED
  BY <1>1, <1>2

(* A verification that fails, and a connection that does, are missed when  *)
(* the bot is not what is wanted.                                          *)
LEMMA SlotMisses ==
    ASSUME IInv, ~MayOverlap,
           \/ \E p \in Reloaders : FailLoad(p)
           \/ \E p \in Reloaders \cup {Runner} : FailConnect(p)
    PROVE  Slot!Miss \/ UNCHANGED Slot!slotVars
<1>1. UNCHANGED <<bots, mem, phase>> /\ Polling' = Polling
  BY DEF FailLoad, FailConnect, Polling, Open
<1>2. CASE \E p \in Reloaders : FailLoad(p) /\ missed = "nothing" /\ missed' # missed
  <2>1. PICK p \in Reloaders : FailLoad(p) /\ missed = "nothing" /\ missed' # missed
    BY <1>2
  <2>2. /\ pc[p] = "load" /\ local[p].form /\ local[p].new # local[p].old
        /\ missed' = "verification"
    BY <2>1 DEF FailLoad, At
  <2>3. /\ mem = local[p].new /\ Suits(local[p].old) /\ BotInPlace
    BY <2>2 DEF IInv, CalmInv, Restarting
  <2>4. ASSUME NEW b \in DOMAIN bots, Open(b)
        PROVE  bots[b].settings # mem
    <3>1. b = InPlace.bot /\ b # None
      BY <2>3, <2>4, Entries DEF IInv, BotInPlace, None
    <3>2. bots[b].settings = InPlace.settings /\ InPlace.settings.token # Unset
      BY <2>3, <3>1 DEF BotInPlace
    <3>3. QED
      BY <2>1, <2>2, <2>3, <3>2 DEF Suits
  <2>5. Slot!NotAsWanted
    BY <2>4 DEF Slot!NotAsWanted, Polling
  <2>6. QED
    BY <1>1, <2>2, <2>5 DEF Slot!Miss
<1>3. CASE \E p \in Reloaders \cup {Runner} : FailConnect(p)
  <2>1. NoneOpen /\ missed' = "connection"
    BY <1>3, StartsEmpty DEF FailConnect, At
  <2>2. Slot!NotAsWanted
    BY <2>1, PollingNone DEF Slot!NotAsWanted
  <2>3. QED
    BY <1>1, <2>1, <2>2 DEF Slot!Miss
<1>4. CASE \E p \in Reloaders : FailLoad(p) /\ ~(missed = "nothing" /\ missed' # missed)
  <2>1. missed' = missed \/ (missed # "nothing" /\ missed' # "nothing")
    BY <1>4 DEF FailLoad
  <2>2. QED
    BY <1>1, <2>1 DEF Slot!slotVars
<1>5. QED
  BY <1>2, <1>3, <1>4

(* Starting a service without a token leaves the slot off. *)
LEMMA SlotStarts ==
    ASSUME IInv, ~MayOverlap, NEW p \in Reloaders \cup {Runner}, Start(p)
    PROVE  Slot!LeaveOff \/ UNCHANGED Slot!slotVars
<1>1. UNCHANGED <<bots, mem, phase>> /\ Polling' = Polling
  BY DEF Start, Polling, Open
<1>2. NoneOpen /\ InPlace.settings = mem
  BY StartsEmpty DEF Start, At
<1>3. CASE InPlace.settings.token = Unset
  <2>1. missed' = "nothing"
    BY <1>3 DEF Start, InPlace
  <2>2. Polling = {} /\ mem \in NoToken
    BY <1>2, <1>3, PollingNone DEF NoToken, IInv, TypeOK
  <2>3. QED
    BY <1>1, <2>1, <2>2 DEF Slot!LeaveOff
<1>4. CASE InPlace.settings.token # Unset
  <2>1. missed' = missed
    BY <1>4 DEF Start, InPlace
  <2>2. QED
    BY <1>1, <2>1 DEF Slot!slotVars
<1>5. QED
  BY <1>3, <1>4

(* A connection turns the slot on, with the settings in memory. *)
LEMMA SlotConnects ==
    ASSUME IInv, ~MayOverlap, NEW p \in Reloaders \cup {Runner}, Connect(p)
    PROVE  Slot!TurnOn
<1> DEFINE n == Len(bots) + 1
<1>1. p \in Procs /\ TypeOK /\ ConnectsKnown
  BY Kinds DEF IInv
<1>2. /\ NoneOpen /\ InPlace.settings = mem /\ local[p].service = telegram
      /\ mem.token # Unset /\ (phase # "running" => bots = << >>)
  BY StartsEmpty DEF Connect, At
<1>3. /\ DOMAIN bots' = DOMAIN bots \cup {n} /\ n \notin DOMAIN bots
      /\ \A b \in DOMAIN bots : bots'[b] = bots[b]
      /\ bots'[n].settings = mem
      /\ ~bots'[n].closed
  BY <1>1, <1>2, Connects DEF InPlace
<1>4. Len(bots') = n
  <2>1. bots' \in Seq(Bot) /\ Len(bots) \in Nat /\ DOMAIN bots = 1 .. Len(bots)
    BY <1>1, Connects, Entries
  <2>2. DOMAIN bots' = 1 .. n
    BY <1>3, <2>1
  <2>3. QED
    BY <2>1, <2>2, LenProperties
<1> HIDE DEF n
<1>5. \A c \in DOMAIN bots' : Open(c)' <=> c = n
  <2>1. ASSUME NEW c \in DOMAIN bots' PROVE Open(c)' <=> c = n
    <3>1. CASE c = n
      BY <1>3, <3>1 DEF Open
    <3>2. CASE c # n
      BY <1>2, <1>3, <3>2 DEF Open, NoneOpen
    <3>3. QED
      BY <3>1, <3>2
  <2>2. QED
    BY <2>1
<1>6. Polling' = {[bot |-> n, settings |-> mem]}
  <2>1. {c \in DOMAIN bots' : Open(c)'} = {n}
    BY <1>3, <1>5
  <2>2. QED
    BY <1>3, <2>1 DEF Polling
<1>7. Polling = {} /\ mem \notin NoToken
  BY <1>2, PollingNone DEF NoToken
<1>8. /\ missed' = "nothing" /\ UNCHANGED <<mem, phase>>
  BY DEF Connect
<1>9. phase # "running" => Len(bots) = 0
  BY <1>2
<1>10. QED
  BY <1>4, <1>6, <1>7, <1>8, <1>9 DEF Slot!TurnOn, n

(* Shutting the service in place down turns the slot off, if it is on: in  *)
(* a restart only because something else is wanted.                        *)
LEMMA SlotCloses ==
    ASSUME IInv, ~MayOverlap, NEW p \in Reloaders \cup Stoppers, ShutdownBot(p)
    PROVE  Slot!TurnOff \/ UNCHANGED Slot!slotVars
<1> DEFINE b == InPlace.bot
<1>1. /\ Close(b) /\ b \in DOMAIN bots \cup {None} /\ pc[p] = "shutdown"
      /\ UNCHANGED <<mem, missed, phase>> /\ TypeOK /\ BotInPlace
  BY DEF ShutdownBot, At, InPlace, IInv, TypeOK, CalmInv
<1>2. DOMAIN bots' = DOMAIN bots /\ Len(bots') = Len(bots)
  <2>1. bots' \in Seq(Bot) /\ DOMAIN bots' = DOMAIN bots
    BY <1>1, Closes
  <2>2. QED
    BY <1>1, <2>1, LenProperties DEF TypeOK
<1>3. NoneOpen'
  <2>1. ASSUME NEW c \in DOMAIN bots PROVE ~Open(c)'
    <3>1. CASE c = b
      BY <1>1, <3>1, Closes DEF Open
    <3>2. CASE c # b
      <4>1. bots'[c] = bots[c] /\ ~Open(c)
        BY <1>1, <3>2, Closes DEF BotInPlace
      <4>2. QED
        BY <4>1 DEF Open
    <3>3. QED
      BY <3>1, <3>2
  <2>2. QED
    BY <1>2, <2>1 DEF NoneOpen
<1>4. Polling' = {}
  BY <1>3 DEF Polling, NoneOpen
<1>5. CASE Polling = {}
  BY <1>1, <1>2, <1>4, <1>5 DEF Slot!slotVars
<1>6. CASE Polling # {}
  <2>1. phase # "running" \/ missed # "nothing" \/ Slot!NotAsWanted
    <3>1. ASSUME p \in Reloaders, missed = "nothing",
                 NEW c \in DOMAIN bots, Open(c)
          PROVE  bots[c].settings # mem
      <4>1. Suits(local[p].old) /\ local[p].old # mem
        BY <1>1, <3>1 DEF IInv, CalmInv, Restarting
      <4>2. c = b /\ c # None
        BY <1>1, <3>1, Entries DEF BotInPlace, None
      <4>3. bots[c].settings = InPlace.settings
            /\ InPlace.settings.token # Unset
        BY <1>1, <4>2 DEF BotInPlace
      <4>4. QED
        BY <3>1, <4>1, <4>3 DEF Suits
    <3>2. CASE p \in Reloaders
      BY <3>1, <3>2 DEF Slot!NotAsWanted, Polling
    <3>3. CASE p \in Stoppers
      <4>1. phase # "running"
        BY <1>1, <3>3, Kinds DEF IInv, CalmInv, Turns, Resting
      <4>2. QED
        BY <4>1
    <3>4. QED
      BY <3>2, <3>3
  <2>2. QED
    BY <1>1, <1>2, <1>4, <1>6, <2>1 DEF Slot!TurnOff
<1>7. QED
  BY <1>5, <1>6

(* While restarts take turns the server implements the slot for one bot    *)
(* (server.go:173-206, handlers.go:673-698).                               *)
THEOREM LifecycleImplementsSlot ==
    ASSUME ~MayOverlap
    PROVE  Spec => ImplementsSlot
<1>1. Init => Slot!Init
  <2> SUFFICES ASSUME Init PROVE Slot!Init
    OBVIOUS
  <2>1. Len(bots) = 0 /\ Polling = {}
    BY DEF Init, Polling
  <2>2. mem \in Settings /\ missed = "nothing" /\ phase = "running"
    BY DEF Init
  <2>3. QED
    BY <2>1, <2>2 DEF Slot!Init
<1>2. IInv /\ IInv' /\ [Next]_vars => [Slot!Next]_(Slot!slotVars)
  <2> SUFFICES ASSUME IInv, IInv', [Next]_vars
               PROVE  Slot!Next \/ UNCHANGED Slot!slotVars
    OBVIOUS
  <2>1. ASSUME NEW p \in Reloaders, SaveSettings(p) \/ Load(p)
        PROVE  Slot!Want
    <3>1. UNCHANGED <<bots, missed, phase>> /\ mem' \in Settings
      BY <2>1 DEF SaveSettings, Load, IInv, TypeOK
    <3>2. Polling' = Polling
      BY <3>1 DEF Polling, Open
    <3>3. QED
      BY <3>1, <3>2 DEF Slot!Want
  <2>2. ASSUME NEW p \in Reloaders, Restart(p)
        PROVE  Slot!Next \/ UNCHANGED Slot!slotVars
    BY <2>1, <2>2, SlotIdle, SlotMisses, SlotStarts, SlotConnects, SlotCloses
    DEF Restart, Slot!Next
  <2>3. ASSUME NEW p \in Requests,
               BeginUpdateSettings(p) \/ SaveSettings(p) \/ FailSaveSettings(p)
        PROVE  Slot!Next \/ UNCHANGED Slot!slotVars
    <3>1. p \in Reloaders
      BY DEF Reloaders
    <3>2. QED
      BY <2>1, <2>3, <3>1, SlotIdle DEF Slot!Next
  <2>4. CASE RunStep
    BY <2>4, SlotIdle, SlotMisses, SlotStarts, SlotConnects
    DEF RunStep, Slot!Next
  <2>5. CASE Stop
    <3>1. UNCHANGED <<bots, mem, missed>> /\ phase' # "running"
      BY <2>5 DEF Stop
    <3>2. Polling' = Polling
      BY <3>1 DEF Polling, Open
    <3>3. QED
      BY <3>1, <3>2 DEF Slot!Next, Slot!Stop
  <2>6. CASE StopStep
    BY <2>6, SlotIdle, SlotCloses DEF StopStep, Slot!Next
  <2>7. CASE EditFile \/ UNCHANGED vars \/ \E p \in Reloaders : BeginReload(p)
    BY <2>7, SlotIdle
  <2>8. QED
    BY <2>2, <2>3, <2>4, <2>5, <2>6, <2>7 DEF Next
<1>3. QED
  BY <1>1, <1>2, Invariance, PTL DEF Spec, ImplementsSlot, Slot!Spec

-----------------------------------------------------------------------------
(* What the steps count for. *)
LEMMA Counts ==
    /\ RunLeft("idle") = 5 /\ RunLeft("start") = 4 /\ RunLeft("connect") = 3
    /\ RunLeft("listen") = 2 /\ RunLeft("serving") = 1
    /\ RunLeft("returned") = 0
    /\ StopLeft("unborn") = 4 /\ StopLeft("idle") = 4
    /\ StopLeft("shutdown") = 3 /\ StopLeft("http") = 2
    /\ StopLeft("wait") = 1 /\ StopLeft("done") = 0
    /\ CallLeft("unborn") = 0 /\ CallLeft("idle") = 0
    /\ CallLeft("connect") = 1 /\ CallLeft("start") = 2
    /\ CallLeft("context") = 3 /\ CallLeft("replace") = 4
    /\ CallLeft("shutdown") = 5 /\ CallLeft("cancel") = 6
    /\ CallLeft("compare") = 7 /\ CallLeft("load") = 8
    /\ CallLeft("save") = 9
BY DEF RunLeft, StopLeft, CallLeft

(* Run's steps count down, and leave the stop where it is, but that they   *)
(* may launch shutdownOnContext.                                           *)
LEMMA RunCounts ==
    ASSUME TypeOK, ServerEnds, phase = "stopping", RunStep
    PROVE  StopStepsLeft' < StopStepsLeft
<1> USE Kinds, Counts
<1>1. phase' = phase /\ pc'[Stopper] = pc[Stopper]
  BY DEF RunStep, MakeServer, Start, Connect, FailConnect, Listen, FailListen,
     ServeReturns, Return, Goto, Launch, TypeOK
<1>2. CASE Listen \/ FailListen
  <2>1. /\ pc[Runner] = "listen" /\ pc'[Runner] \in {"serving", "returned"}
        /\ pc'[OnContext] = "shutdown"
    BY <1>2 DEF Listen, FailListen, At, Launch, TypeOK
  <2>2. QED
    BY <1>1, <2>1 DEF StopStepsLeft, ServerEnds, Started
<1>3. CASE ~(Listen \/ FailListen)
  <2>1. /\ pc'[OnContext] = pc[OnContext]
        /\ \/ pc[Runner] = "idle" /\ pc'[Runner] = "start"
           \/ pc[Runner] = "start" /\ pc'[Runner] \in {"connect", "listen"}
           \/ pc[Runner] = "connect" /\ pc'[Runner] \in {"listen", "returned"}
           \/ pc[Runner] = "serving" /\ pc'[Runner] = "returned"
    BY <1>3 DEF RunStep, MakeServer, Start, Connect, FailConnect, ServeReturns,
       Return, Goto, At, TypeOK
  <2>2. QED
    BY <1>1, <2>1 DEF StopStepsLeft, ServerEnds
<1>4. QED
  BY <1>2, <1>3

(* The stop's own steps count down, and leave Run where it is. *)
LEMMA StopCounts ==
    ASSUME TypeOK, ServerEnds, phase = "stopping", StopStep
    PROVE  StopStepsLeft' < StopStepsLeft
<1> USE Kinds, Counts
<1>1. ASSUME NEW p \in Stoppers, ShutdownBot(p) \/ CloseServer(p)
      PROVE  /\ phase' = phase
             /\ \A q \in Procs \ {p} : pc'[q] = pc[q]
             /\ \/ pc[p] = "shutdown" /\ pc'[p] = "http"
                \/ pc[p] = "http" /\ pc'[p] \in {"wait", "done"}
  BY <1>1 DEF ShutdownBot, AfterShutdown, CloseServer, Goto, At, TypeOK
<1>2. ASSUME NEW p \in Stoppers, Panic(p)
      PROVE  phase' = "aborted" /\ UNCHANGED pc
  BY <1>2 DEF Panic, Reloaders
<1>3. CASE AwaitRun \/ StopTimesOut
  <2>1. /\ phase' = phase /\ pc[Stopper] = "wait" /\ pc'[Stopper] = "done"
        /\ pc'[Runner] = pc[Runner] /\ pc'[OnContext] = pc[OnContext]
    BY <1>3 DEF AwaitRun, StopTimesOut, Goto, At, TypeOK
  <2>2. QED
    BY <2>1 DEF StopStepsLeft, ServerEnds
<1>4. CASE End
  BY <1>4 DEF End, StopStepsLeft, ServerEnds
<1>5. CASE \E p \in Stoppers : Panic(p)
  BY <1>2, <1>5 DEF StopStepsLeft, ServerEnds
<1>6. CASE \E p \in Stoppers : ShutdownBot(p) \/ CloseServer(p)
  <2>1. PICK p \in Stoppers : ShutdownBot(p) \/ CloseServer(p)
    BY <1>6
  <2>2. CASE p = Stopper
    <3>1. /\ phase' = phase
          /\ pc'[Runner] = pc[Runner] /\ pc'[OnContext] = pc[OnContext]
          /\ \/ pc[Stopper] = "shutdown" /\ pc'[Stopper] = "http"
             \/ pc[Stopper] = "http" /\ pc'[Stopper] \in {"wait", "done"}
      BY <1>1, <2>1, <2>2
    <3>2. QED
      BY <3>1 DEF StopStepsLeft, ServerEnds
  <2>3. CASE p = OnContext
    <3>1. /\ phase' = phase
          /\ pc'[Runner] = pc[Runner] /\ pc'[Stopper] = pc[Stopper]
          /\ \/ pc[OnContext] = "shutdown" /\ pc'[OnContext] = "http"
             \/ pc[OnContext] = "http" /\ pc'[OnContext] \in {"wait", "done"}
      BY <1>1, <2>1, <2>3
    <3>2. QED
      BY <3>1 DEF StopStepsLeft, ServerEnds
  <2>4. QED
    BY <2>2, <2>3
<1>7. QED
  BY <1>3, <1>4, <1>5, <1>6 DEF StopStep

(* Once the server is shut a request only goes on with what it does.       *)
LEMMA CallCounts ==
    ASSUME TypeOK, phase = "stopping", http = "shut", [Next]_vars,
           NEW p \in Requests, pc'[p] # pc[p]
    PROVE  CallLeft(pc'[p]) < CallLeft(pc[p])
<1> USE Kinds, Counts
<1>1. p \in Reloaders /\ p # Ticker /\ p \in Procs /\ p \notin Stoppers
  BY DEF Reloaders, Procs
<1>2. ~BeginReload(p) /\ ~BeginUpdateSettings(p)
  BY <1>1 DEF BeginReload, BeginUpdateSettings, Admitted, Serving
<1>3. Restart(p) \/ SaveSettings(p) \/ FailSaveSettings(p)
  <2>1. ASSUME NEW q \in Reloaders \ {p},
               \/ BeginReload(q) \/ Restart(q)
               \/ BeginUpdateSettings(q) \/ SaveSettings(q) \/ FailSaveSettings(q)
        PROVE  FALSE
    BY <1>1, <2>1, OthersAct
  <2>2. ~RunStep
    BY <1>1 DEF RunStep, MakeServer, Start, Connect, FailConnect, Listen,
       FailListen, ServeReturns, Return, Goto, Launch, TypeOK
  <2>3. ~StopStep
    BY <1>1 DEF StopStep, ShutdownBot, Panic, CloseServer, AwaitRun,
       StopTimesOut, End, AfterShutdown, Goto, TypeOK, Reloaders
  <2>4. ~Stop /\ ~EditFile /\ ~UNCHANGED vars
    BY DEF Stop, EditFile, vars
  <2>5. QED
    BY <1>1, <1>2, <2>1, <2>2, <2>3, <2>4 DEF Next, Reloaders
<1>4. \/ pc[p] = "save" /\ pc'[p] \in {"load", "idle"}
      \/ pc[p] = "load" /\ pc'[p] \in {"compare", "idle"}
      \/ pc[p] = "compare" /\ pc'[p] \in {"cancel", "idle"}
      \/ pc[p] = "cancel" /\ pc'[p] = "shutdown"
      \/ pc[p] = "shutdown" /\ pc'[p] \in {"replace", "idle"}
      \/ pc[p] = "replace" /\ pc'[p] = "context"
      \/ pc[p] = "context" /\ pc'[p] = "start"
      \/ pc[p] = "start" /\ pc'[p] \in {"connect", "idle"}
      \/ pc[p] = "connect" /\ pc'[p] = "idle"
  BY <1>1, <1>3 DEF Restart, SaveSettings, FailSaveSettings, Load, FailLoad,
     Compare, Cancel, ShutdownBot, Panic, Replace, NewContext, Start, Connect,
     FailConnect, AfterShutdown, Finish, Return, Goto, At, TypeOK
<1>5. QED
  BY <1>4

(* Whatever overlaps, somebody a stop waits for has a step to take: Run is *)
(* never waited for while nobody is left to shut the HTTP server           *)
(* (program.go:66-84).                                                     *)
THEOREM StopNotStuck == Spec => []StopNeverStuck
<1>1. IInv => StopNeverStuck
  BY Kinds DEF IInv, ServerEnds, StopNeverStuck
<1>2. QED
  BY <1>1, Invariance, PTL

(* Whatever overlaps, every step of Run and of the stop brings the end of  *)
(* the stop nearer, nobody else puts it off, and once the HTTP server is   *)
(* shut no request begins or goes on for ever.                             *)
THEOREM StopEnds == Spec => StopWindsDown
<1>1. ASSUME IInv, [Next]_vars, phase = "stopping"
      PROVE  /\ StopStepsLeft' <= StopStepsLeft
             /\ RunStep \/ StopStep => StopStepsLeft' < StopStepsLeft
             /\ http = "shut" => \A p \in Requests :
                   pc'[p] # pc[p] => CallLeft(pc'[p]) < CallLeft(pc[p])
  <2>0. TypeOK /\ ServerEnds
    BY <1>1 DEF IInv
  <2>1. RunStep \/ StopStep => StopStepsLeft' < StopStepsLeft
    BY <1>1, <2>0, RunCounts, StopCounts
  <2>2. StopStepsLeft' \in Nat /\ StopStepsLeft \in Nat
    <3>1. ServerEnds'
      BY <1>1, <2>0, ServerStep
    <3>2. QED
      BY <2>0, <3>1, Counts DEF ServerEnds, StopStepsLeft
  <2>3. ~(RunStep \/ StopStep) => StopStepsLeft' <= StopStepsLeft
    <3>1. ASSUME NEW p \in Reloaders,
                 \/ BeginReload(p) \/ Restart(p)
                 \/ BeginUpdateSettings(p) \/ SaveSettings(p)
                 \/ FailSaveSettings(p)
          PROVE  StopStepsLeft' <= StopStepsLeft
      <4>1. /\ pc'[Runner] = pc[Runner] /\ pc'[Stopper] = pc[Stopper]
            /\ pc'[OnContext] = pc[OnContext]
        BY <2>0, <3>1, OthersAct, Kinds
      <4>2. QED
        BY <1>1, <2>2, <4>1, <2>0, Counts DEF ServerEnds, StopStepsLeft
    <3>2. ASSUME EditFile \/ UNCHANGED vars
          PROVE  StopStepsLeft' <= StopStepsLeft
      <4>1. UNCHANGED <<pc, phase>>
        BY <3>2 DEF EditFile, vars
      <4>2. QED
        BY <2>2, <4>1 DEF StopStepsLeft
    <3>3. ~Stop
      BY <1>1 DEF Stop
    <3>4. QED
      BY <1>1, <3>1, <3>2, <3>3 DEF Next, Reloaders
  <2>4. http = "shut" => \A p \in Requests :
           pc'[p] # pc[p] => CallLeft(pc'[p]) < CallLeft(pc[p])
    BY <1>1, <2>0, CallCounts
  <2>5. StopStepsLeft' <= StopStepsLeft
    BY <2>1, <2>2, <2>3
  <2>6. QED
    BY <2>1, <2>4, <2>5
<1>2. IInv /\ [Next]_vars =>
         (phase = "stopping" =>
             /\ StopStepsLeft' <= StopStepsLeft
             /\ RunStep \/ StopStep => StopStepsLeft' < StopStepsLeft
             /\ http = "shut" => \A p \in Requests :
                   pc'[p] # pc[p] => CallLeft(pc'[p]) < CallLeft(pc[p]))
  BY <1>1
<1>3. QED
  BY <1>2, Invariance, PTL DEF Spec, StopWindsDown
=============================================================================
