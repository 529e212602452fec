---------------------------- MODULE BotLifecycle ----------------------------
(***************************************************************************)
(* The life of the server process and of the telegram bot inside it:       *)
(* Program.Start and Stop (internal/service/program.go), App.Run, Shutdown *)
(* and shutdownOnContext, reloadConfig, which the ticker's goroutine and   *)
(* the handler of /config/reload run (internal/server/server.go), the      *)
(* settings form (handlers.go), and the bot (internal/telegram/service.go).*)
(*                                                                         *)
(* Run makes the HTTP server, starts the bot, launches two goroutines and  *)
(* listens.  Stop may come before, between or after these: it cancels the  *)
(* context and shuts down what it finds, and Run's goroutine does so again *)
(* once launched.                                                          *)
(*                                                                         *)
(* A restart cancels App.telegramCtx, shuts App.telegram down, puts a new  *)
(* service and then a new context in their place, and starts what it finds *)
(* there.  No lock guards these fields, so each of these is a step.  A bot *)
(* polls until its update channel is closed, which may happen only once:   *)
(* closing it again is a panic, which net/http recovers in a handler and   *)
(* which ends the process anywhere else.                                   *)
(***************************************************************************)
EXTENDS Naturals, Sequences

CONSTANTS
    Tokens,
    Unset,       \* the empty token
    Accesses,    \* values of users and whoami, who may use the bot
    Requests,    \* handlers of /config/reload and of the settings form
    Ticker,      \* the goroutine of reloadConfigPeriodically
    Runner,      \* the goroutine of Program.Start, which runs App.Run
    Stopper,     \* Program.Stop
    OnContext,   \* the goroutine of shutdownOnContext
    MaxChanges,  \* bound on the edits of the file and uses of the form
    MayOverlap   \* TRUE: anything may run at the same time.
                 \* FALSE: edits, reloads, forms and the stop take turns,
                 \* but the stop may come while Run is still starting.

Reloaders == Requests \cup {Ticker}
Stoppers  == {Stopper, OnContext}
Procs     == Reloaders \cup Stoppers \cup {Runner}

Settings == [token : Tokens \cup {Unset}, access : Accesses]

ASSUME UnsetIsNoToken == Unset \notin Tokens
ASSUME FourKinds ==
    /\ Ticker \notin Requests /\ Stoppers \cap Reloaders = {}
    /\ Stopper # OnContext /\ Runner \notin Reloaders \cup Stoppers
ASSUME BoundIsNatural == MaxChanges \in Nat
ASSUME SomeAccess == Accesses # {}

None == 0        \* s.bot of a service that has not been started
RunContext == 1  \* the context Run derives from the program's own

VARIABLES
    http,        \* App.httpSrv: none yet, made, listening or shut down
    file,        \* the telegram settings in config.yaml
    mem,         \* those in Manager.config
    services,    \* every telegram.Service made so far: settings and bot
    telegram,    \* App.telegram, an index of services
    contexts,    \* how many contexts have been made
    telegramCtx, \* App.telegramCtx and App.telegramCancel
    cancelled,   \* the contexts that have been cancelled
    bots,        \* every bot connected so far: the settings it serves with,
                 \* the context of its receiving loop, its channel closed,
                 \* connected after the stop
    pc,          \* what each process does next
    local,       \* the variables of its call
    phase,       \* of the server process
    missed,      \* why the bot may lag behind mem, if it may
    changes      \* counts up to MaxChanges

vars == <<http, file, mem, services, telegram, contexts, telegramCtx, cancelled,
          bots, pc, local, phase, missed, changes>>

Service == [settings : Settings, bot : Nat]
Bot == [settings : Settings, ctx : Nat, closed : BOOLEAN, late : BOOLEAN]
Local == [form : BOOLEAN, old : Settings, new : Settings,
          service : Nat, ctx : Nat]

Steps == {"unborn", "idle", "save", "load", "compare", "cancel", "shutdown",
          "replace", "context", "start", "connect", "listen", "serving",
          "returned", "http", "wait", "done"}

TypeOK ==
    /\ http \in {"none", "made", "open", "shut"}
    /\ file \in Settings
    /\ mem \in Settings
    /\ services \in Seq(Service)
    /\ telegram \in DOMAIN services
    /\ contexts \in Nat
    /\ telegramCtx \in 1 .. contexts
    /\ cancelled \in SUBSET (1 .. contexts)
    /\ bots \in Seq(Bot)
    /\ \A i \in DOMAIN services : services[i].bot \in DOMAIN bots \cup {None}
    /\ pc \in [Procs -> Steps]
    /\ local \in [Procs -> Local]
    /\ phase \in {"running", "stopping", "ended", "crashed", "aborted"}
    /\ missed \in {"nothing", "verification", "connection"}
    /\ changes \in 0 .. MaxChanges

NoLocal(s) == [form |-> FALSE, old |-> s, new |-> s,
               service |-> None, ctx |-> None]

(* What a call works with before it has read anything. *)
Blank == NoLocal([token |-> Unset, access |-> CHOOSE a \in Accesses : TRUE])

(* Program.Start has launched Run.  Run derives telegramCtx before anyone  *)
(* else could look at it.                                                  *)
Init ==
    /\ http = "none"
    /\ file \in Settings
    /\ mem = file
    /\ telegram = 1
    /\ contexts = RunContext
    /\ telegramCtx = RunContext
    /\ cancelled = {}
    /\ bots = << >>
    /\ services = <<[settings |-> mem, bot |-> None]>>
    /\ pc = [p \in Procs |-> IF p \in {Ticker, OnContext} THEN "unborn"
                             ELSE "idle"]
    /\ local = [p \in Procs |-> Blank]
    /\ phase = "running"
    /\ missed = "nothing"
    /\ changes = 0

-----------------------------------------------------------------------------
Alive == phase \in {"running", "stopping"}

At(p, step) == Alive /\ pc[p] = step

Goto(p, step) == pc' = [pc EXCEPT ![p] = step]

Finish(p) ==
    /\ Goto(p, "idle")
    /\ local' = [local EXCEPT ![p] = Blank]

Resting(p) == pc[p] \in {"unborn", "idle"}

Started == pc[Runner] \in {"serving", "returned"}

Quiet == Started /\ \A p \in Procs \ {Runner} : Resting(p)

(* Shutdown stops the ticker before the bot and the listener after it. *)
Serving(p) ==
    IF p = Ticker THEN pc[Stopper] \in {"idle", "shutdown"}
    ELSE http = "open"

(* The workload; see MayOverlap. *)
Admitted(p) ==
    /\ At(p, "idle")
    /\ Serving(p)
    /\ MayOverlap \/ Quiet

(* Someone edits the telegram settings in config.yaml. *)
EditFile ==
    /\ Alive
    /\ MayOverlap \/ Quiet
    /\ changes < MaxChanges
    /\ changes' = changes + 1
    /\ \E s \in Settings \ {file} : file' = s
    /\ UNCHANGED <<http, mem, services, telegram, contexts, telegramCtx,
                   cancelled, bots, pc, local, phase, missed>>

(* A tick or a request to /config/reload. *)
BeginReload(p) ==
    /\ Admitted(p)
    /\ local' = [local EXCEPT ![p] = NoLocal(mem)]
    /\ Goto(p, "load")
    /\ UNCHANGED <<http, file, mem, services, telegram, contexts,
                   telegramCtx, cancelled, bots, phase, missed, changes>>

(* The form may change whoami, and set the token where there is none. *)
BeginUpdateSettings(p) ==
    /\ Admitted(p)
    /\ changes < MaxChanges
    /\ changes' = changes + 1
    /\ \E a \in Accesses, t \in Tokens \cup {mem.token} :
          /\ mem.token # Unset => t = mem.token
          /\ local' = [local EXCEPT ![p] =
                [NoLocal(mem) EXCEPT !.form = TRUE,
                                     !.new = [token |-> t, access |-> a]]]
    /\ Goto(p, "save")
    /\ UNCHANGED <<http, file, mem, services, telegram, contexts,
                   telegramCtx, cancelled, bots, phase, missed>>

(* Manager.Update, whose own steps are those of ConfigStore. *)
SaveSettings(p) ==
    /\ At(p, "save")
    /\ file' = local[p].new
    /\ mem' = local[p].new
    /\ Goto(p, "load")
    /\ UNCHANGED <<http, services, telegram, contexts, telegramCtx,
                   cancelled, bots, local, phase, missed, changes>>

FailSaveSettings(p) ==
    /\ At(p, "save")
    /\ Finish(p)
    /\ UNCHANGED <<http, file, mem, services, telegram, contexts,
                   telegramCtx, cancelled, bots, phase, missed, changes>>

(* Manager.Reload; see ConfigStore. *)
Load(p) ==
    /\ At(p, "load")
    /\ mem' = file
    /\ Goto(p, "compare")
    /\ UNCHANGED <<http, file, services, telegram, contexts, telegramCtx,
                   cancelled, bots, local, phase, missed, changes>>

(* The form's settings are in use by now, though it answers with an error. *)
FailLoad(p) ==
    /\ At(p, "load")
    /\ missed' = IF local[p].form /\ local[p].new # local[p].old
                 THEN "verification" ELSE missed
    /\ Finish(p)
    /\ UNCHANGED <<http, file, mem, services, telegram, contexts,
                   telegramCtx, cancelled, bots, phase, changes>>

(* Mutant: a change of users or whoami goes unnoticed. *)
TokenDiffers(old, new) == old.token # new.token

(* Mutant: every reload restarts the bot. *)
AlwaysDiffers(old, new) == {old, new} # {}

(* Users and whoami are compared along with the token. *)
Differs(old, new) == old # new

Compare(p) ==
    /\ At(p, "compare")
    /\ IF Differs(local[p].old, mem)
       THEN /\ local' = [local EXCEPT ![p].new = mem]
            /\ Goto(p, "cancel")
       ELSE Finish(p)
    /\ UNCHANGED <<http, file, mem, services, telegram, contexts,
                   telegramCtx, cancelled, bots, phase, missed, changes>>

(* Mutant: the function of Run's own context is called again. *)
CancelRun(p) ==
    /\ At(p, "cancel")
    /\ cancelled' = cancelled \cup {RunContext}
    /\ Goto(p, "shutdown")
    /\ UNCHANGED <<http, file, mem, services, telegram, contexts,
                   telegramCtx, bots, local, phase, missed, changes>>

(* telegramCancel *)
Cancel(p) ==
    /\ At(p, "cancel")
    /\ cancelled' = cancelled \cup {telegramCtx}
    /\ Goto(p, "shutdown")
    /\ UNCHANGED <<http, file, mem, services, telegram, contexts,
                   telegramCtx, bots, local, phase, missed, changes>>

-----------------------------------------------------------------------------
(* Service.Shutdown of the service now in place. *)
Close(b) ==
    bots' = IF b = None THEN bots ELSE [bots EXCEPT ![b].closed = TRUE]

Closed(b) == b # None /\ bots[b].closed

(* Mutant: a reload, too, replaces nothing when it finds no token. *)
StopWithoutToken(p) ==
    IF p \in Stoppers THEN "http"
    ELSE IF local[p].new.token = Unset THEN "idle" ELSE "replace"

(* The form stops the bot, and replaces nothing, when it finds no token. *)
AfterShutdown(p) ==
    IF p \in Stoppers THEN "http"
    ELSE IF local[p].form /\ local[p].new.token = Unset THEN "idle"
    ELSE "replace"

ShutdownBot(p) ==
    LET b == services[telegram].bot IN
    /\ At(p, "shutdown")
    /\ ~Closed(b)
    /\ Close(b)
    /\ IF AfterShutdown(p) = "idle" THEN Finish(p)
       ELSE Goto(p, AfterShutdown(p)) /\ UNCHANGED local
    /\ UNCHANGED <<http, file, mem, services, telegram, contexts,
                   telegramCtx, cancelled, phase, missed, changes>>

(* close of a closed channel *)
Panic(p) ==
    /\ At(p, "shutdown")
    /\ Closed(services[telegram].bot)
    /\ IF p \in Requests
       THEN Finish(p) /\ UNCHANGED phase
       ELSE /\ phase' = IF phase = "running" THEN "crashed" ELSE "aborted"
            /\ UNCHANGED <<pc, local>>
    /\ UNCHANGED <<http, file, mem, services, telegram, contexts,
                   telegramCtx, cancelled, bots, missed, changes>>

(* telegram.New *)
Replace(p) ==
    /\ At(p, "replace")
    /\ services' = Append(services, [settings |-> local[p].new, bot |-> None])
    /\ telegram' = Len(services) + 1
    /\ Goto(p, "context")
    /\ UNCHANGED <<http, file, mem, contexts, telegramCtx, cancelled, bots,
                   local, phase, missed, changes>>

(* Mutant: the new bot is started with the context of the old one. *)
KeepContext(p) ==
    /\ At(p, "context")
    /\ Goto(p, "start")
    /\ UNCHANGED <<http, file, mem, services, telegram, contexts,
                   telegramCtx, cancelled, bots, local, phase, missed,
                   changes>>

(* A child of the background, no longer of the program's context. *)
NewContext(p) ==
    /\ At(p, "context")
    /\ contexts' = contexts + 1
    /\ telegramCtx' = contexts + 1
    /\ Goto(p, "start")
    /\ UNCHANGED <<http, file, mem, services, telegram, cancelled, bots,
                   local, phase, missed, changes>>

(* Service.Start returns: to Run, which goes on with the step given, or to *)
(* a restart, which is over.                                               *)
Return(p, step) ==
    /\ Goto(p, IF p = Runner THEN step ELSE "idle")
    /\ local' = [local EXCEPT ![p] = Blank]

(* Service.Start of what is in place now, which need not be what p put     *)
(* there.                                                                  *)
Start(p) ==
    /\ At(p, "start")
    /\ IF services[telegram].settings.token = Unset
       THEN Return(p, "listen") /\ missed' = "nothing"
       ELSE /\ local' = [local EXCEPT ![p].service = telegram,
                                      ![p].ctx = telegramCtx]
            /\ Goto(p, "connect")
            /\ UNCHANGED missed
    /\ UNCHANGED <<http, file, mem, services, telegram, contexts,
                   telegramCtx, cancelled, bots, phase, changes>>

(* Mutant: the service does not keep the bot it has connected. *)
ConnectAndForget(p) ==
    /\ At(p, "connect")
    /\ bots' = Append(bots, [settings |-> services[local[p].service].settings,
                             ctx |-> local[p].ctx, closed |-> FALSE,
                             late |-> phase # "running"])
    /\ missed' = "nothing"
    /\ Return(p, "listen")
    /\ UNCHANGED <<http, file, mem, services, telegram, contexts,
                   telegramCtx, cancelled, phase, changes>>

(* NewBotAPI has reached telegram; polling begins. *)
Connect(p) ==
    LET s == local[p].service IN
    /\ At(p, "connect")
    /\ bots' = Append(bots, [settings |-> services[s].settings,
                             ctx |-> local[p].ctx, closed |-> FALSE,
                             late |-> phase # "running"])
    /\ services' = [services EXCEPT ![s].bot = Len(bots) + 1]
    /\ missed' = "nothing"
    /\ Return(p, "listen")
    /\ UNCHANGED <<http, file, mem, telegram, contexts, telegramCtx,
                   cancelled, phase, changes>>

(* Mutant: the service keeps a bot that has not connected. *)
KeepUnconnected(p) ==
    /\ At(p, "connect")
    /\ services' = [services EXCEPT ![local[p].service].bot = Len(bots) + 1]
    /\ missed' = "connection"
    /\ Return(p, "returned")
    /\ UNCHANGED <<http, file, mem, telegram, contexts, telegramCtx,
                   cancelled, bots, phase, changes>>

(* It has not; the error is logged or answered, nobody tries again, and a  *)
(* Run that was starting returns: the process stays, serving nothing.      *)
FailConnect(p) ==
    /\ At(p, "connect")
    /\ missed' = "connection"
    /\ Return(p, "returned")
    /\ UNCHANGED <<http, file, mem, services, telegram, contexts,
                   telegramCtx, cancelled, bots, phase, changes>>

-----------------------------------------------------------------------------
(* Run makes the HTTP server before it starts the bot. *)
MakeServer ==
    /\ At(Runner, "idle")
    /\ http' = IF http = "none" THEN "made" ELSE http
    /\ Goto(Runner, "start")
    /\ UNCHANGED <<file, mem, services, telegram, contexts, telegramCtx,
                   cancelled, bots, local, phase, missed, changes>>

(* Mutant: nothing waits for the end of the context. *)
LaunchTicker(step) ==
    pc' = [pc EXCEPT ![Runner] = step, ![Ticker] = "idle"]

(* Run launches the ticker's goroutine and that of shutdownOnContext, whose *)
(* context may have ended already, and goes on to the step given.          *)
Launch(step) ==
    pc' = [pc EXCEPT ![Runner] = step, ![Ticker] = "idle",
                     ![OnContext] = IF phase = "running" THEN "idle"
                                    ELSE "shutdown"]

(* ListenAndServe, which returns at once when the server is shut down. *)
Listen ==
    /\ At(Runner, "listen")
    /\ Launch(IF http = "shut" THEN "returned" ELSE "serving")
    /\ http' = IF http = "shut" THEN "shut" ELSE "open"
    /\ UNCHANGED <<file, mem, services, telegram, contexts, telegramCtx,
                   cancelled, bots, local, phase, missed, changes>>

(* The port is taken: Run returns, and what it launched goes on. *)
FailListen ==
    /\ At(Runner, "listen")
    /\ http # "shut"
    /\ Launch("returned")
    /\ UNCHANGED <<http, file, mem, services, telegram, contexts,
                   telegramCtx, cancelled, bots, local, phase, missed,
                   changes>>

(* ErrServerClosed *)
ServeReturns ==
    /\ At(Runner, "serving")
    /\ http = "shut"
    /\ Goto(Runner, "returned")
    /\ UNCHANGED <<http, file, mem, services, telegram, contexts,
                   telegramCtx, cancelled, bots, local, phase, missed,
                   changes>>

(* Program.Stop cancels the program's context, which wakes OnContext, and  *)
(* both call App.Shutdown.                                                 *)
Stop ==
    /\ phase = "running"
    /\ MayOverlap \/ \A p \in Reloaders : Resting(p)
    /\ phase' = "stopping"
    /\ cancelled' = cancelled \cup {RunContext}
    /\ pc' = [pc EXCEPT ![Stopper] = "shutdown",
                        ![OnContext] = IF @ = "idle" THEN "shutdown" ELSE @]
    /\ UNCHANGED <<http, file, mem, services, telegram, contexts,
                   telegramCtx, bots, local, missed, changes>>

(* App.Shutdown, the HTTP server: there may be none yet.  Here the Stopper *)
(* waits for Run and the requests in a step of its own, and OnContext does *)
(* not wait, so that requests may end after it as well as before.          *)
CloseServer(p) ==
    /\ At(p, "http")
    /\ http' = IF http = "none" THEN "none" ELSE "shut"
    /\ Goto(p, IF p = Stopper THEN "wait" ELSE "done")
    /\ UNCHANGED <<file, mem, services, telegram, contexts, telegramCtx,
                   cancelled, bots, local, phase, missed, changes>>

(* The requests are answered and Run has returned. *)
AwaitRun ==
    /\ At(Stopper, "wait")
    /\ pc[Runner] = "returned"
    /\ \A p \in Requests : Resting(p)
    /\ Goto(Stopper, "done")
    /\ UNCHANGED <<http, file, mem, services, telegram, contexts,
                   telegramCtx, cancelled, bots, local, phase, missed,
                   changes>>

(* Or 10 s have passed, which only calls to telegram's servers take. *)
StopTimesOut ==
    /\ At(Stopper, "wait")
    /\ \E p \in Requests \cup {Runner} : pc[p] = "connect"
    /\ Goto(Stopper, "done")
    /\ UNCHANGED <<http, file, mem, services, telegram, contexts,
                   telegramCtx, cancelled, bots, local, phase, missed,
                   changes>>

(* Stop returns, and whatever still runs is cut off. *)
End ==
    /\ phase = "stopping"
    /\ pc[Stopper] = "done"
    /\ phase' = "ended"
    /\ UNCHANGED <<http, file, mem, services, telegram, contexts,
                   telegramCtx, cancelled, bots, pc, local, missed, changes>>

Restart(p) ==
    \/ Load(p) \/ FailLoad(p) \/ Compare(p) \/ Cancel(p)
    \/ ShutdownBot(p) \/ Panic(p)
    \/ Replace(p) \/ NewContext(p) \/ Start(p) \/ Connect(p) \/ FailConnect(p)

RunStep ==
    \/ MakeServer \/ Start(Runner) \/ Connect(Runner) \/ FailConnect(Runner)
    \/ Listen \/ FailListen \/ ServeReturns

StopStep ==
    \/ \E p \in Stoppers : ShutdownBot(p) \/ Panic(p) \/ CloseServer(p)
    \/ AwaitRun \/ StopTimesOut \/ End

Next ==
    \/ EditFile
    \/ RunStep
    \/ \E p \in Reloaders : BeginReload(p) \/ Restart(p)
    \/ \E p \in Requests :
          BeginUpdateSettings(p) \/ SaveSettings(p) \/ FailSaveSettings(p)
    \/ Stop
    \/ StopStep

Spec == Init /\ [][Next]_vars

(* A call goes on once begun, Run and the stop's own calls included, and   *)
(* telegram's servers answer it one way or the other.  The ticker, once    *)
(* launched, keeps ticking, and now and then the file can be read:         *)
(* config.yaml is a local file that only edits and saves touch.  Nothing   *)
(* is assumed of what telegram's servers answer, of new requests, or of    *)
(* the stop being asked for.                                               *)
Fairness ==
    /\ \A p \in Reloaders :
          WF_vars(Restart(p)) /\ WF_vars(SaveSettings(p) \/ FailSaveSettings(p))
    /\ SF_vars(BeginReload(Ticker))
    /\ SF_vars(Load(Ticker))
    /\ WF_vars(RunStep)
    /\ \A p \in Stoppers :
          WF_vars(ShutdownBot(p) \/ Panic(p) \/ CloseServer(p))
    /\ WF_vars(AwaitRun \/ StopTimesOut \/ End)

FairSpec == Spec /\ Fairness

-----------------------------------------------------------------------------
Open(b) == ~bots[b].closed

(* A bot that polls, whose receiving loop has not been told to stop. *)
Answers(b) == Open(b) /\ bots[b].ctx \notin cancelled

(* The bot in place does what the settings say. *)
Follows(s) ==
    IF s.token = Unset THEN \A b \in DOMAIN bots : ~Open(b)
    ELSE /\ services[telegram].bot # None
         /\ Answers(services[telegram].bot)
         /\ bots[services[telegram].bot].settings = s

(* At most one bot polls telegram for the server at any moment, the middle *)
(* of a restart included: telegram hands each message to one poller only,  *)
(* so a second one would swallow commands.  A restart must shut the old    *)
(* service down before it starts the new one (server.go:192-205,           *)
(* handlers.go:686-696).                                                   *)
OneBot == \A b, c \in DOMAIN bots : Open(b) /\ Open(c) => b = c

(* Between restarts the bot serves with exactly the configuration in       *)
(* memory, or is off when that has no token, unless the last restart could *)
(* not reach telegram or the form's verification failed: every other path  *)
(* that changes the configuration must end in a completed restart.         *)
FollowsWhenQuiet ==
    phase = "running" /\ Quiet /\ missed = "nothing" => Follows(mem)

(* No restart closes a bot that is closed already: as long as the server   *)
(* has not been asked to stop, no panic ends it.                           *)
ServerSurvives == phase # "crashed"

(* Once Program.Stop has done its waiting no bot polls but one that Run    *)
(* connected after the stop, and none at all once shutdownOnContext has    *)
(* done its part too: after a restart the context of the bot descends from *)
(* the background (server.go:199-202), so cancelling the program's context *)
(* no longer reaches it, and only the closing of the service in place      *)
(* does.                                                                   *)
NothingLeftPolling ==
    \A b \in DOMAIN bots : Open(b) =>
        /\ pc[Stopper] = "done" => bots[b].late
        /\ pc[OnContext] # "done"

(* Until the stop, a bot's channel is closed only after its receiving loop *)
(* has been told to end: the loop takes a closed channel for an empty      *)
(* update and would spin without a pause (service.go:53-65).               *)
NoLoopSpins ==
    phase = "running" =>
        \A b \in DOMAIN bots : ~Open(b) => bots[b].ctx \in cancelled

-----------------------------------------------------------------------------
(* Where Run, Stop and shutdownOnContext can be, and that the last one     *)
(* finds a server to shut once Run has launched it; this holds whatever    *)
(* overlaps.                                                               *)
ServerEnds ==
    /\ pc[Runner] \in {"idle", "start", "connect", "listen", "serving",
                       "returned"}
    /\ pc[Stopper] \in {"idle", "shutdown", "http", "wait", "done"}
    /\ pc[Stopper] = "idle" <=> phase \in {"running", "crashed"}
    /\ pc[OnContext] \in {"unborn", "idle", "shutdown", "http", "done"}
    /\ \/ pc[Runner] \in {"start", "connect", "listen", "serving"}
       \/ pc[OnContext] # "unborn"
       => http # "none"
    /\ pc[OnContext] = "unborn" => pc[Runner] # "serving"
    /\ pc[OnContext] # "unborn" => Started
    /\ pc[OnContext] = "idle" => phase \in {"running", "crashed"}
    /\ pc[OnContext] = "done" => http = "shut"

(* What the properties of the workload without overlap rest on, by         *)
(* induction.                                                              *)
InPlace == services[telegram]

Nowhere(steps) == \A p \in Reloaders : pc[p] \notin steps

NoneOpen == \A b \in DOMAIN bots : ~Open(b)

(* Start has chosen a service that exists. *)
ConnectsKnown ==
    \A p \in Procs : pc[p] = "connect" => local[p].service \in DOMAIN services

(* One restart at a time, none during Run's own start or after the stop.   *)
Turns ==
    /\ phase # "crashed"
    /\ phase = "running" <=> Resting(Stopper)
    /\ phase = "running" => Resting(OnContext)
    /\ pc[Ticker] # "unborn" \/ pc[OnContext] # "unborn" => Started
    /\ \A p, q \in Reloaders : ~Resting(p) =>
          /\ phase = "running" /\ Started
          /\ ~Resting(q) => p = q

(* Run starts the first service with the first context, whatever the stop  *)
(* does meanwhile.                                                         *)
Starting ==
    ~Started =>
        /\ telegramCtx = RunContext
        /\ phase = "running" => telegramCtx \notin cancelled
        /\ InPlace.settings = mem
        /\ pc[Runner] # "listen" => InPlace.bot = None /\ bots = << >>
        /\ pc[Runner] = "connect" =>
              /\ local[Runner].service = telegram
              /\ local[Runner].ctx = telegramCtx
              /\ mem.token # Unset
        /\ pc[Runner] = "listen" /\ mem.token # Unset => InPlace.bot # None

(* The service in place has the bot that polls, if one does. *)
BotInPlace ==
    LET b == InPlace.bot IN
    /\ \A c \in DOMAIN bots : Open(c) => c = b
    /\ InPlace.settings.token = Unset => b = None
    /\ b # None =>
          /\ bots[b].ctx = telegramCtx
          /\ bots[b].settings = InPlace.settings
          /\ phase = "running" /\ Nowhere({"replace"}) => Open(b)
          /\ phase = "running" /\ Nowhere({"shutdown", "replace"})
                => telegramCtx \notin cancelled

(* The service in place is the one that settings s ask for. *)
Suits(s) ==
    /\ s.token = Unset => InPlace.settings.token = Unset
    /\ s.token # Unset /\ missed = "nothing" =>
          InPlace.settings = s /\ InPlace.bot # None

(* What a reload or a form has found and done so far. *)
Restarting(p) ==
    LET v == local[p] IN
    /\ pc[p] \in {"save", "load", "compare", "cancel", "shutdown"}
          => Suits(v.old)
    /\ pc[p] \in {"save", "load", "compare"} /\ v.form
          => v.old.token = Unset \/ v.new.token = v.old.token
    /\ pc[p] = "save" => v.form /\ mem = v.old
    /\ pc[p] = "load" => IF v.form THEN mem = v.new /\ file = v.new
                                   ELSE mem = v.old
    /\ pc[p] = "compare" /\ v.form => mem = v.new
    /\ pc[p] \in {"cancel", "shutdown", "replace"} => v.new = mem
    /\ pc[p] \in {"cancel", "shutdown"} => v.old # mem
    /\ pc[p] \in {"cancel", "shutdown"} /\ v.form /\ mem.token = Unset
          => InPlace.settings.token = Unset
    /\ pc[p] = "shutdown" => telegramCtx \in cancelled
    /\ pc[p] \in {"replace", "context", "start", "connect"} => NoneOpen
    /\ pc[p] \in {"context", "start", "connect"} =>
          InPlace.settings = mem /\ InPlace.bot = None
    /\ pc[p] \in {"start", "connect"} => telegramCtx \notin cancelled
    /\ pc[p] = "connect" =>
          /\ v.service = telegram
          /\ v.ctx = telegramCtx
          /\ mem.token # Unset

Settled == Started /\ (\A p \in Reloaders : Resting(p)) => Suits(mem)

(* The stop closes what it finds; after shutdownOnContext nothing starts.  *)
Stopped ==
    /\ pc[Stopper] \in {"http", "wait", "done"} =>
          \A b \in DOMAIN bots : Open(b) => bots[b].late
    /\ pc[OnContext] \in {"http", "done"} => NoneOpen

CalmInv ==
    /\ Turns
    /\ Starting
    /\ BotInPlace
    /\ \A p \in Reloaders : Restarting(p)
    /\ Settled
    /\ NoLoopSpins
    /\ Stopped

(* Every state is well typed and, while restarts take turns, what one of   *)
(* them has found and done so far still describes the service, the bot and *)
(* the context in place, until its last step: the safety properties        *)
(* follow from this invariant, which is inductive.                         *)
IInv == TypeOK /\ ConnectsKnown /\ ServerEnds /\ (~MayOverlap => CalmInv)

(* What of the state the users of the bot see: the bots that poll.         *)
Polling == {[bot |-> b, settings |-> bots[b].settings] :
               b \in {c \in DOMAIN bots : Open(c)}}

NoToken == {s \in Settings : s.token = Unset}

Slot == INSTANCE BotSlot WITH
    Disabled <- NoToken,
    wanted <- mem,
    polling <- Polling,
    made <- Len(bots),
    behind <- missed # "nothing",
    stopped <- phase # "running"

(* While restarts take turns the server is a slot for one bot: none is     *)
(* turned on before the last one is off and with other settings than those *)
(* in memory, one that is off never polls again, none is turned off while  *)
(* it is what the settings in memory ask for, unless an earlier restart    *)
(* missed, and after the stop only Run's first bot can still come up       *)
(* (server.go:173-206, handlers.go:673-698).                               *)
ImplementsSlot == Slot!Spec

(* Once the stop has been asked for, Run does not serve with nobody left   *)
(* to end it: the HTTP server is shut, or shutdownOnContext has yet to     *)
(* shut it, whichever of Run's steps the stop has come between and         *)
(* whatever overlaps (server.go:115-139, 227-248).                         *)
StopReachesRun ==
    phase \notin {"running", "crashed"} /\ pc[Runner] = "serving" =>
        http = "shut" \/ pc[OnContext] \in {"shutdown", "http"}

(* Settings that stay in the file are taken up: again and again the bot    *)
(* follows config.yaml itself, unless the last restart missed, or the      *)
(* server stops.                                                           *)
CatchesUp ==
    []<>(\/ phase # "running" \/ missed # "nothing"
         \/ mem = file /\ Follows(file))

(* A stop asked for at any moment of Run, before there is a server to shut *)
(* down included, comes to its end, and the 10 s it may wait are used up   *)
(* only while telegram's servers keep Run or a request waiting: a server   *)
(* that Run makes or opens after App.Shutdown has looked for it is closed  *)
(* by shutdownOnContext (program.go:66-84, server.go:227-248).             *)
StopInTime == phase = "stopping" ~> phase \in {"ended", "aborted"}

-----------------------------------------------------------------------------
(* What remains of StopInTime when fairness is left aside: somebody can    *)
(* always go on, and nobody can do so for ever.                            *)

(* While a stop is under way a call of App.Shutdown, Run, or a request it  *)
(* waits for has a step to take; Run is never waited for in ListenAndServe *)
(* while nobody is left to shut the server.                                *)
StopNeverStuck ==
    phase = "stopping" =>
        \/ pc[Runner] \in {"idle", "start", "connect", "listen"}
        \/ pc[Runner] = "serving" /\ http = "shut"
        \/ \E p \in Stoppers : pc[p] \in {"shutdown", "http"}
        \/ \E p \in Requests : ~Resting(p)
        \/ pc[Stopper] = "wait" /\ pc[Runner] = "returned"
        \/ pc[Stopper] = "done"

(* How many steps each of them can still take. *)
RunLeft(step) ==
    [idle |-> 5, start |-> 4, connect |-> 3, listen |-> 2, serving |-> 1,
     returned |-> 0][step]

StopLeft(step) ==
    [unborn |-> 4, idle |-> 4, shutdown |-> 3, http |-> 2, wait |-> 1,
     done |-> 0][step]

CallLeft(step) ==
    [unborn |-> 0, idle |-> 0, connect |-> 1, start |-> 2, context |-> 3,
     replace |-> 4, shutdown |-> 5, cancel |-> 6, compare |-> 7, load |-> 8,
     save |-> 9][step]

StopStepsLeft ==
    RunLeft(pc[Runner]) + StopLeft(pc[Stopper]) + StopLeft(pc[OnContext])
        + (IF phase = "stopping" THEN 1 ELSE 0)

(* Each step of Run and of the stop brings the end of the stop nearer and  *)
(* no step of anyone else puts it off; and once the HTTP server is shut no *)
(* request begins, and those under way come nearer to their ends, whatever *)
(* they overlap with.                                                      *)
StopWindsDown ==
    [][phase = "stopping" =>
          /\ StopStepsLeft' <= StopStepsLeft
          /\ RunStep \/ StopStep => StopStepsLeft' < StopStepsLeft
          /\ http = "shut" => \A p \in Requests :
                pc'[p] # pc[p] => CallLeft(pc'[p]) < CallLeft(pc[p])]_vars
=============================================================================
