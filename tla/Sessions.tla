------------------------------ MODULE Sessions ------------------------------
(***************************************************************************)
(* Signing in to the server: the password and the secret that signs the    *)
(* sessions, in config.yaml, in the environment and in Manager.config      *)
(* (internal/config), and the handlers that read and write them            *)
(* (internal/server/handlers.go, auth.go, router.go).                      *)
(*                                                                         *)
(* A session is a signed token that only its browser keeps: it is accepted *)
(* while the secret in memory is the one that signed it.  The file a first *)
(* start writes holds no secret, so each load of it makes a new one, until *)
(* a save writes the one then in memory to the file.                       *)
(*                                                                         *)
(* A request checks its session when it enters, reads the configuration    *)
(* later, and saves, publishes and reloads later still; nothing keeps a    *)
(* second request, or the ticker's reload, out in between.  Torn files and *)
(* the other sections are ConfigStore's subject: here a save is one step.  *)
(***************************************************************************)
EXTENDS Naturals, FiniteSets

CONSTANTS
    Browsers,    \* each with one cookie and at most one request at a time
    Ticker,      \* the goroutine of reloadConfigPeriodically
    Secrets,     \* a new one can be made while some secret is not in use
    SavedSecrets, \* those the file may hold when the server first starts
    Passwords,
    EnvSecret,   \* what WOLLEE_JWT_SECRET holds when it is set
    EnvPassword, \* the password WOLLEE_PASSWORD_HASH is of when it is set
    None,        \* the empty string
    MaxCalls     \* bound on the browsers whose requests are served at once

Procs == Browsers \cup {Ticker}

ASSUME TickerIsNoBrowser == Ticker \notin Browsers
ASSUME EnvIsSet == EnvSecret \in Secrets /\ EnvPassword \in Passwords
ASSUME SavedAreSecrets == SavedSecrets \subseteq Secrets
ASSUME BoundIsNatural == MaxCalls \in Nat
ASSUME NoneIsEmpty == None \notin Secrets \cup Passwords

VARIABLES
    file,      \* server.jwtSecret and server.passwordHash of config.yaml
    env,       \* the same of the process's environment
    mem,       \* the same of Manager.config
    cookie,    \* each browser's session: the secret it is signed with
    pc,        \* what each process does next
    op,        \* the request it serves
    asked,     \* the new password it carries
    cfg,       \* the variable cfg of its call, or of the Load it has called
    pinned,    \* the file or the environment held a secret at the start
    calm,      \* no call's copy has been overtaken since the start
    promised   \* the password the last 200 was given for, if it holds still

vars == <<file, env, mem, cookie, pc, op, asked, cfg, pinned, calm, promised>>

Credentials == [secret : Secrets \cup {None}, hash : Passwords \cup {None}]
Environments == [secret : {EnvSecret, None}, hash : {EnvPassword, None}]
Blank == [secret |-> None, hash |-> None]

PasswordOps == {"setup", "change"}
Guarded == {"change", "settings", "reload"}
Ops == PasswordOps \cup Guarded \cup {"login"}

TypeOK ==
    /\ file \in Credentials
    /\ env \in Environments
    /\ mem \in [secret : Secrets, hash : Passwords \cup {None}]
    /\ cookie \in [Browsers -> Secrets \cup {None}]
    /\ pc \in [Procs -> {"idle", "entered", "sign", "save", "publish", "load",
                         "set", "answer"}]
    /\ op \in [Procs -> Ops]
    /\ asked \in [Procs -> Passwords \cup {None}]
    /\ cfg \in [Procs -> Credentials]
    /\ pinned \in BOOLEAN
    /\ calm \in BOOLEAN
    /\ promised \in Passwords \cup {None}

-----------------------------------------------------------------------------
(* BindEnv: a variable that is set goes before the file. *)
Bound(e, f) == IF e # None THEN e ELSE f

(* The secret that survives a reload, if one does. *)
Kept(e, f) == Bound(e.secret, f.secret)

SecretsInUse ==
    {file.secret, mem.secret} \cup {cookie[b] : b \in Browsers}
        \cup {cfg[p].secret : p \in Procs}

(* One that nobody holds; which one makes no difference. *)
Unused(inUse) ==
    LET free == Secrets \ (inUse \cup {EnvSecret}) IN
    IF free = {} THEN {} ELSE {CHOOSE s \in free : TRUE}

(* Mutant: the file's secret is not looked at. *)
LoadedWithoutFile(e, f, new) ==
    [secret : IF e.secret # None THEN {e.secret} ELSE new,
     hash : {Bound(e.hash, f.hash)}]

(* Mutant: the password's key is bound to the environment alone. *)
LoadedHashFromEnv(e, f, new) ==
    [secret : IF Kept(e, f) # None THEN {Kept(e, f)} ELSE new,
     hash : {e.hash}]

(* What Load may return of file f: getOrGenerateJWTSecret makes a new      *)
(* secret when there is none.                                              *)
Loaded(e, f, new) ==
    [secret : IF Kept(e, f) # None THEN {Kept(e, f)} ELSE new,
     hash : {Bound(e.hash, f.hash)}]

(* The file of a first start, which has neither, one written by hand, and  *)
(* one saved before.                                                       *)
Init ==
    /\ file \in [secret : SavedSecrets \cup {None}, hash : Passwords \cup {None}]
    /\ env \in Environments
    /\ cookie = [b \in Browsers |-> None]
    /\ pc = [p \in Procs |-> "idle"]
    /\ op = [p \in Procs |-> "reload"]
    /\ asked = [p \in Procs |-> None]
    /\ cfg = [p \in Procs |-> Blank]
    /\ mem \in Loaded(env, file, Unused({file.secret}))
    /\ pinned = (Kept(env, file) # None)
    /\ calm = TRUE
    /\ promised = None

-----------------------------------------------------------------------------
Goto(p, step) == pc' = [pc EXCEPT ![p] = step]

Finish(p) ==
    /\ Goto(p, "idle")
    /\ op' = [op EXCEPT ![p] = "reload"]
    /\ asked' = [asked EXCEPT ![p] = None]
    /\ cfg' = [cfg EXCEPT ![p] = Blank]

(* Calls overlap freely, and most of the time it does no harm.  What does  *)
(* is that one is overtaken: the file or the memory that it has copied     *)
(* changes before it saves, publishes, stores or signs with the copy.      *)

(* Who works with a copy of the configuration. *)
Copies == {p \in Procs : pc[p] \in {"sign", "save", "publish", "set"}}

(* Process p copies the memory before another call has published what it   *)
(* has saved.                                                              *)
Copying(p) == calm' = (calm /\ \A q \in Procs : pc[q] # "publish")

(* Process p writes the file while another works with a copy, or has yet   *)
(* to answer for the password it has set.                                  *)
Writing(p) ==
    calm' = (calm /\ \A q \in Procs \ {p} :
                        q \notin Copies /\ asked[q] = None)

(* Process p changes the memory while another works with a copy, and that  *)
(* is not the same as what p stores.                                       *)
Storing(p) ==
    calm' = (calm /\ \A q \in Copies \ {p} : mem' \in {mem, cfg[q]})

(* Process p takes up a call. *)
Begin(p, o, step) ==
    /\ pc[p] = "idle"
    /\ p # Ticker =>
          Cardinality({b \in Browsers : pc[b] # "idle"}) < MaxCalls
    /\ Goto(p, step)
    /\ op' = [op EXCEPT ![p] = o]

(* The call of b is to set password w in the configuration it has read. *)
Ask(b, w) ==
    /\ asked' = [asked EXCEPT ![b] = w]
    /\ cfg' = [cfg EXCEPT ![b] = [mem EXCEPT !.hash = w]]

(* The middleware and handleChangePassword verify the token. *)
Authenticated(b) == cookie[b] # None /\ cookie[b] = mem.secret

(* handleLogin with the right password. *)
BeginLogin(b) ==
    /\ mem.hash # None
    /\ Begin(b, "login", "sign")
    /\ cfg' = [cfg EXCEPT ![b] = mem]
    /\ UNCHANGED <<file, env, mem, cookie, asked, pinned, calm, promised>>

(* Mutant: the token is signed with the file's secret, if it has one. *)
SignLoginFromFile(b) ==
    /\ pc[b] = "sign"
    /\ cookie' = [cookie EXCEPT ![b] = IF file.secret # None THEN file.secret
                                       ELSE cfg[b].secret]
    /\ Finish(b)
    /\ UNCHANGED <<file, env, mem, pinned, calm, promised>>

(* The token is signed with the secret read before the hash was verified. *)
SignLogin(b) ==
    /\ pc[b] = "sign"
    /\ cookie' = [cookie EXCEPT ![b] = cfg[b].secret]
    /\ Finish(b)
    /\ UNCHANGED <<file, env, mem, pinned, calm, promised>>

(* Mutant: setup does not ask whether there is a password. *)
BeginSetupAnyTime(b) ==
    /\ Begin(b, "setup", "save")
    /\ \E w \in Passwords : Ask(b, w)
    /\ Copying(b)
    /\ UNCHANGED <<file, env, mem, cookie, pinned, promised>>

BeginSetup(b) ==
    /\ mem.hash = None
    /\ Begin(b, "setup", "save")
    /\ \E w \in Passwords : Ask(b, w)
    /\ Copying(b)
    /\ UNCHANGED <<file, env, mem, cookie, pinned, promised>>

(* A request that needs a session has passed the check. *)
Enter(b) ==
    /\ Authenticated(b)
    /\ \E o \in Guarded : Begin(b, o, "entered")
    /\ UNCHANGED <<file, env, mem, cookie, asked, cfg, pinned, calm, promised>>

(* handleChangePassword reads the configuration a second time; the current *)
(* password given is the one it finds there.                               *)
BeginChange(b) ==
    /\ pc[b] = "entered" /\ op[b] = "change"
    /\ mem.hash # None
    /\ \E w \in Passwords : Ask(b, w)
    /\ Copying(b)
    /\ Goto(b, "save")
    /\ UNCHANGED <<file, env, mem, cookie, op, pinned, promised>>

(* There is none to change. *)
RefuseChange(b) ==
    /\ pc[b] = "entered" /\ op[b] = "change"
    /\ mem.hash = None
    /\ Finish(b)
    /\ UNCHANGED <<file, env, mem, cookie, pinned, calm, promised>>

(* Mutant: the form's handler builds a configuration without the hash. *)
BeginUpdateForgetting(b) ==
    /\ pc[b] = "entered" /\ op[b] = "settings"
    /\ cfg' = [cfg EXCEPT ![b] = [mem EXCEPT !.hash = None]]
    /\ Copying(b)
    /\ Goto(b, "save")
    /\ UNCHANGED <<file, env, mem, cookie, op, asked, pinned, promised>>

(* The settings form changes other fields only, but saves these with them. *)
BeginUpdateSettings(b) ==
    /\ pc[b] = "entered" /\ op[b] = "settings"
    /\ cfg' = [cfg EXCEPT ![b] = mem]
    /\ Copying(b)
    /\ Goto(b, "save")
    /\ UNCHANGED <<file, env, mem, cookie, op, asked, pinned, promised>>

BeginConfigReload(b) ==
    /\ pc[b] = "entered" /\ op[b] = "reload"
    /\ Goto(b, "load")
    /\ UNCHANGED <<file, env, mem, cookie, op, asked, cfg, pinned, calm,
                   promised>>

(* A tick. *)
BeginTick ==
    /\ Begin(Ticker, "reload", "load")
    /\ UNCHANGED <<file, env, mem, cookie, asked, cfg, pinned, calm, promised>>

-----------------------------------------------------------------------------
(* Mutant: the secret is left out of the saved section. *)
SaveHashOnly(b) ==
    /\ pc[b] = "save"
    /\ file' = [cfg[b] EXCEPT !.secret = None]
    /\ promised' = IF op[b] \in PasswordOps THEN None ELSE promised
    /\ Writing(b)
    /\ Goto(b, "publish")
    /\ UNCHANGED <<env, mem, cookie, op, asked, cfg, pinned>>

(* Update: the file, whose server section is replaced as a whole... *)
Save(b) ==
    /\ pc[b] = "save"
    /\ file' = cfg[b]
    /\ promised' = IF op[b] \in PasswordOps THEN None ELSE promised
    /\ Writing(b)
    /\ Goto(b, "publish")
    /\ UNCHANGED <<env, mem, cookie, op, asked, cfg, pinned>>

FailSave(b) ==
    /\ pc[b] = "save"
    /\ Finish(b)
    /\ UNCHANGED <<file, env, mem, cookie, pinned, calm, promised>>

(* ...then the memory... *)
Publish(b) ==
    /\ pc[b] = "publish"
    /\ mem' = cfg[b]
    /\ cfg' = [cfg EXCEPT ![b] = Blank]
    /\ Storing(b)
    /\ Goto(b, "load")
    /\ UNCHANGED <<file, env, cookie, op, asked, pinned, promised>>

(* ...and the verifying Reload, in two steps: Load... *)
Load(p) ==
    /\ pc[p] = "load"
    /\ \E c \in Loaded(env, file, Unused(SecretsInUse)) :
          cfg' = [cfg EXCEPT ![p] = c]
    /\ Goto(p, "set")
    /\ UNCHANGED <<file, env, mem, cookie, op, asked, pinned, calm, promised>>

FailLoad(p) ==
    /\ pc[p] = "load"
    /\ Finish(p)
    /\ UNCHANGED <<file, env, mem, cookie, pinned, calm, promised>>

(* ...and the assignment under the lock. *)
SetConfig(p) ==
    /\ pc[p] = "set"
    /\ mem' = cfg[p]
    /\ cfg' = [cfg EXCEPT ![p] = Blank]
    /\ Storing(p)
    /\ Goto(p, "answer")
    /\ UNCHANGED <<file, env, cookie, op, asked, pinned, promised>>

(* 200: the setup signs a session with the configuration it reads now. *)
Answer(p) ==
    /\ pc[p] = "answer"
    /\ cookie' = IF op[p] = "setup"
                 THEN [cookie EXCEPT ![p] = mem.secret] ELSE cookie
    /\ promised' = IF op[p] \in PasswordOps THEN asked[p] ELSE promised
    /\ Finish(p)
    /\ UNCHANGED <<file, env, mem, pinned, calm>>

-----------------------------------------------------------------------------
(* handleLogout, and the 24 hours the token and its cookie last. *)
DropCookie(b) ==
    /\ cookie[b] # None
    /\ cookie' = [cookie EXCEPT ![b] = None]
    /\ UNCHANGED <<file, env, mem, pc, op, asked, cfg, pinned, calm, promised>>

(* The process ends, at any step, and starts again; whoever starts it may  *)
(* have set or removed the variables.  The browsers keep their cookies.    *)
Restart ==
    /\ env' \in Environments
    /\ mem' \in Loaded(env', file, Unused(SecretsInUse))
    /\ pinned' = (Kept(env', file) # None)
    /\ calm' = TRUE
    /\ promised' = IF calm /\ env.hash = None /\ env'.hash = None
                   THEN promised ELSE None
    /\ pc' = [p \in Procs |-> "idle"]
    /\ op' = [p \in Procs |-> "reload"]
    /\ asked' = [p \in Procs |-> None]
    /\ cfg' = [p \in Procs |-> Blank]
    /\ UNCHANGED <<file, cookie>>

(* What is left of a call once it has begun. *)
Proceed(p) ==
    \/ Load(p) \/ FailLoad(p) \/ SetConfig(p) \/ Answer(p)

Handle(b) ==
    \/ SignLogin(b) \/ BeginChange(b) \/ RefuseChange(b)
    \/ BeginUpdateSettings(b) \/ BeginConfigReload(b)
    \/ Save(b) \/ FailSave(b) \/ Publish(b)

Next ==
    \/ \E b \in Browsers :
          BeginLogin(b) \/ BeginSetup(b) \/ Enter(b) \/ Handle(b)
          \/ DropCookie(b)
    \/ \E p \in Procs : Proceed(p)
    \/ BeginTick
    \/ Restart

Spec == Init /\ [][Next]_vars

(* A call goes on once begun, the ticker ticks, and now and then a tick    *)
(* finds the file readable.                                                *)
Fairness ==
    /\ \A p \in Procs : WF_vars(Proceed(p))
    /\ \A b \in Browsers : WF_vars(Handle(b))
    /\ WF_vars(BeginTick)
    /\ SF_vars(Load(Ticker))

FairSpec == Spec /\ Fairness

-----------------------------------------------------------------------------
(* When the server started with a secret on file or in the environment,    *)
(* every copy of it that any call still works with agrees with what the    *)
(* next load will find: no order of logins, saves and reloads can bring a  *)
(* second secret in (config.go:247-252, manager.go:73-83).                 *)
SecretSettled ==
    pinned =>
        /\ mem.secret = Kept(env, file)
        /\ \A p \in Copies : cfg[p].secret = mem.secret

(* The secret that p works with is the one in memory. *)
SecretAgrees(p) ==
    (pc[p] = "set" => Kept(env, file) # None) /\ p \in Copies
        => cfg[p].secret = mem.secret

(* How far the request of p to set a password, or the hash it has read     *)
(* with the rest of the configuration, has come.                           *)
HashAgrees(p) ==
    LET sets == op[p] \in PasswordOps IN
    /\ pc[p] \in {"idle", "entered"} => asked[p] = None
    /\ pc[p] = "save" =>
          /\ cfg[p].hash = IF sets THEN asked[p] ELSE mem.hash
          /\ sets => asked[p] # None
          /\ op[p] = "setup" => file.hash = None
    /\ pc[p] = "publish" =>
          /\ cfg[p].hash = file.hash
          /\ env.hash # None => cfg[p].hash # None
          /\ ~sets => mem.hash = file.hash
    /\ pc[p] = "set" => cfg[p].hash = Bound(env.hash, file.hash)
    /\ pc[p] \in {"publish", "load", "set", "answer"} /\ sets =>
          asked[p] # None /\ asked[p] = file.hash /\ promised = None

CalmSecrets ==
    calm =>
        /\ Kept(env, file) # None => mem.secret = Kept(env, file)
        /\ \A p \in Procs : SecretAgrees(p)

(* While q has yet to publish what it has saved, p is not going to save or *)
(* publish, or to answer for a password; nor are both about to answer.     *)
GivesWay(p, q) ==
    /\ pc[q] = "publish" => pc[p] \notin {"save", "publish"} /\ asked[p] = None
    /\ asked[q] # None /\ pc[q] \in {"load", "set", "answer"} =>
          asked[p] = None \/ pc[p] \notin {"load", "set", "answer"}

CalmTurns == calm => \A p, q \in Procs : p # q => GivesWay(p, q)

(* A password is in memory as on file, but between the two halves of a     *)
(* save.                                                                   *)
CalmHashes ==
    calm =>
        /\ env.hash # None => mem.hash # None
        /\ env.hash = None =>
              \/ mem.hash = file.hash
              \/ \E p \in Procs : pc[p] = "publish" /\ op[p] \in PasswordOps
        /\ env.hash = None /\ promised # None => file.hash = promised
        /\ \A p \in Procs : HashAgrees(p)

CopiesHoldSecrets == \A p \in Copies : cfg[p].secret # None

(* What the properties below rest on, by induction: no copy of the         *)
(* configuration is without a secret, a pinned secret is settled, and as   *)
(* long as no call has been overtaken, each knows what memory and file     *)
(* hold.                                                                   *)
IInv ==
    /\ TypeOK
    /\ CopiesHoldSecrets
    /\ SecretSettled
    /\ CalmSecrets
    /\ CalmTurns
    /\ CalmHashes

(* A session that is accepted stays accepted, over reloads, saves and      *)
(* restarts, while its browser keeps it and the environment's secret is    *)
(* left alone: always if the server started with a secret, and otherwise   *)
(* from the first save on, as long as no call has been overtaken           *)
(* (TestJWTSecretPersistsAcrossReload).                                    *)
SessionsSurvive ==
    [][\A b \in Browsers :
          /\ pinned \/ (calm /\ Kept(env, file) # None)
          /\ Authenticated(b)
          /\ env'.secret = env.secret /\ cookie'[b] = cookie[b]
          => Authenticated(b)']_vars

(* The session a login or a setup hands out is accepted from then on, if   *)
(* the server started with a secret or no call has been overtaken:         *)
(* handleLogin signs with a configuration read before the password was     *)
(* verified, handleSetupPassword with one read after its reload.           *)
NewSessionsWork ==
    [][\A b \in Browsers :
          /\ pinned \/ calm
          /\ cookie'[b] \notin {cookie[b], None}
          => Authenticated(b)']_vars

(* As long as no call has been overtaken since the server started, a setup *)
(* that saves finds no password on file: "if password is already set, deny *)
(* further setup" (handlers.go:829), although it looks in memory, and      *)
(* saves later, beside the ticker and other calls.                         *)
(*                                                                         *)
(* Without the condition it is false.  A tick loads the file, a first      *)
(* setup is saved, published and answered, the tick stores what it loaded, *)
(* and memory has no password again: a second setup is let through and     *)
(* takes the place of the first one's password.  SetupCloses bounds how    *)
(* long that can be.                                                       *)
SetupReplacesNothing ==
    [][\A b \in Browsers :
          /\ calm /\ op[b] = "setup"
          /\ pc[b] = "save" /\ pc'[b] = "publish"
          => file.hash = None]_vars

(* The password that the last setup or change was answered 200 for is the  *)
(* one logins are checked against, and the one on file, until a later one  *)
(* is saved, also after other settings are saved, reloads and restarts.    *)
(* This is so as long as no call has been overtaken since the start, and   *)
(* there is no hash in the environment, which would go before the file.    *)
PromiseKept ==
    calm /\ env.hash = None /\ promised # None =>
        file.hash = promised /\ mem.hash = promised

(* Whatever overlapping calls have done, a server with a password on file  *)
(* does not stay open to a setup: the ticker's reload closes it.           *)
SetupCloses == []<>(file.hash # None => mem.hash # None)
=============================================================================
