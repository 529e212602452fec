--------------------------- MODULE SessionsProofs ---------------------------
(***************************************************************************)
(* Proofs about Sessions, for any number of browsers, secrets and          *)
(* passwords: its inductive invariant, and the promises that rest on it.   *)
(***************************************************************************)
EXTENDS Sessions, TLAPS

USE TickerIsNoBrowser, EnvIsSet, SavedAreSecrets, NoneIsEmpty

Memory == [secret : Secrets, hash : Passwords \cup {None}]

(* A new secret is a secret. *)
LEMMA UnusedAreSecrets ==
    ASSUME NEW inUse
    PROVE  Unused(inUse) \subseteq Secrets
BY DEF Unused

(* A load returns the bound hash, and the secret that is kept if one is. *)
LEMMA LoadedBinds ==
    ASSUME NEW e \in Environments, NEW f \in Credentials,
           NEW inUse, NEW c \in Loaded(e, f, Unused(inUse))
    PROVE  /\ c \in Memory
           /\ c.hash = Bound(e.hash, f.hash)
           /\ Kept(e, f) # None => c.secret = Kept(e, f)
<1> DEFINE new == Unused(inUse)
<1>1. new \subseteq Secrets
  BY UnusedAreSecrets
<1>2. /\ Kept(e, f) \in Secrets \cup {None}
      /\ Bound(e.hash, f.hash) \in Passwords \cup {None}
  BY DEF Kept, Bound, Environments, Credentials
<1>3. PICK s \in Secrets : /\ c = [secret |-> s, hash |-> Bound(e.hash, f.hash)]
                           /\ Kept(e, f) # None => s = Kept(e, f)
  <2> HIDE DEF new
  <2>1. CASE Kept(e, f) # None
    BY <1>2, <2>1 DEF Loaded, new
  <2>2. CASE Kept(e, f) = None
    BY <1>1, <2>2 DEF Loaded, new
  <2>3. QED
    BY <2>1, <2>2
<1>4. QED
  BY <1>2, <1>3 DEF Memory

-----------------------------------------------------------------------------
(* A step that leaves what q works with alone leaves what q knows alone.   *)
LEMMA OthersKnow ==
    ASSUME NEW q \in Procs, UNCHANGED <<file, env, mem, promised>>,
           pc'[q] = pc[q], op'[q] = op[q], asked'[q] = asked[q], cfg'[q] = cfg[q]
    PROVE  /\ SecretAgrees(q) => SecretAgrees(q)'
           /\ HashAgrees(q) => HashAgrees(q)'
BY DEF SecretAgrees, HashAgrees, Copies

(* Two processes of which a step leaves the pace alone keep their turns. *)
LEMMA OthersGiveWay ==
    ASSUME NEW p \in Procs, NEW q \in Procs, GivesWay(p, q),
           pc'[p] = pc[p], asked'[p] = asked[p],
           pc'[q] = pc[q], asked'[q] = asked[q]
    PROVE  GivesWay(p, q)'
BY DEF GivesWay

(* All that is known as long as nobody has been overtaken. *)
Calm == CalmSecrets /\ CalmTurns /\ CalmHashes

(* A step of p that changes neither file nor memory nor what is promised   *)
(* needs to see to p alone.                                                *)
LEMMA QuietStepKeepsCalm ==
    ASSUME TypeOK, Calm, NEW p \in Procs,
           UNCHANGED <<file, env, mem, promised>>,
           \A q \in Procs \ {p} :
              /\ pc'[q] = pc[q] /\ op'[q] = op[q]
              /\ asked'[q] = asked[q] /\ cfg'[q] = cfg[q],
           pc[p] # "publish",
           calm' => /\ calm
                    /\ SecretAgrees(p)'
                    /\ HashAgrees(p)'
                    /\ \A q \in Procs \ {p} : GivesWay(p, q)' /\ GivesWay(q, p)'
    PROVE  Calm'
<1> SUFFICES ASSUME calm'
             PROVE  Calm'
  BY DEF Calm, CalmSecrets, CalmTurns, CalmHashes
<1>1. calm
  OBVIOUS
<1>2. \A q \in Procs : SecretAgrees(q)' /\ HashAgrees(q)'
  <2>1. \A q \in Procs : SecretAgrees(q) /\ HashAgrees(q)
    BY <1>1 DEF Calm, CalmSecrets, CalmHashes
  <2>2. TAKE q \in Procs
  <2>3. CASE q = p
    BY <2>3
  <2>4. CASE q # p
    BY <2>1, <2>4, OthersKnow
  <2>5. QED
    BY <2>3, <2>4
<1>3. CalmTurns'
  <2>1. ASSUME NEW q \in Procs, NEW r \in Procs, q # r
        PROVE  GivesWay(q, r)'
    <3>1. GivesWay(q, r)
      BY <1>1, <2>1 DEF Calm, CalmTurns
    <3>2. CASE q # p /\ r # p
      BY <3>1, <3>2, OthersGiveWay
    <3>3. CASE q = p \/ r = p
      BY <2>1, <3>3
    <3>4. QED
      BY <3>2, <3>3
  <2>2. QED
    BY <2>1 DEF CalmTurns
<1>4. CalmSecrets'
  BY <1>1, <1>2 DEF Calm, CalmSecrets
<1>5. env.hash = None =>
          \/ mem.hash = file.hash
          \/ \E q \in Procs : pc'[q] = "publish" /\ op'[q] \in PasswordOps
  BY <1>1 DEF Calm, CalmHashes
<1>6. CalmHashes'
  BY <1>1, <1>2, <1>5 DEF Calm, CalmHashes
<1>7. QED
  BY <1>3, <1>4, <1>6 DEF Calm

(* A step that stores the copy of p in memory. *)
LEMMA StoreKeepsCalm ==
    ASSUME TypeOK, Calm, NEW p \in Procs, NEW step,
           \/ pc[p] = "publish" /\ step = "load"
           \/ pc[p] = "set" /\ step = "answer",
           pc' = [pc EXCEPT ![p] = step],
           \A q \in Procs \ {p} : cfg'[q] = cfg[q],
           mem' = cfg[p], Storing(p),
           UNCHANGED <<file, env, op, asked, promised>>
    PROVE  Calm'
<1> SUFFICES ASSUME calm'
             PROVE  Calm'
  BY DEF Calm, CalmSecrets, CalmTurns, CalmHashes
<1>1. calm /\ \A q \in Copies \ {p} : mem' \in {mem, cfg[q]}
  BY DEF Storing
<1>2. \A q \in Procs : SecretAgrees(q) /\ HashAgrees(q)
  BY <1>1 DEF Calm, CalmSecrets, CalmHashes
<1>3. /\ pc'[p] = step
      /\ \A q \in Procs \ {p} : pc'[q] = pc[q]
  BY DEF TypeOK
<1>4. ASSUME NEW q \in Procs
      PROVE  SecretAgrees(q)' /\ HashAgrees(q)'
  <2>1. CASE q = p
    BY <1>2, <1>3, <2>1 DEF SecretAgrees, HashAgrees, Copies
  <2>2. CASE q # p
    <3>1. pc'[q] = pc[q] /\ cfg'[q] = cfg[q]
      BY <1>3, <2>2
    <3>2. q \in Copies => mem' \in {mem, cfg[q]}
      BY <1>1, <2>2
    <3>3. SecretAgrees(q)'
      BY <1>2, <3>1, <3>2 DEF SecretAgrees, Copies
    <3>4. HashAgrees(q)'
      BY <1>2, <3>1, <3>2 DEF HashAgrees, Copies
    <3>5. QED
      BY <3>3, <3>4
  <2>3. QED
    BY <2>1, <2>2
<1>5. CalmTurns'
  <2>1. ASSUME NEW q \in Procs, NEW r \in Procs, q # r
        PROVE  GivesWay(q, r)'
    <3>1. GivesWay(q, r) /\ GivesWay(r, q)
      BY <1>1, <2>1 DEF Calm, CalmTurns
    <3>2. CASE q # p /\ r # p
      BY <1>3, <3>1, <3>2, OthersGiveWay
    <3>3. CASE q = p \/ r = p
      BY <1>3, <2>1, <3>1, <3>3 DEF GivesWay
    <3>4. QED
      BY <3>2, <3>3
  <2>2. QED
    BY <2>1 DEF CalmTurns
<1>6. Kept(env, file) # None => mem'.secret = Kept(env, file)
  BY <1>1, <1>2 DEF Calm, CalmSecrets, SecretAgrees, Copies
<1>7. /\ env.hash # None => mem'.hash # None
      /\ env.hash = None => mem'.hash = file.hash
  BY <1>2 DEF HashAgrees, Bound
<1>8. CalmSecrets'
  BY <1>4, <1>6 DEF CalmSecrets
<1>9. CalmHashes'
  BY <1>1, <1>4, <1>7 DEF Calm, CalmHashes
<1>10. QED
  BY <1>5, <1>8, <1>9 DEF Calm

-----------------------------------------------------------------------------
(* The invariant holds of every start. *)
LEMMA InitSettles == Init => IInv
<1>1. SUFFICES ASSUME Init
               PROVE  IInv
  OBVIOUS
<1>2. file \in Credentials /\ env \in Environments
  BY <1>1 DEF Init, Credentials
<1>3. /\ mem \in Memory
      /\ mem.hash = Bound(env.hash, file.hash)
      /\ Kept(env, file) # None => mem.secret = Kept(env, file)
  BY <1>1, <1>2, LoadedBinds DEF Init
<1>4. TypeOK
  BY <1>1, <1>2, <1>3
  DEF Init, TypeOK, Memory, Ops, Guarded, Blank, Credentials
<1>5. \A p \in Procs : SecretAgrees(p) /\ HashAgrees(p)
  BY <1>1 DEF Init, SecretAgrees, HashAgrees, Copies
<1>6. CopiesHoldSecrets /\ SecretSettled
  BY <1>1, <1>3 DEF Init, CopiesHoldSecrets, SecretSettled, Copies
<1>7. CalmSecrets
  BY <1>1, <1>3, <1>5 DEF Init, CalmSecrets
<1>8. CalmTurns
  BY <1>1 DEF Init, CalmTurns, GivesWay
<1>9. CalmHashes
  BY <1>1, <1>3, <1>5 DEF Init, CalmHashes, Bound
<1>10. QED
  BY <1>4, <1>6, <1>7, <1>8, <1>9 DEF IInv

(* A restart puts everything as at a start, but for the file and cookies. *)
LEMMA RestartSettles ==
    ASSUME IInv, Restart
    PROVE  IInv'
<1>1. file \in Credentials /\ env' \in Environments /\ file' = file
  BY DEF IInv, TypeOK, Restart
<1>2. /\ mem' \in Memory
      /\ mem'.hash = Bound(env'.hash, file.hash)
      /\ Kept(env', file) # None => mem'.secret = Kept(env', file)
  BY <1>1, LoadedBinds DEF Restart
<1>3. TypeOK'
  BY <1>1, <1>2
  DEF IInv, Restart, TypeOK, Memory, Ops, Guarded, Blank, Credentials
<1>4. \A p \in Procs : SecretAgrees(p)' /\ HashAgrees(p)'
  BY DEF Restart, SecretAgrees, HashAgrees, Copies
<1>5. CopiesHoldSecrets' /\ SecretSettled'
  BY <1>1, <1>2 DEF Restart, CopiesHoldSecrets, SecretSettled, Copies
<1>6. CalmSecrets'
  BY <1>1, <1>2, <1>4 DEF Restart, CalmSecrets
<1>7. CalmTurns'
  BY DEF Restart, CalmTurns, GivesWay
<1>8. env'.hash = None /\ promised' # None => file'.hash = promised'
  BY <1>1 DEF IInv, CalmHashes, Restart
<1>9. CalmHashes'
  BY <1>1, <1>2, <1>4, <1>8 DEF CalmHashes, Bound
<1>10. QED
  BY <1>3, <1>5, <1>6, <1>7, <1>9 DEF IInv

-----------------------------------------------------------------------------
(* Every step keeps the types. *)
LEMMA StepKeepsTypes ==
    ASSUME IInv, Next
    PROVE  TypeOK'
<1> USE DEF TypeOK, Goto, Finish, Credentials
<1>1. TypeOK /\ CopiesHoldSecrets
  BY DEF IInv
<1>2. \A p \in Procs : Copying(p) \/ Writing(p) \/ Storing(p)
                          => calm' \in BOOLEAN
  BY DEF Copying, Writing, Storing
<1>3. \A b \in Browsers : b \in Procs /\ b # Ticker
  BY DEF Procs
<1>4. "reload" \in Ops /\ Blank \in Credentials
  BY DEF Ops, Guarded, Blank
<1>5. ASSUME NEW p \in Procs, NEW o \in Ops, NEW step, Begin(p, o, step),
             step \in {"entered", "sign", "save", "load"}
      PROVE  /\ pc' \in [Procs -> {"idle", "entered", "sign", "save", "publish",
                                  "load", "set", "answer"}]
             /\ op' \in [Procs -> Ops]
  BY <1>1, <1>5 DEF Begin
<1>6. CASE \E b \in Browsers :
              BeginLogin(b) \/ BeginSetup(b) \/ Enter(b) \/ DropCookie(b)
  <2>1. PICK b \in Browsers :
              BeginLogin(b) \/ BeginSetup(b) \/ Enter(b) \/ DropCookie(b)
    BY <1>6
  <2>2. CASE BeginLogin(b)
    BY <1>1, <1>3, <1>5, <2>2 DEF BeginLogin, Ops
  <2>3. CASE BeginSetup(b)
    <3>1. /\ asked' \in [Procs -> Passwords \cup {None}]
          /\ cfg' \in [Procs -> Credentials]
      BY <1>1, <1>3, <2>3 DEF BeginSetup, Ask
    <3>2. QED
      BY <1>1, <1>2, <1>3, <1>5, <2>3, <3>1 DEF BeginSetup, Ops, PasswordOps
  <2>4. CASE Enter(b)
    BY <1>1, <1>3, <1>5, <2>4 DEF Enter, Ops
  <2>5. CASE DropCookie(b)
    BY <1>1, <2>5 DEF DropCookie
  <2>6. QED
    BY <2>1, <2>2, <2>3, <2>4, <2>5
<1>7. CASE \E b \in Browsers : Handle(b)
  <2>1. PICK b \in Browsers : Handle(b)
    BY <1>7
  <2>2. CASE SignLogin(b)
    BY <1>1, <1>3, <1>4, <2>2 DEF SignLogin
  <2>3. CASE BeginChange(b)
    BY <1>1, <1>2, <1>3, <2>3 DEF BeginChange, Ask
  <2>4. CASE RefuseChange(b)
    BY <1>1, <1>4, <2>4 DEF RefuseChange
  <2>5. CASE BeginUpdateSettings(b)
    BY <1>1, <1>2, <1>3, <2>5 DEF BeginUpdateSettings
  <2>6. CASE BeginConfigReload(b)
    BY <1>1, <2>6 DEF BeginConfigReload
  <2>7. CASE Save(b)
    BY <1>1, <1>2, <1>3, <2>7 DEF Save
  <2>8. CASE FailSave(b)
    BY <1>1, <1>4, <2>8 DEF FailSave
  <2>9. CASE Publish(b)
    <3>1. cfg[b] \in Credentials /\ cfg[b].secret # None
      BY <1>1, <1>3, <2>9 DEF CopiesHoldSecrets, Copies, Publish
    <3>2. QED
      BY <1>1, <1>2, <1>3, <1>4, <2>9, <3>1 DEF Publish
  <2>10. QED
    BY <2>1, <2>2, <2>3, <2>4, <2>5, <2>6, <2>7, <2>8, <2>9 DEF Handle
<1>8. CASE \E p \in Procs : Proceed(p)
  <2>1. PICK p \in Procs : Proceed(p)
    BY <1>8
  <2>2. CASE Load(p)
    <3>1. PICK c \in Loaded(env, file, Unused(SecretsInUse)) :
              cfg' = [cfg EXCEPT ![p] = c]
      BY <2>2 DEF Load
    <3>2. c \in Credentials
      <4>1. c \in Memory
        BY <1>1, LoadedBinds
      <4>2. QED
        BY <4>1 DEF Memory
    <3>3. QED
      BY <1>1, <2>2, <3>1, <3>2 DEF Load
  <2>3. CASE FailLoad(p)
    BY <1>1, <1>4, <2>3 DEF FailLoad
  <2>4. CASE SetConfig(p)
    <3>1. cfg[p] \in Credentials /\ cfg[p].secret # None
      BY <1>1, <2>4 DEF CopiesHoldSecrets, Copies, SetConfig
    <3>2. QED
      BY <1>1, <1>2, <1>4, <2>4, <3>1 DEF SetConfig
  <2>5. CASE Answer(p)
    BY <1>1, <1>4, <2>5 DEF Answer
  <2>6. QED
    BY <2>1, <2>2, <2>3, <2>4, <2>5 DEF Proceed
<1>9. CASE BeginTick
  BY <1>1, <1>5, <1>9 DEF BeginTick, Procs, Ops, Guarded
<1>10. CASE Restart
  BY <1>10, RestartSettles DEF IInv
<1>11. QED
  BY <1>6, <1>7, <1>8, <1>9, <1>10 DEF Next

(* Every step leaves the copies with a secret, and a pinned one settled. *)
LEMMA StepSettles ==
    ASSUME IInv, Next
    PROVE  CopiesHoldSecrets' /\ SecretSettled'
<1> USE DEF Goto, Finish, Copies
<1>1. TypeOK /\ CopiesHoldSecrets /\ SecretSettled
  BY DEF IInv
<1>2. /\ file \in Credentials /\ env \in Environments
      /\ mem.secret # None /\ mem \in Memory
  BY <1>1 DEF TypeOK, Memory
<1>3. \A b \in Browsers : b \in Procs /\ b # Ticker
  BY DEF Procs
<1>4. ASSUME NEW p \in Procs, NEW step, pc' = [pc EXCEPT ![p] = step],
             UNCHANGED <<file, env, mem, pinned>>,
             \A q \in Procs \ {p} : cfg'[q] = cfg[q],
             step \in {"sign", "save", "publish", "set"} =>
                /\ cfg'[p].secret # None
                /\ pinned => cfg'[p].secret = mem.secret
      PROVE  CopiesHoldSecrets' /\ SecretSettled'
  <2>1. \A q \in Copies' :
            \/ q = p /\ step \in {"sign", "save", "publish", "set"}
            \/ q # p /\ q \in Copies
    BY <1>1, <1>4 DEF TypeOK
  <2>2. QED
    BY <1>1, <1>4, <2>1 DEF CopiesHoldSecrets, SecretSettled
<1>5. ASSUME NEW b \in Browsers,
             BeginLogin(b) \/ BeginSetup(b) \/ Enter(b) \/ DropCookie(b)
      PROVE  CopiesHoldSecrets' /\ SecretSettled'
  <2>1. CASE BeginLogin(b)
    BY <1>1, <1>2, <1>3, <1>4, <2>1 DEF BeginLogin, Begin, TypeOK
  <2>2. CASE BeginSetup(b)
    <3>1. /\ \A q \in Procs \ {b} : cfg'[q] = cfg[q]
          /\ cfg'[b].secret = mem.secret
      BY <1>1, <1>2, <1>3, <2>2 DEF BeginSetup, Ask, TypeOK, Memory
    <3>2. QED
      BY <1>2, <1>3, <1>4, <2>2, <3>1 DEF BeginSetup, Begin
  <2>3. CASE Enter(b)
    BY <1>3, <1>4, <2>3 DEF Enter, Begin
  <2>4. CASE DropCookie(b)
    BY <1>1, <2>4 DEF DropCookie, CopiesHoldSecrets, SecretSettled
  <2>5. QED
    BY <1>5, <2>1, <2>2, <2>3, <2>4
<1>6. ASSUME NEW b \in Browsers, Handle(b)
      PROVE  CopiesHoldSecrets' /\ SecretSettled'
  <2>1. CASE SignLogin(b)
    BY <1>1, <1>3, <1>4, <2>1 DEF SignLogin, TypeOK
  <2>2. CASE BeginChange(b)
    <3>1. /\ \A q \in Procs \ {b} : cfg'[q] = cfg[q]
          /\ cfg'[b].secret = mem.secret
      BY <1>1, <1>2, <1>3, <2>2 DEF BeginChange, Ask, TypeOK, Memory
    <3>2. QED
      BY <1>2, <1>3, <1>4, <2>2, <3>1 DEF BeginChange
  <2>3. CASE RefuseChange(b)
    BY <1>1, <1>3, <1>4, <2>3 DEF RefuseChange, TypeOK
  <2>4. CASE BeginUpdateSettings(b)
    BY <1>1, <1>2, <1>3, <1>4, <2>4 DEF BeginUpdateSettings, TypeOK
  <2>5. CASE BeginConfigReload(b)
    BY <1>3, <1>4, <2>5 DEF BeginConfigReload
  <2>6. CASE Save(b)
    <3>1. /\ cfg[b].secret # None
          /\ pinned => cfg[b].secret = mem.secret
      BY <1>1, <1>3, <2>6 DEF CopiesHoldSecrets, SecretSettled, Save
    <3>2. \A q \in Copies' : q \in Copies
      BY <1>1, <1>3, <2>6 DEF Save, TypeOK
    <3>3. pinned => Kept(env, file') = mem.secret
      BY <1>1, <1>2, <2>6, <3>1 DEF Save, Kept, Bound, SecretSettled
    <3>4. QED
      BY <1>1, <2>6, <3>2, <3>3 DEF Save, CopiesHoldSecrets, SecretSettled
  <2>7. CASE FailSave(b)
    BY <1>1, <1>3, <1>4, <2>7 DEF FailSave, TypeOK
  <2>8. CASE Publish(b)
    <3>1. pinned => mem'.secret = mem.secret
      BY <1>1, <1>3, <2>8 DEF SecretSettled, Publish
    <3>2. \A q \in Copies' : q \in Copies /\ cfg'[q] = cfg[q]
      BY <1>1, <1>3, <2>8 DEF Publish, TypeOK
    <3>3. QED
      BY <1>1, <2>8, <3>1, <3>2 DEF Publish, CopiesHoldSecrets, SecretSettled
  <2>9. QED
    BY <1>6, <2>1, <2>2, <2>3, <2>4, <2>5, <2>6, <2>7, <2>8 DEF Handle
<1>7. ASSUME NEW p \in Procs, Proceed(p)
      PROVE  CopiesHoldSecrets' /\ SecretSettled'
  <2>1. CASE Load(p)
    <3>1. PICK c \in Loaded(env, file, Unused(SecretsInUse)) :
              cfg' = [cfg EXCEPT ![p] = c]
      BY <2>1 DEF Load
    <3>2. c \in Memory /\ (Kept(env, file) # None => c.secret = Kept(env, file))
      BY <1>2, LoadedBinds
    <3>3. c.secret # None /\ (pinned => c.secret = mem.secret)
      BY <1>1, <1>2, <3>2 DEF Memory, SecretSettled
    <3>4. QED
      BY <1>1, <1>4, <2>1, <3>1, <3>3 DEF Load, TypeOK
  <2>2. CASE FailLoad(p)
    BY <1>1, <1>4, <2>2 DEF FailLoad, TypeOK
  <2>3. CASE SetConfig(p)
    <3>1. pinned => mem'.secret = mem.secret
      BY <1>1, <2>3 DEF SecretSettled, SetConfig
    <3>2. \A q \in Copies' : q \in Copies /\ cfg'[q] = cfg[q]
      BY <1>1, <2>3 DEF SetConfig, TypeOK
    <3>3. QED
      BY <1>1, <2>3, <3>1, <3>2
      DEF SetConfig, CopiesHoldSecrets, SecretSettled
  <2>4. CASE Answer(p)
    BY <1>1, <1>4, <2>4 DEF Answer, TypeOK
  <2>5. QED
    BY <1>7, <2>1, <2>2, <2>3, <2>4 DEF Proceed
<1>8. CASE BeginTick
  BY <1>4, <1>8 DEF BeginTick, Begin, Procs
<1>9. CASE Restart
  BY <1>9, RestartSettles DEF IInv
<1>10. QED
  BY <1>5, <1>6, <1>7, <1>8, <1>9 DEF Next

(* Every step keeps what is known as long as nobody has been overtaken. *)
LEMMA StepKeepsCalm ==
    ASSUME IInv, Next
    PROVE  Calm'
<1> USE DEF Goto, Finish
<1>1. TypeOK /\ Calm
  BY DEF IInv, Calm
<1>2. /\ file \in Credentials /\ env \in Environments
      /\ mem.secret # None /\ mem \in Memory
  BY <1>1 DEF TypeOK, Memory
<1>3. \A b \in Browsers : b \in Procs
  BY DEF Procs
<1>4. calm =>
        /\ \A p \in Procs : SecretAgrees(p) /\ HashAgrees(p)
        /\ \A p, q \in Procs : p # q => GivesWay(p, q)
  BY <1>1 DEF Calm, CalmSecrets, CalmTurns, CalmHashes
(* A call that begins, goes on or ends without a change that others see. *)
<1> DEFINE Leaves(p) ==
             \A q \in Procs \ {p} :
                /\ pc'[q] = pc[q] /\ op'[q] = op[q]
                /\ asked'[q] = asked[q] /\ cfg'[q] = cfg[q]
           Begins(p) ==
             /\ pc[p] \in {"idle", "entered"}
             /\ pc'[p] \in {"entered", "sign", "load"}
             /\ pc'[p] = "load" => op'[p] \notin PasswordOps
             /\ pc'[p] = "sign" => cfg'[p].secret = mem.secret
             /\ asked'[p] = asked[p]
           Loads(p) ==
             /\ pc[p] = "load" /\ pc'[p] = "set"
             /\ op'[p] = op[p] /\ asked'[p] = asked[p]
             /\ cfg'[p].hash = Bound(env.hash, file.hash)
             /\ Kept(env, file) # None => cfg'[p].secret = Kept(env, file)
           Ends(p) ==
             pc[p] # "publish" /\ pc'[p] = "idle" /\ asked'[p] = None
<1>5. ASSUME NEW p \in Procs, Leaves(p), Begins(p) \/ Loads(p) \/ Ends(p),
             UNCHANGED <<file, env, mem, promised, calm>>
      PROVE  Calm'
  <2>1. SUFFICES ASSUME calm'
                 PROVE  /\ SecretAgrees(p)' /\ HashAgrees(p)'
                        /\ \A q \in Procs \ {p} :
                              GivesWay(p, q)' /\ GivesWay(q, p)'
    <3>1. pc[p] # "publish"
      BY <1>5
    <3>2. QED
      BY <1>1, <1>5, <3>1, QuietStepKeepsCalm
  <2>2. calm /\ HashAgrees(p)
    BY <1>4, <1>5, <2>1
  <2>3. Kept(env, file) # None => mem.secret = Kept(env, file)
    BY <1>1, <2>2 DEF Calm, CalmSecrets
  <2>4. \A q \in Procs \ {p} : GivesWay(p, q) /\ GivesWay(q, p)
    BY <1>4, <2>2
  <2>5. CASE Begins(p)
    <3>1. asked'[p] = None
      BY <2>2, <2>5 DEF HashAgrees
    <3>2. SecretAgrees(p)' /\ HashAgrees(p)'
      BY <1>5, <2>5, <3>1 DEF SecretAgrees, HashAgrees, Copies
    <3>3. QED
      BY <1>5, <2>5, <3>1, <3>2 DEF GivesWay
  <2>6. CASE Loads(p)
    <3>1. SecretAgrees(p)'
      BY <1>5, <2>3, <2>6 DEF SecretAgrees, Copies
    <3>2. HashAgrees(p)'
      BY <1>5, <2>2, <2>6 DEF HashAgrees
    <3>3. QED
      BY <1>5, <2>4, <2>6, <3>1, <3>2 DEF GivesWay
  <2>7. CASE Ends(p)
    <3>1. SecretAgrees(p)' /\ HashAgrees(p)'
      BY <2>7 DEF SecretAgrees, HashAgrees, Copies
    <3>2. QED
      BY <1>5, <2>7, <3>1 DEF GivesWay
  <2>8. QED
    BY <1>5, <2>5, <2>6, <2>7
(* A call that has copied the memory and goes on to save. *)
<1>6. ASSUME NEW p \in Procs, pc' = [pc EXCEPT ![p] = "save"],
             pc[p] \in {"idle", "entered"}, Copying(p),
             UNCHANGED <<file, env, mem, promised>>,
             Leaves(p),
             cfg'[p].secret = mem.secret,
             IF op'[p] \in PasswordOps
                THEN cfg'[p].hash = asked'[p] /\ asked'[p] # None
                ELSE cfg'[p].hash = mem.hash /\ asked' = asked,
             op'[p] = "setup" => mem.hash = None
      PROVE  Calm'
  <2>1. pc'[p] = "save" /\ \A q \in Procs \ {p} : pc'[q] = pc[q]
    BY <1>1, <1>6 DEF TypeOK
  <2>2. SUFFICES ASSUME calm'
                 PROVE  /\ SecretAgrees(p)' /\ HashAgrees(p)'
                        /\ \A q \in Procs \ {p} :
                              GivesWay(p, q)' /\ GivesWay(q, p)'
    BY <1>1, <1>6, <2>1, QuietStepKeepsCalm DEF Copying
  <2>3. calm /\ \A q \in Procs : pc[q] # "publish"
    BY <1>6, <2>2 DEF Copying
  <2>4. mem.hash = None => file.hash = None
    BY <1>1, <2>3 DEF Calm, CalmHashes
  <2>5. SecretAgrees(p)'
    BY <1>6, <2>1 DEF SecretAgrees, Copies
  <2>6. HashAgrees(p)'
    BY <1>6, <2>1, <2>4 DEF HashAgrees
  <2>7. ASSUME NEW q \in Procs \ {p}
        PROVE  GivesWay(p, q)' /\ GivesWay(q, p)'
    BY <1>6, <2>1, <2>3 DEF GivesWay
  <2>8. QED
    BY <2>5, <2>6, <2>7
<1>7. ASSUME NEW b \in Browsers,
             BeginLogin(b) \/ BeginSetup(b) \/ Enter(b) \/ DropCookie(b)
      PROVE  Calm'
  <2>1. CASE BeginLogin(b)
    <3>1. Leaves(b) /\ Begins(b)
      BY <1>1, <1>3, <2>1 DEF BeginLogin, Begin, TypeOK
    <3>2. QED
      BY <1>3, <1>5, <2>1, <3>1 DEF BeginLogin
  <2>2. CASE BeginSetup(b)
    <3>1. PICK w \in Passwords : Ask(b, w)
      BY <2>2 DEF BeginSetup
    <3>2. /\ cfg'[b] = [mem EXCEPT !.hash = w] /\ asked'[b] = w
          /\ \A q \in Procs \ {b} : cfg'[q] = cfg[q] /\ asked'[q] = asked[q]
      BY <1>1, <1>3, <3>1 DEF Ask, TypeOK
    <3>3. cfg'[b].secret = mem.secret /\ cfg'[b].hash = w /\ w # None
      BY <1>2, <3>2 DEF Memory
    <3>4. /\ pc[b] = "idle" /\ pc' = [pc EXCEPT ![b] = "save"]
          /\ Copying(b) /\ mem.hash = None
          /\ UNCHANGED <<file, env, mem, promised>>
      BY <2>2 DEF BeginSetup, Begin
    <3>5. op'[b] = "setup" /\ \A q \in Procs \ {b} : op'[q] = op[q]
      BY <1>1, <1>3, <2>2 DEF BeginSetup, Begin, TypeOK
    <3>6. Leaves(b)
      BY <1>1, <1>3, <3>2, <3>4, <3>5 DEF TypeOK
    <3>7. QED
      BY <1>3, <1>6, <3>2, <3>3, <3>4, <3>5, <3>6 DEF PasswordOps
  <2>3. CASE Enter(b)
    <3>1. PICK o \in Guarded : Begin(b, o, "entered")
      BY <2>3 DEF Enter
    <3>2. QED
      <4>1. Leaves(b) /\ Begins(b)
        BY <1>1, <1>3, <2>3, <3>1 DEF Enter, Begin, TypeOK
      <4>2. QED
        BY <1>3, <1>5, <2>3, <4>1 DEF Enter
  <2>4. CASE DropCookie(b)
    <3>1. UNCHANGED <<file, env, mem, pc, op, asked, cfg, calm, promised>>
      BY <2>4 DEF DropCookie
    <3>2. \A p \in Procs :
            /\ SecretAgrees(p) => SecretAgrees(p)'
            /\ HashAgrees(p) => HashAgrees(p)'
      BY <3>1, OthersKnow
    <3>3. CalmSecrets' /\ CalmHashes'
      BY <1>1, <3>1, <3>2 DEF Calm, CalmSecrets, CalmHashes
    <3>4. CalmTurns'
      BY <1>1, <3>1 DEF Calm, CalmTurns, GivesWay
    <3>5. QED
      BY <3>3, <3>4 DEF Calm
  <2>5. QED
    BY <1>7, <2>1, <2>2, <2>3, <2>4
<1>8. ASSUME NEW b \in Browsers, Handle(b)
      PROVE  Calm'
  <2>1. CASE SignLogin(b)
    <3>1. Leaves(b) /\ Ends(b)
      BY <1>1, <1>3, <2>1 DEF SignLogin, TypeOK
    <3>2. QED
      BY <1>3, <1>5, <2>1, <3>1 DEF SignLogin
  <2>2. CASE BeginChange(b)
    <3>1. PICK w \in Passwords : Ask(b, w)
      BY <2>2 DEF BeginChange
    <3>2. /\ cfg'[b] = [mem EXCEPT !.hash = w] /\ asked'[b] = w
          /\ \A q \in Procs \ {b} : cfg'[q] = cfg[q] /\ asked'[q] = asked[q]
      BY <1>1, <1>3, <3>1 DEF Ask, TypeOK
    <3>3. cfg'[b].secret = mem.secret /\ cfg'[b].hash = w /\ w # None
      BY <1>2, <3>2 DEF Memory
    <3>4. Leaves(b)
      BY <1>1, <1>3, <2>2, <3>2 DEF BeginChange, TypeOK
    <3>5. QED
      BY <1>3, <1>6, <2>2, <3>2, <3>3, <3>4 DEF BeginChange, PasswordOps
  <2>3. CASE RefuseChange(b)
    <3>1. Leaves(b) /\ Ends(b)
      BY <1>1, <1>3, <2>3 DEF RefuseChange, TypeOK
    <3>2. QED
      BY <1>3, <1>5, <2>3, <3>1 DEF RefuseChange
  <2>4. CASE BeginUpdateSettings(b)
    <3>1. cfg'[b] = mem /\ \A q \in Procs \ {b} : cfg'[q] = cfg[q]
      BY <1>1, <1>3, <2>4 DEF BeginUpdateSettings, TypeOK
    <3>2. Leaves(b)
      BY <1>1, <1>3, <2>4, <3>1 DEF BeginUpdateSettings, TypeOK
    <3>3. QED
      BY <1>3, <1>6, <2>4, <3>1, <3>2 DEF BeginUpdateSettings, PasswordOps
  <2>5. CASE BeginConfigReload(b)
    <3>1. Leaves(b) /\ Begins(b)
      BY <1>1, <1>3, <2>5 DEF BeginConfigReload, TypeOK, PasswordOps
    <3>2. QED
      BY <1>3, <1>5, <2>5, <3>1 DEF BeginConfigReload
  <2>6. CASE Save(b)
    <3> SUFFICES ASSUME calm'
                 PROVE  Calm'
      BY DEF Calm, CalmSecrets, CalmTurns, CalmHashes
    <3>1. /\ pc[b] = "save" /\ file' = cfg[b]
          /\ UNCHANGED <<env, mem, cfg, op, asked>>
          /\ promised' = IF op[b] \in PasswordOps THEN None ELSE promised
      BY <2>6 DEF Save
    <3>2. calm /\ \A q \in Procs \ {b} : q \notin Copies /\ asked[q] = None
      BY <2>6 DEF Save, Writing
    <3>3. pc'[b] = "publish" /\ \A q \in Procs \ {b} : pc'[q] = pc[q]
      BY <1>1, <1>3, <2>6 DEF Save, TypeOK
    <3>4. SecretAgrees(b) /\ HashAgrees(b) /\ b \in Procs
      BY <1>3, <1>4, <3>2
    <3>5. cfg[b].secret = mem.secret
      BY <3>1, <3>4 DEF SecretAgrees, Copies
    <3>6. Kept(env, file') # None => mem.secret = Kept(env, file')
      BY <1>1, <3>1, <3>2, <3>5 DEF Calm, CalmSecrets, Kept, Bound
    <3>7. \A q \in Procs : pc[q] # "publish"
      BY <3>1, <3>2 DEF Copies
    <3>8. /\ env.hash # None => mem.hash # None
          /\ env.hash = None => mem.hash = file.hash
          /\ env.hash = None /\ promised # None => file.hash = promised
      BY <1>1, <3>2, <3>7 DEF Calm, CalmHashes
    <3>9. SecretAgrees(b)' /\ HashAgrees(b)'
      BY <3>1, <3>3, <3>4, <3>5, <3>8 DEF SecretAgrees, HashAgrees, Copies
    <3>10. ASSUME NEW q \in Procs \ {b}
           PROVE  SecretAgrees(q)' /\ HashAgrees(q)'
      <4>1. HashAgrees(q)
        BY <1>4, <3>2
      <4>2. pc[q] \notin {"sign", "save", "publish", "set"} /\ asked[q] = None
        BY <3>2 DEF Copies
      <4>3. QED
        BY <3>1, <3>3, <4>1, <4>2 DEF SecretAgrees, HashAgrees, Copies
    <3>11. \A q \in Procs : SecretAgrees(q)' /\ HashAgrees(q)'
      BY <3>9, <3>10
    <3>12. CalmSecrets'
      BY <3>1, <3>6, <3>11 DEF CalmSecrets
    <3>13. CalmTurns'
      <4>1. \A q \in Procs \ {b} :
               pc[q] \notin {"sign", "save", "publish", "set"} /\ asked[q] = None
        BY <3>2 DEF Copies
      <4>2. QED
        BY <3>1, <3>3, <4>1 DEF CalmTurns, GivesWay
    <3>14. env.hash = None =>
             /\ \/ mem.hash = file'.hash
                \/ pc'[b] = "publish" /\ op[b] \in PasswordOps
             /\ promised' # None => file'.hash = promised'
      BY <3>1, <3>3, <3>4, <3>8 DEF HashAgrees
    <3>15. CalmHashes'
      BY <3>1, <3>4, <3>8, <3>11, <3>14 DEF CalmHashes
    <3>16. QED
      BY <3>12, <3>13, <3>15 DEF Calm
  <2>7. CASE FailSave(b)
    <3>1. Leaves(b) /\ Ends(b)
      BY <1>1, <1>3, <2>7 DEF FailSave, TypeOK
    <3>2. QED
      BY <1>3, <1>5, <2>7, <3>1 DEF FailSave
  <2>8. CASE Publish(b)
    <3>1. \A q \in Procs \ {b} : cfg'[q] = cfg[q]
      BY <1>1, <1>3, <2>8 DEF Publish, TypeOK
    <3>2. QED
      BY <1>1, <1>3, <2>8, <3>1, StoreKeepsCalm DEF Publish
  <2>9. QED
    BY <1>8, <2>1, <2>2, <2>3, <2>4, <2>5, <2>6, <2>7, <2>8 DEF Handle
<1>9. ASSUME NEW p \in Procs, Proceed(p)
      PROVE  Calm'
  <2>1. CASE Load(p)
    <3>1. PICK c \in Loaded(env, file, Unused(SecretsInUse)) :
              cfg' = [cfg EXCEPT ![p] = c]
      BY <2>1 DEF Load
    <3>2. /\ c.hash = Bound(env.hash, file.hash)
          /\ Kept(env, file) # None => c.secret = Kept(env, file)
      BY <1>2, LoadedBinds
    <3>3. cfg'[p] = c /\ \A q \in Procs \ {p} : cfg'[q] = cfg[q]
      BY <1>1, <3>1 DEF TypeOK
    <3>4. Leaves(p) /\ Loads(p)
      BY <1>1, <2>1, <3>2, <3>3 DEF Load, TypeOK
    <3>5. QED
      BY <1>5, <2>1, <3>4 DEF Load
  <2>2. CASE FailLoad(p)
    <3>1. Leaves(p) /\ Ends(p)
      BY <1>1, <2>2 DEF FailLoad, TypeOK
    <3>2. QED
      BY <1>5, <2>2, <3>1 DEF FailLoad
  <2>3. CASE SetConfig(p)
    <3>1. \A q \in Procs \ {p} : cfg'[q] = cfg[q]
      BY <1>1, <2>3 DEF SetConfig, TypeOK
    <3>2. QED
      BY <1>1, <2>3, <3>1, StoreKeepsCalm DEF SetConfig
  <2>4. CASE Answer(p)
    <3>1. CASE op[p] \notin PasswordOps
      <4>1. Leaves(p) /\ Ends(p)
        BY <1>1, <2>4 DEF Answer, TypeOK
      <4>2. QED
        BY <1>5, <2>4, <3>1, <4>1 DEF Answer
    <3>2. CASE op[p] \in PasswordOps
      <4> SUFFICES ASSUME calm'
                   PROVE  Calm'
        BY DEF Calm, CalmSecrets, CalmTurns, CalmHashes
      <4>1. /\ pc[p] = "answer" /\ promised' = asked[p] /\ calm
            /\ UNCHANGED <<file, env, mem>>
        BY <2>4, <3>2 DEF Answer
      <4>2. /\ pc'[p] = "idle" /\ asked'[p] = None
            /\ \A q \in Procs \ {p} :
                  /\ pc'[q] = pc[q] /\ op'[q] = op[q]
                  /\ asked'[q] = asked[q] /\ cfg'[q] = cfg[q]
        BY <1>1, <2>4 DEF Answer, TypeOK
      <4>3. asked[p] # None /\ asked[p] = file.hash
        BY <1>4, <3>2, <4>1 DEF HashAgrees
      <4>4. ASSUME NEW q \in Procs \ {p}
            PROVE  SecretAgrees(q)' /\ HashAgrees(q)'
        <5>1. /\ SecretAgrees(q) /\ HashAgrees(q)
              /\ GivesWay(p, q) /\ GivesWay(q, p)
          BY <1>4, <4>1
        <5>2. ~(/\ op[q] \in PasswordOps
                /\ pc[q] \in {"publish", "load", "set", "answer"})
          BY <4>1, <4>3, <5>1 DEF GivesWay, HashAgrees
        <5>3. QED
          BY <4>1, <4>2, <5>1, <5>2 DEF SecretAgrees, HashAgrees, Copies
      <4>5. SecretAgrees(p)' /\ HashAgrees(p)'
        BY <4>2 DEF SecretAgrees, HashAgrees, Copies
      <4>6. \A q \in Procs : SecretAgrees(q)' /\ HashAgrees(q)'
        BY <4>4, <4>5
      <4>7. CalmSecrets'
        BY <1>1, <4>1, <4>6 DEF Calm, CalmSecrets
      <4>8. CalmTurns'
        <5>1. ASSUME NEW q \in Procs, NEW r \in Procs, q # r
              PROVE  GivesWay(q, r)'
          <6>1. GivesWay(q, r)
            BY <1>4, <4>1, <5>1
          <6>2. QED
            BY <4>2, <5>1, <6>1 DEF GivesWay
        <5>2. QED
          BY <5>1 DEF CalmTurns
      <4>9. env.hash = None =>
              \/ mem.hash = file.hash
              \/ \E q \in Procs : pc'[q] = "publish" /\ op'[q] \in PasswordOps
        BY <1>1, <4>1, <4>2 DEF Calm, CalmHashes
      <4>10. CalmHashes'
        BY <1>1, <4>1, <4>3, <4>6, <4>9 DEF Calm, CalmHashes
      <4>11. QED
        BY <4>7, <4>8, <4>10 DEF Calm
    <3>3. QED
      BY <3>1, <3>2
  <2>5. QED
    BY <1>9, <2>1, <2>2, <2>3, <2>4 DEF Proceed
<1>10. CASE BeginTick
  <2>1. Ticker \in Procs
    BY DEF Procs
  <2>2. QED
    <3>1. Leaves(Ticker) /\ Begins(Ticker)
      BY <1>1, <1>10, <2>1 DEF BeginTick, Begin, TypeOK, PasswordOps
    <3>2. QED
      BY <1>5, <1>10, <2>1, <3>1 DEF BeginTick
<1>11. CASE Restart
  BY <1>11, RestartSettles DEF IInv, Calm
<1>12. QED
  BY <1>7, <1>8, <1>9, <1>10, <1>11 DEF Next

(* The invariant of every run of the server. *)
THEOREM InvariantHolds == Spec => []IInv
<1>1. Init => IInv
  BY InitSettles
<1>2. IInv /\ [Next]_vars => IInv'
  <2>1. SUFFICES ASSUME IInv, [Next]_vars
                 PROVE  IInv'
    OBVIOUS
  <2>2. CASE Next
    BY <2>1, <2>2, StepKeepsTypes, StepSettles, StepKeepsCalm DEF IInv, Calm
  <2>3. CASE UNCHANGED vars
    BY <2>1, <2>3
    DEF vars, IInv, TypeOK, CopiesHoldSecrets, SecretSettled, CalmSecrets,
        CalmTurns, GivesWay, CalmHashes, SecretAgrees, HashAgrees, Copies
  <2>4. QED
    BY <2>1, <2>2, <2>3
<1>3. QED
  BY <1>1, <1>2, PTL DEF Spec

(* A pinned secret is settled: every copy of it that any call works with   *)
(* is the one the next load will find, whatever overlaps                   *)
(* (config.go:247-252, manager.go:73-83).                                  *)
THEOREM SecretsSettle == Spec => []SecretSettled
<1>1. IInv => SecretSettled
  BY DEF IInv
<1>2. QED
  BY <1>1, InvariantHolds, PTL

(* As long as no call has been overtaken, the password one was answered    *)
(* 200 for is the one on file and in use (handlers.go:885-897, 983-994).   *)
THEOREM PromisesAreKept == Spec => []PromiseKept
<1>1. ASSUME IInv
      PROVE  PromiseKept
  <2>1. SUFFICES ASSUME calm, env.hash = None, promised # None
                 PROVE  file.hash = promised /\ mem.hash = promised
    BY DEF PromiseKept
  <2>2. file.hash = promised
    BY <1>1, <2>1 DEF IInv, CalmHashes
  <2>3. \A p \in Procs : ~(pc[p] = "publish" /\ op[p] \in PasswordOps)
    BY <1>1, <2>1 DEF IInv, CalmHashes, HashAgrees
  <2>4. mem.hash = file.hash
    BY <1>1, <2>1, <2>3 DEF IInv, CalmHashes
  <2>5. QED
    BY <2>2, <2>4
<1>2. QED
  BY <1>1, InvariantHolds, PTL

-----------------------------------------------------------------------------
(* The steps that assign Manager.config; all others leave it as it is. *)
LEMMA WhoAssigns ==
    ASSUME [Next]_vars
    PROVE  \/ mem' = mem
           \/ Restart
           \/ \E b \in Browsers : Publish(b)
           \/ \E p \in Procs : SetConfig(p)
BY DEF Next, Handle, Proceed, vars, BeginLogin, BeginSetup, Enter, DropCookie,
       SignLogin, BeginChange, RefuseChange, BeginUpdateSettings,
       BeginConfigReload, Save, FailSave, Load, FailLoad, Answer, BeginTick

(* A secret that a load would find again stays the secret in memory. *)
LEMMA SecretStays ==
    ASSUME IInv, [Next]_vars, env'.secret = env.secret,
           pinned \/ (calm /\ Kept(env, file) # None)
    PROVE  mem'.secret = mem.secret
<1>1. mem.secret = Kept(env, file) /\ Kept(env, file) # None
  BY DEF IInv, TypeOK, SecretSettled, CalmSecrets
<1>2. \A p \in Copies : cfg[p].secret = mem.secret
  BY <1>1 DEF IInv, SecretSettled, CalmSecrets, SecretAgrees, Copies
<1>3. CASE \E b \in Browsers : Publish(b)
  BY <1>2, <1>3 DEF Publish, Copies, Procs
<1>4. CASE \E p \in Procs : SetConfig(p)
  BY <1>2, <1>4 DEF SetConfig, Copies
<1>5. CASE Restart
  <2>1. file \in Credentials /\ env' \in Environments
    BY <1>5 DEF IInv, TypeOK, Restart
  <2>2. Kept(env', file) = Kept(env, file)
    BY DEF Kept
  <2>3. QED
    BY <1>1, <1>5, <2>1, <2>2, LoadedBinds DEF Restart
<1>6. QED
  BY <1>3, <1>4, <1>5, WhoAssigns

(* An accepted session stays accepted: always if the server started with a *)
(* secret, else once there is one on file, as long as no call has been     *)
(* overtaken.                                                              *)
THEOREM SessionsDoSurvive == Spec => SessionsSurvive
<1>1. ASSUME IInv, [Next]_vars, NEW b \in Browsers,
             pinned \/ (calm /\ Kept(env, file) # None),
             Authenticated(b),
             env'.secret = env.secret, cookie'[b] = cookie[b]
      PROVE  Authenticated(b)'
  <2>1. mem'.secret = mem.secret
    BY <1>1, SecretStays
  <2>2. QED
    BY <1>1, <2>1 DEF Authenticated
<1>2. IInv /\ [Next]_vars =>
          [\A b \in Browsers :
             /\ pinned \/ (calm /\ Kept(env, file) # None)
             /\ Authenticated(b)
             /\ env'.secret = env.secret /\ cookie'[b] = cookie[b]
             => Authenticated(b)']_vars
  BY <1>1
<1>3. QED
  BY <1>2, InvariantHolds, PTL DEF Spec, SessionsSurvive

(* The sessions handed out are accepted (handlers.go:782-812, 885-899), if *)
(* the server started with a secret or no call has been overtaken.         *)
THEOREM NewSessionsDoWork == Spec => NewSessionsWork
<1>1. ASSUME IInv, [Next]_vars, NEW b \in Browsers,
             pinned \/ calm, cookie'[b] \notin {cookie[b], None}
      PROVE  Authenticated(b)'
  <2>1. \/ \E c \in Browsers : SignLogin(c)
        \/ \E p \in Procs : Answer(p) /\ op[p] = "setup"
        \/ \E c \in Browsers : DropCookie(c)
    BY <1>1
    DEF Next, Handle, Proceed, vars, BeginLogin, BeginSetup, Enter,
        BeginChange, RefuseChange, BeginUpdateSettings, BeginConfigReload,
        Save, FailSave, Load, FailLoad, Publish, SetConfig, Answer, BeginTick,
        Restart
  <2>2. TypeOK /\ b \in Procs
    BY <1>1 DEF IInv, Procs
  <2>3. CASE \E c \in Browsers : SignLogin(c)
    <3>1. PICK c \in Browsers : SignLogin(c)
      BY <2>3
    <3>2. b = c /\ cookie'[b] = cfg[b].secret /\ mem' = mem
      BY <1>1, <2>2, <3>1 DEF SignLogin, TypeOK
    <3>3. cfg[b].secret = mem.secret
      BY <1>1, <2>2, <3>1, <3>2
      DEF IInv, SecretSettled, CalmSecrets, SecretAgrees, Copies, SignLogin
    <3>4. QED
      BY <1>1, <3>2, <3>3 DEF Authenticated
  <2>4. CASE \E p \in Procs : Answer(p) /\ op[p] = "setup"
    BY <1>1, <2>2, <2>4 DEF Answer, Authenticated, TypeOK
  <2>5. CASE \E c \in Browsers : DropCookie(c)
    BY <1>1, <2>2, <2>5 DEF DropCookie, TypeOK
  <2>6. QED
    BY <2>1, <2>3, <2>4, <2>5
<1>2. IInv /\ [Next]_vars =>
          [\A b \in Browsers :
             /\ pinned \/ calm
             /\ cookie'[b] \notin {cookie[b], None}
             => Authenticated(b)']_vars
  BY <1>1
<1>3. QED
  BY <1>2, InvariantHolds, PTL DEF Spec, NewSessionsWork

(* As long as no call has been overtaken, a setup replaces no password on  *)
(* file (handlers.go:829-831), however many others there are.              *)
THEOREM SetupsReplaceNothing == Spec => SetupReplacesNothing
<1>1. IInv /\ [Next]_vars =>
          [\A b \in Browsers :
             /\ calm /\ op[b] = "setup"
             /\ pc[b] = "save" /\ pc'[b] = "publish"
             => file.hash = None]_vars
  BY DEF IInv, CalmHashes, HashAgrees, Procs
<1>2. QED
  BY <1>1, InvariantHolds, PTL DEF Spec, SetupReplacesNothing
=============================================================================
